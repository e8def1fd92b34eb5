---------------------------- MODULE EpisodeProofs ---------------------------
(***************************************************************************)
(* What Episode promises, for any tasks, weights, decision intervals and   *)
(* bounds: the view is the world, disruptions are accounted for, nothing   *)
(* is paid for twice, the shaping telescopes and a measured episode ends   *)
(* measured.                                                               *)
(*                                                                         *)
(* Nothing is claimed between an exception that left the environment, or a *)
(* step without an answer, and the next reset; what is claimed of the rest *)
(* of the time (`Standing') is inductive only as a whole, and holds of the *)
(* world and of what the environment becomes with an answer.               *)
(*                                                                         *)
(* Last, what the environment measures production by (module Production):  *)
(* its criterion is sound and its metric agrees with it.                   *)
(***************************************************************************)
EXTENDS Episode, Production, WellFoundedInduction, FiniteSetTheorems, TLAPS

Working == {"step", "observe", "truth", "disrupt", "reobserve", "retruth"}

(* A call under way, and where it may stand.                               *)
Placed(c, s) ==
  \/ c = Idle
  \/ /\ c.at \in Working /\ c.op \in {"act", "skill", "wait", "finish", "bridge"} /\ s = "live"
     /\ c.op = "wait" => "wait" \in task.calls
     /\ c.inside => task.verify > 0
     /\ c.at = "disrupt" => c.which \in Disruptions
  \/ c.at \in {"reset", "begin", "begintruth"} /\ c.op = "reset"

(* Until an episode begins it has recorded nothing and the world is fresh. *)
Resetting(w, e, c) ==
  /\ e.applied = {} /\ ~ e.window.ran /\ e.steps = 0
  /\ \A i \in Disruptions : e.log[i] = "none"
  /\ c.at # "reset" => w.tick = 0 /\ w.down = {}
  /\ c.at = "begintruth" => e.view.tick = 0 /\ e.view.down = {}

(* The view is the world, but for a disruption not yet read back.          *)
Cached(w, e, c) ==
  /\ e.view.tick = w.tick /\ e.view.level = w.level /\ e.view.made = w.made
  /\ c.at # "reobserve" => e.view.down = w.down

(* The record and the world agree, and only the disruption being asked for *)
(* is marked and not recorded.                                             *)
Noted(w, e, c) ==
  /\ \A i \in Disruptions :
       /\ e.log[i] = "applied" <=> i \in w.down
       /\ e.log[i] = "none" <=> i \notin e.applied \/ (c.at = "disrupt" /\ c.which = i)
  /\ c.at = "disrupt" => c.which \in e.applied

(* Nothing that is due is left when a step has been adopted.               *)
Punctual(e, c) ==
  c.at \in {"idle", "step", "observe", "truth"} =>
    \A i \in Disruptions : task.disruptAt[i] <= e.view.tick /\ e.view.tick > 0 => i \in e.applied

(* A client may choose only while steps and building time are left, and an *)
(* interval begins only within them.                                       *)
Limit == task.ticks - task.verify

Budgeted(e, c, s) ==
  /\ s = "live" /\ c = Idle => e.steps < task.steps
  /\ s = "live" /\ ~ c.inside =>
       /\ c.at \in {"idle", "step"} => e.view.tick < Limit
       /\ e.view.tick < Limit + DecisionTicks

(* The window's ticks: those that have passed and those still to be asked  *)
(* for are what the task declares, all of them if no request failed.       *)
Spans(ticks, f) == ticks <= task.verify /\ (f = 0 => ticks = task.verify)

Lasted(e, c) ==
  e.view.tick - c.start + c.left - (IF c.at = "step" THEN 0 ELSE Least(DecisionTicks, c.left))

Windowed(e, c, t, s, f) ==
  task.verify > 0 =>
    /\ s = "live" => ~ e.window.ran /\ t.plain = 0 /\ c.plain = 0
    /\ s = "live" /\ c.inside => c.start < Limit + DecisionTicks /\ Spans(Lasted(e, c), f)
    /\ s \in {"terminated", "truncated"} =>
         /\ s = "terminated" /\ e.window.ran
         /\ t.plain = Least(e.window.output, task.target)
         /\ t.success <=> e.window.output >= task.target
         /\ Spans(e.window.end - e.window.start, f) /\ e.window.end < task.ticks + DecisionTicks

(* What the client was paid, and what the call has gathered, is what the   *)
(* accounts say; a wait pays its last interval only, so nothing is claimed *)
(* of the high-water component where a client may wait.                    *)
Skilled(c, n) == IF c.op = "skill" THEN n ELSE 0

Balanced(e, c, t, s) ==
  task.verify = 0 /\ ("wait" \in task.calls => "high" \notin task.kinds) =>
    /\ t.plain + Skilled(c, c.plain) =
         (IF t.success THEN Sparse ELSE 0)
       + (IF "high" \in task.kinds THEN e.account.paid ELSE 0)
       - (IF "cost" \in task.kinds THEN t.elapsed + Skilled(c, c.spent) ELSE 0)
    /\ "high" \in task.kinds =>
         /\ e.account.high = t.best /\ t.first <= t.best
         /\ e.account.paid = Least(Cap, t.best - t.first)
    /\ s = "live" => ~ t.success

Standing(w, e, c, t, s, f) ==
  /\ Cached(w, e, c) /\ Noted(w, e, c) /\ Punctual(e, c)
  /\ Budgeted(e, c, s) /\ Windowed(e, c, t, s, f) /\ Balanced(e, c, t, s)

IInv ==
  /\ TypeOK /\ Placed(call, state)
  /\ call.op = "reset" => Resetting(world, env, call)
  /\ ~ raised => env.steps <= task.steps
  /\ ~ raised /\ call.op # "reset" /\ state # "excluded" =>
       Standing(world, env, call, told, state, faults)

-----------------------------------------------------------------------------
(* Helpers on numbers, on the constants and on the records.                *)
LEMMA SmallestIsIn ==
  ASSUME NEW S \in SUBSET Nat, S # {}
  PROVE  Min(S) \in S
<1>1. PICK x \in S : \A y \in S : ~ (<<y, x>> \in OpToRel(<, Nat))
  BY NatLessThanWellFounded, WFMin
<1>2. ASSUME NEW y \in S
      PROVE  x <= y
  <2>1. <<y, x>> \in Nat \X Nat /\ <<y, x>>[1] = y /\ <<y, x>>[2] = x
    OBVIOUS
  <2>2. ~ (y < x)
    BY <1>1, <2>1 DEF OpToRel
  <2>3. QED  BY <2>2
<1>3. QED  BY <1>2 DEF Min

LEMMA TaskFacts ==
  ASSUME TypeOK
  PROVE  /\ task.kinds \subseteq {"cost", "high", "potential"} /\ task.goal \in Nat
         /\ task.verify \in Nat /\ task.target \in Nat
         /\ task.verify > 0 => task.kinds = {} /\ task.goal = 0
         /\ task.steps \in Nat /\ task.steps > 0 /\ task.ticks \in Nat /\ task.verify < task.ticks
         /\ Limit \in Nat /\ Limit > 0 /\ Limit + task.verify = task.ticks
         /\ Disruptions \subseteq Nat /\ \A i \in Disruptions : task.disruptAt[i] \in Nat
         /\ DecisionTicks \in Nat /\ DecisionTicks > 0 /\ MaxLevel \in Nat /\ MaxLevel > 0 /\ MaxWaits \in Nat
         /\ SkillBudget \in Nat /\ Sparse \in Nat /\ Cap \in Nat
<1>1. TaskOK(task)
  BY EpisodeAssumption DEF TypeOK
<1>2. Disruptions \subseteq Nat /\ \A i \in Disruptions : task.disruptAt[i] \in Nat
  BY <1>1 DEF TaskOK, Disruptions
<1>3. QED  BY <1>1, <1>2, EpisodeAssumption, RewardAssumption DEF TaskOK, Limit

LEMMA LeastMost ==
  ASSUME NEW a \in Int, NEW b \in Int
  PROVE  /\ Least(a, b) \in Int /\ Least(a, b) <= a /\ Least(a, b) <= b
         /\ Least(a, b) = a \/ Least(a, b) = b
         /\ Most(a, b) \in Int /\ Most(a, b) >= a /\ Most(a, b) >= b
         /\ Most(a, b) = a \/ Most(a, b) = b
BY DEF Least, Most

EnvOK(e) == e \in Environments
CallOK(c) == c \in ClientCalls(c.sum)

LEMMA EnvFields ==
  ASSUME NEW e, EnvOK(e)
  PROVE  /\ e.view \in Views /\ e.steps \in Nat /\ e.applied \subseteq Disruptions
         /\ e.log \in [Disruptions -> {"none", "applied", "refused"}]
         /\ e.window \in [ran : BOOLEAN, start : Nat, end : Nat, output : Nat]
         /\ e.account \in Accounts
         /\ e.view.tick \in Nat /\ e.view.level \in 0 .. MaxLevel /\ e.view.made \in Nat
         /\ e.view.down \subseteq Disruptions
         /\ e.window.ran \in BOOLEAN /\ e.window.output \in Nat
         /\ e.window.start \in Nat /\ e.window.end \in Nat
         /\ e.account.high \in Nat /\ e.account.paid \in Nat /\ e.account.potential \in Nat
BY DEF EnvOK, Environments, Views, Accounts

LEMMA CallFields ==
  ASSUME NEW c, CallOK(c)
  PROVE  /\ c.op \in {"none", "act", "skill", "wait", "finish", "bridge", "reset"}
         /\ c.at \in Places /\ c.which \in Nat /\ c.inside \in BOOLEAN
         /\ c.left \in 0 .. task.verify /\ c.start \in Nat /\ c.mark \in Nat
         /\ c.waits \in 0 .. MaxWaits /\ c.spent \in Nat /\ c.plain \in Int
BY DEF CallOK, ClientCalls

LEMMA IdleOK ==
  ASSUME TypeOK
  PROVE  /\ CallOK(Idle) /\ Idle \in ClientCalls(Nothing) /\ Idle.op = "none" /\ Idle.at = "idle"
         /\ Idle.which = 0 /\ ~ Idle.inside /\ Idle.left = 0 /\ Idle.start = 0 /\ Idle.mark = 0
         /\ Idle.waits = 0 /\ Idle.spent = 0 /\ Idle.plain = 0 /\ Idle.sum = Nothing
<1>1. 0 \in 0 .. task.verify /\ 0 \in 0 .. MaxWaits
  BY TaskFacts
<1>2. QED  BY <1>1 DEF CallOK, ClientCalls, Idle, Places

LEMMA AskedOK ==
  ASSUME TypeOK, NEW op \in {"act", "skill", "wait", "finish", "bridge", "reset"}
  PROVE  /\ CallOK(Asked(op)) /\ Asked(op).op = op /\ Asked(op).at = "step"
         /\ Asked(op).which = 0 /\ ~ Asked(op).inside /\ Asked(op).left = 0
         /\ Asked(op).start = 0 /\ Asked(op).mark = 0 /\ Asked(op).waits = 0
         /\ Asked(op).spent = 0 /\ Asked(op).plain = 0
<1> DEFINE c == Asked(op)
<1>1. Idle \in ClientCalls(Nothing) /\ c = [Idle EXCEPT !.op = op, !.at = "step"]
  BY IdleOK DEF Asked
<1> HIDE DEF c
<1>2. /\ c \in ClientCalls(Nothing) /\ c.sum = Nothing /\ c.op = op /\ c.at = "step"
      /\ c.which = Idle.which /\ c.inside = Idle.inside /\ c.left = Idle.left
      /\ c.start = Idle.start /\ c.mark = Idle.mark /\ c.waits = Idle.waits
      /\ c.spent = Idle.spent /\ c.plain = Idle.plain
  BY <1>1 DEF ClientCalls, Places
<1>3. QED  BY <1>2, IdleOK DEF CallOK, c

(* What an answer makes of the environment, the call and the client.       *)
Typed(m) ==
  /\ EnvOK(m.env) /\ CallOK(m.call) /\ m.told \in Payments(m.told.sum) /\ m.state \in States

LEMMA GatheredOK ==
  ASSUME TypeOK, NEW c, CallOK(c), NEW paid, paid.plain \in Int
  PROVE  LET g == Gathered(c, paid) IN
         /\ CallOK(g) /\ g.op = c.op /\ g.at = c.at /\ g.which = c.which /\ g.inside = c.inside
         /\ g.left = c.left /\ g.start = c.start /\ g.mark = c.mark /\ g.waits = c.waits
         /\ g.spent = c.spent + 1 /\ g.plain = Skilled(c, c.plain) + paid.plain
<1> DEFINE g == Gathered(c, paid)
           so == IF c.op = "skill" THEN c ELSE Idle
           w == Weight(Before(c))
           sum == [plain |-> so.sum.plain + w * paid.plain,
                   shape |-> so.sum.shape + w * paid.shape, due |-> 0]
           plain == so.plain + paid.plain
<1>1. g = [c EXCEPT !.spent = c.spent + 1, !.plain = plain, !.sum = sum]
  BY DEF Gathered, GatheredAt
<1>2. plain \in Int /\ c.spent + 1 \in Nat /\ plain = Skilled(c, c.plain) + paid.plain
  <2>1. so.plain = Skilled(c, c.plain) /\ so.plain \in Int
    BY CallFields, IdleOK DEF Skilled
  <2>2. QED  BY <2>1, CallFields
<1> HIDE DEF sum, plain, g
<1>3. c \in ClientCalls(c.sum)
  BY DEF CallOK
<1>4. g.sum = sum /\ g \in ClientCalls(sum)
  BY <1>1, <1>2, <1>3 DEF ClientCalls
<1>5. /\ g.op = c.op /\ g.at = c.at /\ g.which = c.which /\ g.inside = c.inside
      /\ g.left = c.left /\ g.start = c.start /\ g.mark = c.mark /\ g.waits = c.waits
      /\ g.spent = c.spent + 1 /\ g.plain = plain
  BY <1>1, <1>3 DEF ClientCalls
<1>6. QED  BY <1>2, <1>4, <1>5 DEF CallOK, g

EndsWith(m, e, c, paid, over, success) ==
  /\ m.env = e /\ m.call = Idle /\ m.state = over
  /\ m.told.plain = told.plain + Skilled(c, c.plain) + paid
  /\ m.told.elapsed = told.elapsed + (IF c.op = "skill" THEN c.spent + 1 ELSE 1)
  /\ m.told.success = success /\ m.told.first = told.first
  /\ m.told.best = Most(told.best, e.view.level)

Repeats(m, e, c, paid) ==
  /\ m.env = [e EXCEPT !.steps = e.steps + 1] /\ m.state = state
  /\ m.call.op = c.op /\ m.call.at = "step" /\ m.call.inside = c.inside
  /\ m.call.spent = c.spent + 1 /\ m.call.plain = Skilled(c, c.plain) + paid
  /\ m.told.plain = told.plain /\ m.told.elapsed = told.elapsed
  /\ m.told.success = told.success /\ m.told.first = told.first
  /\ m.told.best = Most(told.best, e.view.level)

LEMMA PaymentFields ==
  ASSUME TypeOK
  PROVE  /\ told \in Payments(told.sum)
         /\ told.plain \in Int /\ told.elapsed \in Nat /\ told.first \in 0 .. MaxLevel
         /\ told.best \in 0 .. MaxLevel /\ told.success \in BOOLEAN
BY DEF TypeOK, Payments

LEMMA BestOK ==
  ASSUME TypeOK, NEW e, EnvOK(e)
  PROVE  Most(told.best, e.view.level) \in 0 .. MaxLevel
BY PaymentFields, EnvFields DEF Most

LEMMA SeenOK ==
  ASSUME TypeOK, NEW e, EnvOK(e), NEW c
  PROVE  LET t == Seen(e.view.level, c) IN
         /\ t \in Payments(t.sum) /\ t.plain = told.plain /\ t.elapsed = told.elapsed
         /\ t.success = told.success /\ t.first = told.first
         /\ t.best = Most(told.best, e.view.level)
<1> DEFINE best == Most(told.best, e.view.level)
           sum == [plain |-> told.sum.plain, shape |-> told.sum.shape,
                   due |-> told.sum.due + Weight(told.elapsed + Before(c))
                             * (Least(Cap, best - told.first) - Least(Cap, told.best - told.first))]
           t == Seen(e.view.level, c)
<1>1. t = [told EXCEPT !.best = best, !.sum = sum]
  BY DEF Seen
<1>2. best \in 0 .. MaxLevel
  BY BestOK
<1> HIDE DEF best, sum, t
<1>3. t \in Payments(sum) /\ t.sum = sum
  BY <1>1, <1>2, PaymentFields DEF Payments
<1>4. /\ t.plain = told.plain /\ t.elapsed = told.elapsed /\ t.success = told.success
      /\ t.first = told.first /\ t.best = best
  BY <1>1, PaymentFields DEF Payments
<1>5. QED  BY <1>3, <1>4 DEF t, best

LEMMA ToldOK ==
  ASSUME TypeOK, NEW e, EnvOK(e), NEW c, CallOK(c), NEW paid, paid.plain \in Int,
         NEW over \in States, NEW success \in BOOLEAN
  PROVE  LET m == Told(e, Gathered(c, paid), Seen(e.view.level, c), over, success) IN
         Typed(m) /\ EndsWith(m, e, c, paid.plain, over, success)
<1> DEFINE g == Gathered(c, paid)
           seen == Seen(e.view.level, c)
           m == Told(e, g, seen, over, success)
           lasted == IF g.op = "skill" THEN g.spent ELSE 1
           sum == [plain |-> seen.sum.plain + g.sum.plain \div 2 ^ seen.elapsed,
                   shape |-> seen.sum.shape + g.sum.shape \div 2 ^ seen.elapsed,
                   due |-> seen.sum.due]
           t == [seen EXCEPT !.plain = seen.plain + g.plain, !.sum = sum,
                             !.elapsed = seen.elapsed + lasted, !.success = success]
<1>1. m = [env |-> e, call |-> Idle, told |-> t, state |-> over]
  BY DEF Told, Moment
<1>s. /\ seen \in Payments(seen.sum) /\ seen.plain = told.plain /\ seen.elapsed = told.elapsed
      /\ seen.success = told.success /\ seen.first = told.first
      /\ seen.best = Most(told.best, e.view.level)
  BY SeenOK
<1>2. /\ CallOK(g) /\ g.op = c.op /\ g.spent = c.spent + 1
      /\ g.plain = Skilled(c, c.plain) + paid.plain
  BY GatheredOK
<1> HIDE DEF sum, m, g, seen
<1>3. g.plain \in Int /\ g.spent \in Nat /\ Skilled(c, c.plain) \in Int
  BY <1>2, CallFields DEF Skilled
<1>4. lasted \in Nat /\ lasted = IF c.op = "skill" THEN c.spent + 1 ELSE 1
  BY <1>2, <1>3
<1> HIDE DEF lasted
<1>5. /\ t \in Payments(sum) /\ t.sum = sum
      /\ t.plain = told.plain + g.plain /\ t.elapsed = told.elapsed + lasted
      /\ t.success = success /\ t.first = told.first /\ t.best = Most(told.best, e.view.level)
  <2>1. told.plain + g.plain \in Int /\ told.elapsed + lasted \in Nat
    BY <1>3, <1>4, PaymentFields
  <2>2. QED  BY <1>s, <2>1 DEF Payments
<1> HIDE DEF t
<1>6. m.env = e /\ m.call = Idle /\ m.told = t /\ m.state = over
  BY <1>1
<1>7. Typed(m)
  BY <1>5, <1>6, IdleOK DEF Typed
<1>8. t.plain = told.plain + Skilled(c, c.plain) + paid.plain
  BY <1>2, <1>3, <1>5, PaymentFields
<1>9. EndsWith(m, e, c, paid.plain, over, success)
  BY <1>4, <1>5, <1>6, <1>8 DEF EndsWith
<1>10. QED  BY <1>7, <1>9 DEF m, g, seen

LEMMA AnsweredOK ==
  ASSUME TypeOK, NEW e, EnvOK(e), NEW c, CallOK(c), NEW paid, paid.plain \in Int,
         NEW over \in States, NEW success \in BOOLEAN, NEW m \in Answered(e, c, paid, over, success)
  PROVE  /\ Typed(m)
         /\ \/ EndsWith(m, e, c, paid.plain, over, success)
            \/ over = "live" /\ c.op \in {"wait", "skill"} /\ Repeats(m, e, c, paid.plain)
<1> DEFINE g == Gathered(c, paid)
           seen == Seen(e.view.level, c)
<1>1. CASE m = Told(e, g, seen, over, success)
  BY <1>1, ToldOK
<1>2. CASE GoesOn(g, over) /\ m = Moment([e EXCEPT !.steps = @ + 1],
               [g EXCEPT !.at = "step", !.waits = IF @ > 0 THEN @ - 1 ELSE 0], seen, state)
  <2> DEFINE f == [e EXCEPT !.steps = e.steps + 1]
             w == IF g.waits > 0 THEN g.waits - 1 ELSE 0
             d == [g EXCEPT !.at = "step", !.waits = w]
  <2>1. m.env = f /\ m.call = d /\ m.told = seen /\ m.state = state
    BY <1>2 DEF Moment
  <2>2. /\ CallOK(g) /\ g.op = c.op /\ g.inside = c.inside /\ g.spent = c.spent + 1
        /\ g.plain = Skilled(c, c.plain) + paid.plain
    BY GatheredOK
  <2> HIDE DEF g
  <2>3. w \in 0 .. MaxWaits
    BY <2>2, CallFields, TaskFacts
  <2> HIDE DEF w
  <2>4. /\ CallOK(d) /\ d.op = g.op /\ d.at = "step" /\ d.inside = g.inside
        /\ d.spent = g.spent /\ d.plain = g.plain
    <3>1. g \in ClientCalls(g.sum)
      BY <2>2 DEF CallOK
    <3>2. d \in ClientCalls(g.sum) /\ d.sum = g.sum
      BY <3>1, <2>3 DEF ClientCalls, Places
    <3>3. QED  BY <3>1, <3>2 DEF CallOK, ClientCalls
  <2> HIDE DEF d
  <2>5. EnvOK(f)
    BY EnvFields DEF EnvOK, Environments
  <2>6. /\ seen \in Payments(seen.sum) /\ seen.plain = told.plain
        /\ seen.elapsed = told.elapsed /\ seen.success = told.success
        /\ seen.first = told.first /\ seen.best = Most(told.best, e.view.level)
    BY SeenOK
  <2> HIDE DEF seen
  <2>7. Typed(m)
    <3>1. state \in States
      BY DEF TypeOK
    <3>2. QED  BY <2>1, <2>4, <2>5, <2>6, <3>1 DEF Typed
  <2>8. Repeats(m, e, c, paid.plain)
    BY <2>1, <2>2, <2>4, <2>6 DEF Repeats
  <2>9. over = "live" /\ c.op \in {"wait", "skill"}
    BY <1>2, <2>2 DEF GoesOn, g
  <2>10. QED  BY <2>7, <2>8, <2>9
<1>3. QED  BY <1>1, <1>2 DEF Answered

(* The accountant: what a transition is paid, and what it leaves behind.   *)
LEMMA AccountedOK ==
  ASSUME TypeOK, NEW a \in Accounts, NEW value \in Nat,
         NEW succeeded \in BOOLEAN, NEW terminated \in BOOLEAN
  PROVE  LET pay == Accounted(a, task.kinds, value, succeeded, terminated) IN
         /\ pay.account \in Accounts /\ pay.plain \in Int
         /\ pay.plain = (IF succeeded THEN Sparse ELSE 0)
                      + (IF "high" \in task.kinds THEN pay.account.paid - a.paid ELSE 0)
                      - (IF "cost" \in task.kinds THEN 1 ELSE 0)
         /\ "high" \in task.kinds => pay.account.high = Most(a.high, value)
         /\ \A opening \in Nat :
              "high" \in task.kinds /\ opening <= a.high /\ a.paid = Least(Cap, a.high - opening) =>
                pay.account.paid = Least(Cap, Most(a.high, value) - opening)
<1> DEFINE high == "high" \in task.kinds
           gain == IF high THEN Gain(a, value) ELSE 0
           pay == Accounted(a, task.kinds, value, succeeded, terminated)
           b == [high |-> IF high THEN High(a, value) ELSE a.high, paid |-> a.paid + gain,
                 potential |-> IF "potential" \in task.kinds THEN value ELSE a.potential]
<1>1. /\ pay.account = b
      /\ pay.plain = (IF succeeded THEN Sparse ELSE 0) + gain
                      - (IF "cost" \in task.kinds THEN 1 ELSE 0)
  BY DEF Accounted
<1>2. a.high \in Nat /\ a.paid \in Nat /\ a.potential \in Nat /\ Cap \in Nat /\ Sparse \in Nat
  BY TaskFacts DEF Accounts
<1> HIDE DEF pay
<1>3. Gain(a, value) \in Nat
  BY <1>2 DEF Gain, Most, Least
<1>4. gain \in Nat
  BY <1>3
<1>5. b.paid = a.paid + gain /\ b.paid \in Nat /\ b.high \in Nat /\ b \in Accounts
      /\ (high => b.high = Most(a.high, value))
  <2>1. High(a, value) \in Nat /\ High(a, value) = Most(a.high, value)
    BY <1>2 DEF High, Most
  <2>2. QED  BY <1>2, <1>4, <2>1 DEF Accounts
<1>6. ASSUME NEW opening \in Nat, high, opening <= a.high, a.paid = Least(Cap, a.high - opening)
      PROVE  b.paid = Least(Cap, Most(a.high, value) - opening)
  <2>1. b.paid = a.paid + Gain(a, value)
    BY <1>5, <1>6
  <2>2. CASE value <= a.high
    <3>1. Most(a.high, value) = a.high /\ Most(0, value - a.high) = 0
      BY <1>2, <2>2 DEF Most
    <3>2. Cap - a.paid >= 0
      BY <1>2, <1>6 DEF Least
    <3>3. Gain(a, value) = 0
      BY <1>2, <3>1, <3>2 DEF Gain, Most, Least
    <3>4. QED  BY <1>2, <1>6, <2>1, <3>1, <3>3
  <2>3. CASE value > a.high
    <3>1. Most(a.high, value) = value /\ Most(0, value - a.high) = value - a.high
      BY <1>2, <2>3 DEF Most
    <3>2. CASE Cap < a.high - opening
      <4>1. a.paid = Cap
        BY <1>6, <3>2 DEF Least
      <4>2. Gain(a, value) = 0
        BY <1>2, <2>3, <3>1, <4>1 DEF Gain, Most, Least
      <4>3. Least(Cap, value - opening) = Cap
        BY <1>2, <2>3, <3>2 DEF Least
      <4>4. QED  BY <1>2, <2>1, <3>1, <4>1, <4>2, <4>3
    <3>3. CASE ~ (Cap < a.high - opening)
      <4>1. a.paid = a.high - opening /\ Cap - a.paid >= 0
        BY <1>2, <1>6, <3>3 DEF Least
      <4>2. Gain(a, value) = Least(value - a.high, Cap - a.paid)
        BY <1>2, <2>3, <3>1, <4>1 DEF Gain, Most, Least
      <4>3. a.paid + Least(value - a.high, Cap - a.paid) = Least(Cap, value - opening)
        BY <1>2, <2>3, <4>1 DEF Least
      <4>4. QED  BY <2>1, <3>1, <4>2, <4>3
    <3>4. QED  BY <3>2, <3>3
  <2>4. QED  BY <1>2, <2>2, <2>3
<1> HIDE DEF b, gain
<1>7. pay.plain \in Int
  BY <1>1, <1>2, <1>4
<1>8. pay.plain = (IF succeeded THEN Sparse ELSE 0) + (IF high THEN b.paid - a.paid ELSE 0)
                      - (IF "cost" \in task.kinds THEN 1 ELSE 0)
  <2>1. gain = IF high THEN b.paid - a.paid ELSE 0
    <3>1. ~ high => gain = 0
      BY DEF gain
    <3>2. QED  BY <1>2, <1>4, <1>5, <3>1
  <2>2. QED  BY <1>1, <2>1
<1>9. QED  BY <1>1, <1>5, <1>6, <1>7, <1>8 DEF pay

Paying(e, terminated) ==
  Accounted(e.account, task.kinds, e.view.level, Succeeded(e), terminated)

(* The environment after a payment.                                        *)
Credited(f, e, pay) ==
  /\ EnvOK(f) /\ f.view = e.view /\ f.steps = e.steps /\ f.applied = e.applied
  /\ f.log = e.log /\ f.window = e.window /\ f.account = pay.account

LEMMA CreditedOK ==
  ASSUME TypeOK, NEW e, EnvOK(e), NEW terminated \in BOOLEAN
  PROVE  /\ Credited([e EXCEPT !.account = Paying(e, terminated).account], e, Paying(e, terminated))
         /\ Paying(e, terminated).plain \in Int /\ Succeeded(e) \in BOOLEAN
<1>1. Succeeded(e) \in BOOLEAN
  BY DEF Succeeded
<1>2. Paying(e, terminated).account \in Accounts /\ Paying(e, terminated).plain \in Int
  <2>1. e.account \in Accounts /\ e.view.level \in Nat
    BY EnvFields
  <2>2. QED  BY <1>1, <2>1, AccountedOK DEF Paying
<1>3. QED  BY <1>1, <1>2 DEF Credited, EnvOK, Environments

(* The window begins: see WindowOpened.                                    *)
Begun(d, e, c) ==
  /\ CallOK(d) /\ d.op = c.op /\ d.at = "step" /\ d.inside /\ d.left = task.verify
  /\ d.start = e.view.tick /\ d.plain = c.plain /\ d.spent = c.spent

LEMMA WindowOpenedOK ==
  ASSUME TypeOK, NEW e, EnvOK(e), NEW c, CallOK(c)
  PROVE  Begun(WindowOpened(e, c), e, c)
<1> DEFINE d == WindowOpened(e, c)
<1>1. d = [c EXCEPT !.inside = TRUE, !.left = task.verify, !.mark = e.view.made,
                    !.start = e.view.tick, !.at = "step"]
  BY DEF WindowOpened
<1>2. task.verify \in 0 .. task.verify /\ e.view.made \in Nat /\ e.view.tick \in Nat
  BY TaskFacts, EnvFields
<1>3. c \in ClientCalls(c.sum)
  BY DEF CallOK
<1> HIDE DEF d
<1>4. d \in ClientCalls(c.sum) /\ d.sum = c.sum
  BY <1>1, <1>2, <1>3 DEF ClientCalls, Places
<1>5. /\ d.op = c.op /\ d.at = "step" /\ d.inside /\ d.left = task.verify
      /\ d.start = e.view.tick /\ d.plain = c.plain /\ d.spent = c.spent
  BY <1>1, <1>3 DEF ClientCalls
<1>6. QED  BY <1>4, <1>5 DEF Begun, CallOK, d

(* The four ways a step that was scored goes on: see Scored.               *)
OutWithWindow(e) ==
  ~ Succeeded(e) /\ OutOfBudget(e) /\ task.verify > 0 /\ ~ e.window.ran

Opens(m, e, c) ==
  /\ OutWithWindow(e) /\ Credited(m.env, e, Paying(e, FALSE))
  /\ m.told = told /\ m.state = state
  /\ CallOK(m.call) /\ m.call.op = c.op /\ m.call.at = "step" /\ m.call.inside
  /\ m.call.left = task.verify /\ m.call.start = e.view.tick
  /\ m.call.plain = Paying(e, FALSE).plain

Verdict(e, over) ==
  /\ ~ OutWithWindow(e)
  /\ over = CASE Succeeded(e) -> "terminated"
              [] ~ Succeeded(e) /\ OutOfBudget(e) -> "truncated" [] OTHER -> "live"

Scores(m, e, c) ==
  \E f, over :
    /\ Credited(f, e, Paying(e, Succeeded(e))) /\ Verdict(e, over)
    /\ \/ EndsWith(m, f, c, Paying(e, Succeeded(e)).plain, over, Succeeded(e))
       \/ over = "live" /\ c.op \in {"wait", "skill"} /\ Repeats(m, f, c, Paying(e, Succeeded(e)).plain)

LEMMA ScoredOK ==
  ASSUME TypeOK, NEW e, EnvOK(e), NEW c, CallOK(c), NEW m \in Scored(e, c)
  PROVE  Typed(m) /\ (Opens(m, e, c) \/ Scores(m, e, c))
<1> DEFINE pay  == Paying(e, Succeeded(e))
           f    == [e EXCEPT !.account = pay.account]
           out  == ~ Succeeded(e) /\ OutOfBudget(e)
           over == CASE Succeeded(e) -> "terminated" [] out -> "truncated" [] OTHER -> "live"
           d    == [c EXCEPT !.plain = pay.plain]
<1>1. /\ Credited(f, e, pay) /\ pay.plain \in Int /\ Succeeded(e) \in BOOLEAN
      /\ EnvOK(f) /\ f.view = e.view
  <2>1. Succeeded(e) \in BOOLEAN
    BY DEF Succeeded
  <2>2. Credited(f, e, pay) /\ pay.plain \in Int
    BY <2>1, CreditedOK
  <2>3. QED  BY <2>1, <2>2 DEF Credited
<1>2. IF OutWithWindow(e)
      THEN m = Moment(f, WindowOpened(f, d), told, state)
      ELSE m \in Answered(f, c, pay, over, Succeeded(e))
  BY DEF Scored, Paying, OutWithWindow
<1>3. CASE OutWithWindow(e)
  <2>1. Succeeded(e) = FALSE
    BY <1>1, <1>3 DEF OutWithWindow
  <2>2. pay = Paying(e, FALSE)
    BY <2>1
  <2> HIDE DEF pay, f
  <2>3. CallOK(d) /\ d.op = c.op /\ d.plain = pay.plain
    <3>1. c \in ClientCalls(c.sum)
      BY DEF CallOK
    <3>2. d \in ClientCalls(c.sum) /\ d.sum = c.sum /\ d.op = c.op /\ d.plain = pay.plain
      BY <1>1, <3>1 DEF ClientCalls
    <3>3. QED  BY <3>2 DEF CallOK
  <2> HIDE DEF d
  <2>4. Begun(WindowOpened(f, d), f, d)
    BY <1>1, <2>3, WindowOpenedOK
  <2>5. m.env = f /\ m.call = WindowOpened(f, d) /\ m.told = told /\ m.state = state
    BY <1>2, <1>3 DEF Moment
  <2>6. Typed(m)
    <3>1. CallOK(m.call)
      BY <2>4, <2>5 DEF Begun
    <3>2. told \in Payments(told.sum) /\ state \in States
      BY DEF TypeOK
    <3>3. QED  BY <1>1, <2>5, <3>1, <3>2 DEF Typed
  <2>7. /\ CallOK(m.call) /\ m.call.op = c.op /\ m.call.at = "step" /\ m.call.inside
        /\ m.call.left = task.verify /\ m.call.start = e.view.tick /\ m.call.plain = pay.plain
    BY <1>1, <2>3, <2>4, <2>5 DEF Begun
  <2>8. Opens(m, e, c)
    BY <1>1, <1>3, <2>2, <2>5, <2>7 DEF Opens
  <2>9. QED  BY <2>6, <2>8
<1>4. CASE ~ OutWithWindow(e)
  <2>1. over \in States
    BY DEF States
  <2>2. Verdict(e, over)
    BY <1>4 DEF Verdict
  <2> HIDE DEF pay, f, over
  <2>3. m \in Answered(f, c, pay, over, Succeeded(e))
    BY <1>2, <1>4
  <2>4. /\ Typed(m)
        /\ \/ EndsWith(m, f, c, pay.plain, over, Succeeded(e))
           \/ over = "live" /\ c.op \in {"wait", "skill"} /\ Repeats(m, f, c, pay.plain)
    BY <1>1, <2>1, <2>3, AnsweredOK
  <2>5. Scores(m, e, c)
    BY <1>1, <2>2, <2>4 DEF Scores, pay
  <2>6. QED  BY <2>4, <2>5
<1>5. QED  BY <1>3, <1>4

(* The window is measured: see Measured.                                   *)
Measures(m, e, c) ==
  \E f : \E output \in Nat :
    /\ EnvOK(f) /\ f.view = e.view /\ f.steps = e.steps /\ f.applied = e.applied
    /\ f.log = e.log /\ f.account = e.account
    /\ f.window.ran /\ f.window.start = c.start /\ f.window.end = e.view.tick
    /\ f.window.output = output
    /\ EndsWith(m, f, c, c.plain + Least(output, task.target), "terminated", output >= task.target)

LEMMA MeasuredOK ==
  ASSUME TypeOK, NEW e, EnvOK(e), NEW c, CallOK(c), NEW m \in Measured(e, c)
  PROVE  Typed(m) /\ Measures(m, e, c)
<1> DEFINE output == Most(0, e.view.made - c.mark)
           noted == [ran |-> TRUE, start |-> c.start, end |-> e.view.tick, output |-> output]
           f      == [e EXCEPT !.window = noted]
           paid   == [plain |-> c.plain + Least(output, task.target), shape |-> 0]
<1>1. m \in Answered(f, c, paid, "terminated", output >= task.target)
  BY DEF Measured
<1>2. output \in Nat
  BY EnvFields, CallFields DEF Most
<1> HIDE DEF output
<1>3. c.plain + Least(output, task.target) \in Int /\ (output >= task.target) \in BOOLEAN
  BY <1>2, CallFields, TaskFacts DEF Least
<1>4. noted \in [ran : BOOLEAN, start : Nat, end : Nat, output : Nat]
  BY <1>2, EnvFields, CallFields
<1>5. /\ EnvOK(f) /\ f.view = e.view /\ f.steps = e.steps /\ f.applied = e.applied
      /\ f.log = e.log /\ f.account = e.account /\ f.window = noted
  BY <1>4 DEF EnvOK, Environments
<1> HIDE DEF f
<1>6. paid.plain = c.plain + Least(output, task.target) /\ "terminated" \in States
  BY DEF States
<1> HIDE DEF paid
<1>7. Typed(m) /\ EndsWith(m, f, c, paid.plain, "terminated", output >= task.target)
  BY <1>1, <1>3, <1>5, <1>6, AnsweredOK
<1>8. /\ f.window.ran /\ f.window.start = c.start /\ f.window.end = e.view.tick
      /\ f.window.output = output
  BY <1>5
<1>9. EndsWith(m, f, c, c.plain + Least(output, task.target), "terminated", output >= task.target)
  BY <1>6, <1>7
<1> HIDE DEF noted
<1>10. Measures(m, e, c)
  BY <1>2, <1>5, <1>8, <1>9 DEF Measures
<1>11. QED  BY <1>7, <1>10

(* What becomes of an adopted step.                                        *)
Asks(m, e, c) ==
  \E i \in Due(e) :
    /\ EnvOK(m.env) /\ m.env.view = e.view /\ m.env.steps = e.steps
    /\ m.env.applied = e.applied \cup {i} /\ m.env.log = e.log
    /\ m.env.window = e.window /\ m.env.account = e.account
    /\ CallOK(m.call) /\ m.call.op = c.op /\ m.call.at = "disrupt" /\ m.call.which = i
    /\ m.call.inside = c.inside /\ m.call.left = c.left /\ m.call.start = c.start
    /\ m.call.spent = c.spent /\ m.call.plain = c.plain
    /\ m.told = told /\ m.state = state

Remaining(c) == c.left - Least(DecisionTicks, c.left)

Shortened(d, c) ==
  /\ CallOK(d) /\ d.op = c.op /\ d.inside = c.inside /\ d.left = Remaining(c)
  /\ d.start = c.start /\ d.spent = c.spent /\ d.plain = c.plain

ChunkOver(m, e, c) ==
  /\ c.inside
  /\ \/ Shortened(m.call, c) /\ m.call.at = "step" /\ m.env = e /\ m.told = told /\ m.state = state
     \/ Remaining(c) = 0 /\ \E d : Shortened(d, c) /\ Measures(m, e, d)

LEMMA RemainingOK ==
  ASSUME TypeOK, NEW c, CallOK(c)
  PROVE  Remaining(c) \in 0 .. task.verify /\ Least(DecisionTicks, c.left) \in Nat
BY CallFields, TaskFacts DEF Remaining, Least

LEMMA ShortenedOK ==
  ASSUME TypeOK, NEW c, CallOK(c), NEW at \in Places
  PROVE  LET d == [c EXCEPT !.left = Remaining(c), !.at = at] IN Shortened(d, c) /\ d.at = at
<1> DEFINE d == [c EXCEPT !.left = Remaining(c), !.at = at]
<1>1. c \in ClientCalls(c.sum) /\ Remaining(c) \in 0 .. task.verify
  BY RemainingOK DEF CallOK
<1>2. d \in ClientCalls(c.sum) /\ d.sum = c.sum
  BY <1>1 DEF ClientCalls
<1>3. /\ d.op = c.op /\ d.inside = c.inside /\ d.left = Remaining(c)
      /\ d.start = c.start /\ d.spent = c.spent /\ d.plain = c.plain /\ d.at = at
  BY <1>1 DEF ClientCalls
<1>4. QED  BY <1>2, <1>3 DEF Shortened, CallOK

LEMMA ChunkDoneOK ==
  ASSUME TypeOK, NEW e, EnvOK(e), NEW c, CallOK(c), c.inside, NEW m \in ChunkDone(e, c)
  PROVE  Typed(m) /\ ChunkOver(m, e, c)
<1>1. IF Remaining(c) > 0
      THEN m = Moment(e, [c EXCEPT !.left = Remaining(c), !.at = "step"], told, state)
      ELSE m \in Measured(e, [c EXCEPT !.left = 0])
  BY DEF ChunkDone, Remaining
<1>2. Remaining(c) \in Nat /\ c \in ClientCalls(c.sum)
  BY RemainingOK, TaskFacts DEF CallOK
<1>3. CASE Remaining(c) > 0
  <2> DEFINE d == [c EXCEPT !.left = Remaining(c), !.at = "step"]
  <2>1. Shortened(d, c) /\ d.at = "step"
    BY ShortenedOK DEF Places
  <2> HIDE DEF d
  <2>2. m.env = e /\ m.call = d /\ m.told = told /\ m.state = state
    BY <1>1, <1>3 DEF Moment, d
  <2>3. Typed(m)
    BY <2>1, <2>2 DEF Typed, TypeOK, Shortened
  <2>4. QED  BY <2>1, <2>2, <2>3 DEF ChunkOver
<1>4. CASE ~ (Remaining(c) > 0)
  <2> DEFINE d == [c EXCEPT !.left = 0]
  <2>1. Remaining(c) = 0
    BY <1>2, <1>4
  <2>2. d \in ClientCalls(c.sum) /\ d.sum = c.sum
    BY <1>2, TaskFacts DEF ClientCalls
  <2>3. /\ d.op = c.op /\ d.inside = c.inside /\ d.left = 0
        /\ d.start = c.start /\ d.spent = c.spent /\ d.plain = c.plain
    BY <1>2 DEF ClientCalls
  <2>4. m \in Measured(e, d)
    BY <1>1, <1>4
  <2> HIDE DEF d
  <2>5. CallOK(d)
    BY <2>2 DEF CallOK
  <2>6. Shortened(d, c)
    BY <2>1, <2>3, <2>5 DEF Shortened
  <2>7. Typed(m) /\ Measures(m, e, d)
    BY <2>4, <2>5, MeasuredOK
  <2>8. QED  BY <2>1, <2>6, <2>7 DEF ChunkOver
<1>5. QED  BY <1>3, <1>4

LEMMA AdoptedOK ==
  ASSUME TypeOK, NEW e, EnvOK(e), NEW c, CallOK(c), NEW m \in Adopted(e, c)
  PROVE  /\ Typed(m)
         /\ \/ Asks(m, e, c)
            \/ Due(e) = {} /\ ChunkOver(m, e, c)
            \/ Due(e) = {} /\ ~ c.inside /\ (Opens(m, e, c) \/ Scores(m, e, c))
<1>1. CASE Due(e) # {}
  <2> DEFINE i == Min(Due(e))
             f == [e EXCEPT !.applied = e.applied \cup {i}]
             d == [c EXCEPT !.at = "disrupt", !.which = i]
  <2>1. m = Moment(f, d, told, state)
    BY <1>1 DEF Adopted
  <2>2. Due(e) \subseteq Disruptions /\ Due(e) \in SUBSET Nat
    BY TaskFacts DEF Due
  <2>3. i \in Due(e)
    BY <1>1, <2>2, SmallestIsIn
  <2> HIDE DEF i
  <2>4. i \in Nat /\ i \in Disruptions
    BY <2>2, <2>3
  <2>5. /\ EnvOK(f) /\ f.view = e.view /\ f.steps = e.steps /\ f.applied = e.applied \cup {i}
        /\ f.log = e.log /\ f.window = e.window /\ f.account = e.account
    BY <2>4 DEF EnvOK, Environments
  <2>6. c \in ClientCalls(c.sum)
    BY DEF CallOK
  <2>7. d \in ClientCalls(c.sum) /\ d.sum = c.sum
    BY <2>4, <2>6 DEF ClientCalls, Places
  <2>8. /\ d.op = c.op /\ d.at = "disrupt" /\ d.which = i /\ d.inside = c.inside
        /\ d.left = c.left /\ d.start = c.start /\ d.spent = c.spent /\ d.plain = c.plain
    BY <2>6 DEF ClientCalls
  <2>9. m.env = f /\ m.call = d /\ m.told = told /\ m.state = state
    BY <2>1 DEF Moment
  <2> HIDE DEF f, d
  <2>10. CallOK(d)
    BY <2>7 DEF CallOK
  <2>11. Typed(m)
    BY <2>5, <2>9, <2>10 DEF Typed, TypeOK
  <2>12. Asks(m, e, c)
    BY <2>3, <2>5, <2>8, <2>9, <2>10 DEF Asks
  <2>13. QED  BY <2>11, <2>12
<1>2. CASE Due(e) = {} /\ c.inside
  <2>1. m \in ChunkDone(e, c)
    BY <1>2 DEF Adopted
  <2>2. QED  BY <1>2, <2>1, ChunkDoneOK
<1>3. CASE Due(e) = {} /\ ~ c.inside
  <2>1. m \in Scored(e, c)
    BY <1>3 DEF Adopted
  <2>2. QED  BY <1>3, <2>1, ScoredOK
<1>4. QED  BY <1>1, <1>2, <1>3, CallFields

-----------------------------------------------------------------------------
(* A step that is being adopted: the view is the world and the record      *)
(* tells of every disruption, but some may be due.                         *)
Adoptable(w, e, c, f) ==
  /\ e.view = w /\ state = "live" /\ e.steps <= task.steps
  /\ \A i \in Disruptions : /\ e.log[i] = "applied" <=> i \in w.down
                            /\ e.log[i] = "none" <=> i \notin e.applied
  /\ ~ c.inside => e.view.tick < Limit + DecisionTicks
  /\ task.verify > 0 =>
       /\ ~ e.window.ran /\ told.plain = 0 /\ c.plain = 0
       /\ c.inside => /\ c.start < Limit + DecisionTicks
                      /\ Spans(e.view.tick - c.start + Remaining(c), f)
  /\ Balanced(e, c, told, "live")

(* What may be asked of a call under way.                                  *)
UnderWay(c) ==
  /\ c.op \in {"act", "skill", "wait", "finish", "bridge"}
  /\ c.op = "wait" => "wait" \in task.calls
  /\ c.inside => task.verify > 0

(* The record of an environment whose step asks for no disruption.         *)
LEMMA QuietStands ==
  ASSUME NEW w, NEW e, NEW c, NEW f, Adoptable(w, e, c, f), Due(e) = {},
         NEW g, g.view = e.view, g.log = e.log, g.applied = e.applied,
         NEW d, d.at \notin {"disrupt", "reobserve"}
  PROVE  Cached(w, g, d) /\ Noted(w, g, d) /\ Punctual(g, d)
<1>1. g.view = w
  BY DEF Adoptable
<1>2. Cached(w, g, d)
  BY <1>1 DEF Cached
<1>3. Noted(w, g, d)
  BY DEF Adoptable, Noted
<1>4. \A i \in Disruptions : task.disruptAt[i] <= g.view.tick => i \in g.applied
  BY DEF Due
<1>5. QED  BY <1>2, <1>3, <1>4 DEF Punctual

LEMMA AsksStands ==
  ASSUME TypeOK, NEW w, NEW e, EnvOK(e), NEW c, CallOK(c), NEW f, Adoptable(w, e, c, f),
         UnderWay(c), NEW m, Asks(m, e, c)
  PROVE  /\ Standing(w, m.env, m.call, m.told, m.state, f) /\ m.env.steps <= task.steps
<1>1. PICK i \in Due(e) :
    /\ EnvOK(m.env) /\ m.env.view = e.view /\ m.env.steps = e.steps
    /\ m.env.applied = e.applied \cup {i} /\ m.env.log = e.log
    /\ m.env.window = e.window /\ m.env.account = e.account
    /\ CallOK(m.call) /\ m.call.op = c.op /\ m.call.at = "disrupt" /\ m.call.which = i
    /\ m.call.inside = c.inside /\ m.call.left = c.left /\ m.call.start = c.start
    /\ m.call.spent = c.spent /\ m.call.plain = c.plain
    /\ m.told = told /\ m.state = state
  BY DEF Asks
<1>2. i \in Disruptions /\ i \notin e.applied
  BY DEF Due
<1>3. m.env.view = w /\ m.env.log = e.log /\ m.state = "live" /\ m.call # Idle
  <2>1. m.call.at # Idle.at
    BY <1>1, IdleOK
  <2>2. QED  BY <1>1, <2>1 DEF Adoptable
<1>4. Cached(w, m.env, m.call)
  BY <1>3 DEF Cached
<1>5. Noted(w, m.env, m.call)
  <2>1. \A j \in Disruptions : /\ e.log[j] = "applied" <=> j \in w.down
                               /\ e.log[j] = "none" <=> j \notin e.applied
    BY DEF Adoptable
  <2>2. \A j \in Disruptions :
           e.log[j] = "none" <=> j \notin m.env.applied \/ (m.call.at = "disrupt" /\ m.call.which = j)
    BY <1>1, <1>2, <2>1
  <2>3. m.call.which \in m.env.applied
    BY <1>1
  <2>4. QED  BY <1>1, <2>1, <2>2, <2>3 DEF Noted
<1>6. Punctual(m.env, m.call)
  BY <1>1 DEF Punctual
<1>7. Budgeted(m.env, m.call, m.state)
  BY <1>1, <1>3 DEF Budgeted, Adoptable
<1>8. Windowed(m.env, m.call, m.told, m.state, f)
  <2>1. SUFFICES ASSUME task.verify > 0
                 PROVE  /\ ~ m.env.window.ran /\ m.told.plain = 0 /\ m.call.plain = 0
                        /\ m.call.inside => /\ m.call.start < Limit + DecisionTicks
                                            /\ Spans(Lasted(m.env, m.call), f)
    BY <1>3 DEF Windowed
  <2>2. ~ m.env.window.ran /\ m.told.plain = 0 /\ m.call.plain = 0
    BY <1>1, <2>1 DEF Adoptable
  <2>3. ASSUME m.call.inside
        PROVE  m.call.start < Limit + DecisionTicks /\ Spans(Lasted(m.env, m.call), f)
    <3>1. c.start < Limit + DecisionTicks /\ Spans(e.view.tick - c.start + Remaining(c), f)
      BY <1>1, <2>1, <2>3 DEF Adoptable
    <3>2. Lasted(m.env, m.call) = e.view.tick - c.start + c.left - Least(DecisionTicks, c.left)
      BY <1>1 DEF Lasted
    <3>3. Lasted(m.env, m.call) = e.view.tick - c.start + Remaining(c)
      BY <3>2, EnvFields, CallFields, RemainingOK, TaskFacts DEF Remaining
    <3>4. QED  BY <1>1, <3>1, <3>3
  <2>4. QED  BY <2>2, <2>3
<1>9. Balanced(m.env, m.call, m.told, m.state)
  <2>1. Balanced(e, c, told, "live")
    BY DEF Adoptable
  <2>2. Skilled(m.call, m.call.plain) = Skilled(c, c.plain)
        /\ Skilled(m.call, m.call.spent) = Skilled(c, c.spent)
    BY <1>1 DEF Skilled
  <2>3. m.state = "live" /\ m.told = told /\ m.env.account = e.account
    BY <1>1, <1>3
  <2>4. QED  BY <2>1, <2>2, <2>3 DEF Balanced
<1>10. m.env.steps <= task.steps
  BY <1>1 DEF Adoptable
<1>11. QED  BY <1>4, <1>5, <1>6, <1>7, <1>8, <1>9, <1>10 DEF Standing

LEMMA ChunkStands ==
  ASSUME TypeOK, NEW w, NEW e, EnvOK(e), NEW c, CallOK(c), NEW f, Adoptable(w, e, c, f),
         UnderWay(c), Due(e) = {}, NEW m, Typed(m), ChunkOver(m, e, c)
  PROVE  /\ Standing(w, m.env, m.call, m.told, m.state, f) /\ m.env.steps <= task.steps
<1>1. /\ task.verify > 0 /\ state = "live" /\ ~ e.window.ran /\ told.plain = 0 /\ c.plain = 0
      /\ c.start < Limit + DecisionTicks /\ Spans(e.view.tick - c.start + Remaining(c), f)
      /\ e.steps <= task.steps
  BY DEF ChunkOver, UnderWay, Adoptable
<1>2. Remaining(c) \in Nat /\ e.view.tick \in Nat /\ c.start \in Nat
  BY EnvFields, CallFields, RemainingOK, TaskFacts
<1>3. Balanced(m.env, m.call, m.told, m.state)
  BY <1>1, TaskFacts DEF Balanced
<1>4. CASE Shortened(m.call, c) /\ m.call.at = "step" /\ m.env = e /\ m.told = told /\ m.state = state
  <2>1. Cached(w, m.env, m.call) /\ Noted(w, m.env, m.call) /\ Punctual(m.env, m.call)
    BY <1>4, QuietStands
  <2>2. /\ m.call.op = c.op /\ m.call.inside /\ m.call.left = Remaining(c)
        /\ m.call.start = c.start /\ m.call.plain = c.plain
    BY <1>4 DEF Shortened, ChunkOver
  <2>3. m.call # Idle
    BY <2>2, IdleOK
  <2>4. Budgeted(m.env, m.call, m.state)
    BY <2>2, <2>3 DEF Budgeted
  <2>5. Lasted(m.env, m.call) = e.view.tick - c.start + Remaining(c)
    <3>1. Lasted(m.env, m.call) = e.view.tick - c.start + Remaining(c) - 0
      BY <1>4, <2>2 DEF Lasted
    <3>2. QED  BY <1>2, <3>1
  <2>6. Windowed(m.env, m.call, m.told, m.state, f)
    BY <1>1, <1>4, <2>2, <2>5 DEF Windowed
  <2>7. QED  BY <1>1, <1>3, <1>4, <2>1, <2>4, <2>6 DEF Standing
<1>5. CASE Remaining(c) = 0 /\ \E d : Shortened(d, c) /\ Measures(m, e, d)
  <2>1. PICK d : Shortened(d, c) /\ Measures(m, e, d)
    BY <1>5
  <2>0. PICK g : \E output \in Nat :
      /\ EnvOK(g) /\ g.view = e.view /\ g.steps = e.steps /\ g.applied = e.applied
      /\ g.log = e.log /\ g.account = e.account
      /\ g.window.ran /\ g.window.start = d.start /\ g.window.end = e.view.tick
      /\ g.window.output = output
      /\ EndsWith(m, g, d, d.plain + Least(output, task.target), "terminated", output >= task.target)
    BY <2>1 DEF Measures
  <2>2. PICK output \in Nat :
      /\ EnvOK(g) /\ g.view = e.view /\ g.steps = e.steps /\ g.applied = e.applied
      /\ g.log = e.log /\ g.account = e.account
      /\ g.window.ran /\ g.window.start = d.start /\ g.window.end = e.view.tick
      /\ g.window.output = output
      /\ EndsWith(m, g, d, d.plain + Least(output, task.target), "terminated", output >= task.target)
    BY <2>0
  <2>3. d.start = c.start /\ d.plain = 0
    BY <1>1, <2>1 DEF Shortened
  <2>4. /\ m.env = g /\ m.call = Idle /\ m.state = "terminated"
        /\ m.told.plain = told.plain + Skilled(d, d.plain) + (d.plain + Least(output, task.target))
        /\ m.told.success = (output >= task.target)
    BY <2>2 DEF EndsWith
  <2>5. m.told.plain = Least(output, task.target)
    <3>1. Skilled(d, d.plain) = 0
      BY <2>3 DEF Skilled
    <3>2. Least(output, task.target) \in Int
      BY TaskFacts DEF Least
    <3>3. QED  BY <1>1, <2>3, <2>4, <3>1, <3>2
  <2>6. Cached(w, g, Idle) /\ Noted(w, g, Idle) /\ Punctual(g, Idle)
    BY <2>2, IdleOK, QuietStands
  <2>7. Spans(g.window.end - g.window.start, f) /\ g.window.end < task.ticks + DecisionTicks
    <3>1. g.window.end - g.window.start = e.view.tick - c.start + Remaining(c)
      BY <1>2, <1>5, <2>2, <2>3
    <3>2. e.view.tick - c.start <= task.verify
      BY <1>1, <1>2, <1>5, TaskFacts DEF Spans
    <3>3. e.view.tick < task.ticks + DecisionTicks
      BY <1>1, <1>2, <3>2, TaskFacts
    <3>4. QED  BY <1>1, <2>2, <3>1, <3>3
  <2>8. Windowed(g, Idle, m.told, "terminated", f)
    BY <2>2, <2>4, <2>5, <2>7 DEF Windowed
  <2>9. Budgeted(g, Idle, "terminated") /\ g.steps <= task.steps
    BY <1>1, <2>2 DEF Budgeted
  <2>10. QED  BY <1>3, <2>4, <2>6, <2>8, <2>9 DEF Standing
<1>6. QED  BY <1>4, <1>5 DEF ChunkOver

LEMMA InBudget ==
  ASSUME TypeOK, NEW e, EnvOK(e)
  PROVE  ~ OutOfBudget(e) <=> e.steps < task.steps /\ e.view.tick < Limit
BY EnvFields, TaskFacts DEF OutOfBudget, Limit

(* A task with a window is paid nothing before it, and succeeds by it.     *)
LEMMA NothingBefore ==
  ASSUME TypeOK, NEW e, EnvOK(e), task.verify > 0, NEW terminated \in BOOLEAN
  PROVE  ~ Succeeded(e) /\ Paying(e, terminated).plain = 0
<1>1. task.kinds = {} /\ task.goal = 0
  BY TaskFacts
<1>2. ~ Succeeded(e)
  BY <1>1 DEF Succeeded
<1>3. QED  BY <1>1, <1>2 DEF Paying, Accounted

LEMMA OpensStands ==
  ASSUME TypeOK, NEW w, NEW e, EnvOK(e), NEW c, CallOK(c), NEW f, Adoptable(w, e, c, f),
         UnderWay(c), Due(e) = {}, ~ c.inside, NEW m, Opens(m, e, c)
  PROVE  /\ Standing(w, m.env, m.call, m.told, m.state, f) /\ m.env.steps <= task.steps
<1>1. /\ task.verify > 0 /\ state = "live" /\ ~ e.window.ran /\ told.plain = 0
      /\ e.view.tick < Limit + DecisionTicks /\ e.steps <= task.steps
  BY DEF Opens, OutWithWindow, Adoptable
<1>2. /\ m.env.view = e.view /\ m.env.steps = e.steps /\ m.env.applied = e.applied
      /\ m.env.log = e.log /\ m.env.window = e.window
  BY DEF Opens, Credited
<1>3. /\ m.told = told /\ m.state = "live" /\ m.call.op = c.op /\ m.call.at = "step"
      /\ m.call.inside /\ m.call.left = task.verify /\ m.call.start = e.view.tick
      /\ m.call.plain = 0
  <2>1. Paying(e, FALSE).plain = 0
    BY <1>1, NothingBefore
  <2>2. QED  BY <1>1, <2>1 DEF Opens
<1>4. Cached(w, m.env, m.call) /\ Noted(w, m.env, m.call) /\ Punctual(m.env, m.call)
  BY <1>2, <1>3, QuietStands
<1>5. m.call # Idle
  BY <1>3, IdleOK
<1>6. Budgeted(m.env, m.call, m.state)
  BY <1>3, <1>5 DEF Budgeted
<1>7. Lasted(m.env, m.call) = task.verify
  <2>1. Lasted(m.env, m.call) = e.view.tick - e.view.tick + task.verify - 0
    BY <1>2, <1>3 DEF Lasted
  <2>2. QED  BY <2>1, EnvFields, TaskFacts
<1>8. Spans(Lasted(m.env, m.call), f)
  BY <1>7, TaskFacts DEF Spans
<1>9. Windowed(m.env, m.call, m.told, m.state, f)
  BY <1>1, <1>2, <1>3, <1>8 DEF Windowed
<1>10. Balanced(m.env, m.call, m.told, m.state)
  BY <1>1, TaskFacts DEF Balanced
<1>11. QED  BY <1>1, <1>2, <1>4, <1>6, <1>9, <1>10 DEF Standing

(* What is gathered and told balances with what the accounts say, when one *)
(* more primitive has been paid.                                           *)
Cost(n) == IF "cost" \in task.kinds THEN n ELSE 0
HighOf(a) == IF "high" \in task.kinds THEN a.paid ELSE 0
PathHolds == task.verify = 0 /\ ("wait" \in task.calls => "high" \notin task.kinds)

LEMMA BalancedIs ==
  ASSUME NEW e, NEW c, NEW t, NEW s
  PROVE  Balanced(e, c, t, s) <=>
           (PathHolds =>
             /\ t.plain + Skilled(c, c.plain) =
                  (IF t.success THEN Sparse ELSE 0) + HighOf(e.account)
                    - Cost(t.elapsed + Skilled(c, c.spent))
             /\ "high" \in task.kinds =>
                  /\ e.account.high = t.best /\ t.first <= t.best
                  /\ e.account.paid = Least(Cap, t.best - t.first)
             /\ s = "live" => ~ t.success)
BY DEF Balanced, PathHolds, HighOf, Cost

(* The payment of a primitive against the accounts.                        *)
LEMMA PaymentBalances ==
  ASSUME TypeOK, NEW e, EnvOK(e), NEW c, CallOK(c), NEW g, NEW terminated \in BOOLEAN,
         Credited(g, e, Paying(e, terminated)), Balanced(e, c, told, "live"), PathHolds
  PROVE  /\ Paying(e, terminated).plain \in Int
         /\ told.plain + Skilled(c, c.plain) + Paying(e, terminated).plain =
              (IF Succeeded(e) THEN Sparse ELSE 0) + HighOf(g.account)
                - Cost(told.elapsed + Skilled(c, c.spent) + 1)
         /\ "high" \in task.kinds =>
              /\ g.account.high = Most(told.best, e.view.level)
              /\ told.first <= Most(told.best, e.view.level)
              /\ g.account.paid = Least(Cap, Most(told.best, e.view.level) - told.first)
         /\ ~ told.success
<1> DEFINE pay == Paying(e, terminated)
           a == e.account
           b == g.account
           S == IF Succeeded(e) THEN Sparse ELSE 0
           n == told.elapsed + Skilled(c, c.spent)
           p == told.plain + Skilled(c, c.plain)
<1>1. a \in Accounts /\ e.view.level \in Nat /\ Succeeded(e) \in BOOLEAN /\ b = pay.account
  BY EnvFields, TaskFacts DEF Succeeded, Credited
<1>2. /\ pay.account \in Accounts /\ pay.plain \in Int
      /\ pay.plain = S + (IF "high" \in task.kinds THEN pay.account.paid - a.paid ELSE 0)
                       - (IF "cost" \in task.kinds THEN 1 ELSE 0)
      /\ "high" \in task.kinds => pay.account.high = Most(a.high, e.view.level)
      /\ \A opening \in Nat :
           "high" \in task.kinds /\ opening <= a.high /\ a.paid = Least(Cap, a.high - opening) =>
             pay.account.paid = Least(Cap, Most(a.high, e.view.level) - opening)
  BY <1>1, AccountedOK DEF Paying
<1>3. /\ p = HighOf(a) - Cost(n) /\ ~ told.success
      /\ "high" \in task.kinds => /\ a.high = told.best /\ told.first <= told.best
                                  /\ a.paid = Least(Cap, told.best - told.first)
  <2>1. /\ p = (IF told.success THEN Sparse ELSE 0) + HighOf(a) - Cost(n) /\ ~ told.success
        /\ "high" \in task.kinds => /\ a.high = told.best /\ told.first <= told.best
                                    /\ a.paid = Least(Cap, told.best - told.first)
    BY BalancedIs
  <2>2. HighOf(a) \in Int /\ n \in Int
    BY EnvFields, CallFields, PaymentFields DEF HighOf, Skilled
  <2>3. Cost(n) \in Int
    BY <2>2 DEF Cost
  <2> HIDE DEF p, n, a
  <2>4. QED  BY <2>1, <2>2, <2>3
<1>4. p \in Int /\ n \in Nat /\ a.paid \in Nat /\ b.paid \in Nat /\ S \in Int /\ pay.plain \in Int
  <2>1. Skilled(c, c.plain) \in Int /\ Skilled(c, c.spent) \in Nat
    BY CallFields DEF Skilled
  <2>2. QED  BY <1>1, <1>2, <2>1, PaymentFields, EnvFields, TaskFacts DEF Accounts
<1> HIDE DEF pay, a, b, S, n, p
<1>5. p + pay.plain = S + HighOf(b) - Cost(n + 1)
  <2>1. CASE "high" \in task.kinds
    <3>1. p = a.paid - Cost(n) /\ HighOf(b) = b.paid
      BY <1>3, <2>1 DEF HighOf
    <3>2. pay.plain = S + (b.paid - a.paid) - Cost(1)
      BY <1>1, <1>2, <2>1 DEF Cost
    <3>3. QED  BY <1>4, <3>1, <3>2 DEF Cost
  <2>2. CASE "high" \notin task.kinds
    <3>1. p = 0 - Cost(n) /\ HighOf(b) = 0
      BY <1>3, <2>2 DEF HighOf
    <3>2. pay.plain = S + 0 - Cost(1)
      BY <1>2, <2>2 DEF Cost
    <3>3. QED  BY <1>4, <3>1, <3>2 DEF Cost
  <2>3. QED  BY <2>1, <2>2
<1>6. ASSUME "high" \in task.kinds
      PROVE  /\ b.high = Most(told.best, e.view.level)
             /\ told.first <= Most(told.best, e.view.level)
             /\ b.paid = Least(Cap, Most(told.best, e.view.level) - told.first)
  <2>1. told.first \in Nat /\ told.best \in Nat /\ e.view.level \in Nat
    BY PaymentFields, EnvFields, TaskFacts
  <2>2. told.first <= Most(told.best, e.view.level)
    BY <1>3, <1>6, <2>1 DEF Most
  <2>3. QED  BY <1>1, <1>2, <1>3, <1>6, <2>1, <2>2
<1>7. told.plain + Skilled(c, c.plain) + pay.plain = S + HighOf(g.account) - Cost(told.elapsed + Skilled(c, c.spent) + 1)
  BY <1>5 DEF p, b, n
<1>8. QED  BY <1>3, <1>4, <1>6, <1>7 DEF pay, b, S

LEMMA ScoresStands ==
  ASSUME TypeOK, NEW w, NEW e, EnvOK(e), NEW c, CallOK(c), NEW f, Adoptable(w, e, c, f),
         UnderWay(c), Due(e) = {}, ~ c.inside, NEW m, Typed(m), Scores(m, e, c)
  PROVE  /\ Standing(w, m.env, m.call, m.told, m.state, f) /\ m.env.steps <= task.steps
<1> DEFINE ok == Succeeded(e)
           pay == Paying(e, ok)
<1>1. PICK g, over :
        /\ Credited(g, e, pay) /\ Verdict(e, over)
        /\ \/ EndsWith(m, g, c, pay.plain, over, ok)
           \/ over = "live" /\ c.op \in {"wait", "skill"} /\ Repeats(m, g, c, pay.plain)
  BY DEF Scores
<1>2. /\ EnvOK(g) /\ g.view = e.view /\ g.steps = e.steps /\ g.applied = e.applied
      /\ g.log = e.log /\ g.window = e.window /\ ok \in BOOLEAN
  BY <1>1 DEF Credited, Succeeded
<1>3. /\ e.steps <= task.steps /\ state = "live" /\ Balanced(e, c, told, "live")
      /\ task.verify > 0 => ~ e.window.ran /\ told.plain = 0 /\ c.plain = 0
  BY DEF Adoptable
<1>4. /\ over = "live" => ~ ok /\ e.steps < task.steps /\ e.view.tick < Limit
      /\ over \in {"live", "terminated", "truncated"}
      /\ task.verify > 0 => over = "live" /\ pay.plain = 0
  <2>1. /\ over \in {"live", "terminated", "truncated"} /\ (over = "terminated" <=> ok)
        /\ over = "live" <=> ~ ok /\ ~ OutOfBudget(e)
    BY <1>1 DEF Verdict
  <2>2. ASSUME task.verify > 0
        PROVE  over = "live" /\ pay.plain = 0
    <3>1. ~ ok /\ pay.plain = 0
      BY <1>2, <2>2, NothingBefore
    <3>2. ~ OutOfBudget(e)
      BY <1>1, <1>3, <2>2, <3>1 DEF Verdict, OutWithWindow
    <3>3. QED  BY <2>1, <3>1, <3>2
  <2>3. QED  BY <2>1, <2>2, InBudget
<1>5. PathHolds =>
         /\ pay.plain \in Int
         /\ told.plain + Skilled(c, c.plain) + pay.plain =
              (IF ok THEN Sparse ELSE 0) + HighOf(g.account)
                - Cost(told.elapsed + Skilled(c, c.spent) + 1)
         /\ "high" \in task.kinds =>
              /\ g.account.high = Most(told.best, e.view.level)
              /\ told.first <= Most(told.best, e.view.level)
              /\ g.account.paid = Least(Cap, Most(told.best, e.view.level) - told.first)
         /\ ~ told.success
  BY <1>1, <1>2, <1>3, PaymentBalances
<1> HIDE DEF ok, pay
<1>6. CASE EndsWith(m, g, c, pay.plain, over, ok)
  <2>1. /\ m.env = g /\ m.call = Idle /\ m.state = over
        /\ m.told.plain = told.plain + Skilled(c, c.plain) + pay.plain
        /\ m.told.elapsed = told.elapsed + (IF c.op = "skill" THEN c.spent + 1 ELSE 1)
        /\ m.told.success = ok /\ m.told.first = told.first
        /\ m.told.best = Most(told.best, e.view.level)
    BY <1>2, <1>6 DEF EndsWith
  <2>2. Cached(w, g, Idle) /\ Noted(w, g, Idle) /\ Punctual(g, Idle)
    BY <1>2, IdleOK, QuietStands
  <2>3. Budgeted(g, Idle, over)
    BY <1>2, <1>4, TaskFacts, EnvFields DEF Budgeted
  <2>4. Windowed(g, Idle, m.told, over, f)
    <3>1. ASSUME task.verify > 0
          PROVE  over = "live" /\ m.told.plain = 0 /\ Idle.plain = 0 /\ ~ Idle.inside /\ ~ g.window.ran
      BY <1>2, <1>3, <1>4, <2>1, <3>1, IdleOK DEF Skilled
    <3>2. QED  BY <3>1 DEF Windowed
  <2>5. Balanced(g, Idle, m.told, over)
    <3>1. SUFFICES ASSUME PathHolds
                   PROVE  /\ m.told.plain + Skilled(Idle, Idle.plain) =
                               (IF m.told.success THEN Sparse ELSE 0) + HighOf(g.account)
                                 - Cost(m.told.elapsed + Skilled(Idle, Idle.spent))
                          /\ "high" \in task.kinds =>
                               /\ g.account.high = m.told.best /\ m.told.first <= m.told.best
                               /\ g.account.paid = Least(Cap, m.told.best - m.told.first)
                          /\ over = "live" => ~ m.told.success
      BY BalancedIs
    <3>2. Skilled(Idle, Idle.plain) = 0 /\ Skilled(Idle, Idle.spent) = 0
      BY IdleOK DEF Skilled
    <3>3. m.told.elapsed = told.elapsed + Skilled(c, c.spent) + 1 /\ m.told.elapsed \in Nat
      BY <2>1, CallFields, PaymentFields DEF Skilled
    <3>4. m.told.plain \in Int
      BY <1>5, <2>1, <3>1, CallFields, PaymentFields DEF Skilled
    <3>5. m.told.plain + 0 = m.told.plain /\ m.told.elapsed + 0 = m.told.elapsed
      BY <3>3, <3>4
    <3>6. m.told.plain = (IF ok THEN Sparse ELSE 0) + HighOf(g.account) - Cost(m.told.elapsed)
      BY <1>5, <2>1, <3>1, <3>3
    <3>7. m.told.plain + Skilled(Idle, Idle.plain) =
            (IF m.told.success THEN Sparse ELSE 0) + HighOf(g.account)
              - Cost(m.told.elapsed + Skilled(Idle, Idle.spent))
      BY <2>1, <3>2, <3>5, <3>6
    <3>8. QED  BY <1>4, <1>5, <2>1, <3>1, <3>7
  <2>6. g.steps <= task.steps
    BY <1>2, <1>3
  <2>7. QED  BY <2>1, <2>2, <2>3, <2>4, <2>5, <2>6 DEF Standing
<1>7. CASE over = "live" /\ c.op \in {"wait", "skill"} /\ Repeats(m, g, c, pay.plain)
  <2>1. /\ m.env = [g EXCEPT !.steps = g.steps + 1] /\ m.state = "live"
        /\ m.call.op = c.op /\ m.call.at = "step" /\ m.call.inside = c.inside
        /\ m.call.spent = c.spent + 1 /\ m.call.plain = Skilled(c, c.plain) + pay.plain
        /\ m.told.plain = told.plain /\ m.told.elapsed = told.elapsed
        /\ m.told.success = told.success /\ m.told.first = told.first
        /\ m.told.best = Most(told.best, e.view.level)
    BY <1>2, <1>3, <1>7 DEF Repeats
  <2>2. /\ m.env.view = e.view /\ m.env.steps = e.steps + 1 /\ m.env.applied = e.applied
        /\ m.env.log = e.log /\ m.env.window = e.window /\ m.env.account = g.account
    BY <1>2, <2>1 DEF EnvOK, Environments
  <2>3. Cached(w, m.env, m.call) /\ Noted(w, m.env, m.call) /\ Punctual(m.env, m.call)
    BY <2>1, <2>2, QuietStands
  <2>4. m.call # Idle
    BY <2>1, IdleOK
  <2>5. Budgeted(m.env, m.call, m.state)
    BY <1>4, <1>7, <2>2, <2>4, EnvFields, TaskFacts DEF Budgeted
  <2>6. Windowed(m.env, m.call, m.told, m.state, f)
    <3>1. ASSUME task.verify > 0
          PROVE  m.told.plain = 0 /\ m.call.plain = 0 /\ ~ m.call.inside /\ ~ m.env.window.ran
      BY <1>3, <1>4, <2>1, <2>2, <3>1 DEF Skilled
    <3>2. QED  BY <2>1, <3>1 DEF Windowed
  <2>7. Balanced(m.env, m.call, m.told, m.state)
    <3>1. SUFFICES ASSUME PathHolds
                   PROVE  /\ told.plain + Skilled(m.call, m.call.plain) =
                               (IF told.success THEN Sparse ELSE 0) + HighOf(g.account)
                                 - Cost(told.elapsed + Skilled(m.call, m.call.spent))
                          /\ "high" \in task.kinds =>
                               /\ g.account.high = m.told.best /\ m.told.first <= m.told.best
                               /\ g.account.paid = Least(Cap, m.told.best - m.told.first)
                          /\ ~ m.told.success
      BY <2>1, <2>2, BalancedIs
    <3>2. /\ "high" \in task.kinds =>
               /\ g.account.high = m.told.best /\ m.told.first <= m.told.best
               /\ g.account.paid = Least(Cap, m.told.best - m.told.first)
          /\ ~ m.told.success /\ ~ told.success
      BY <1>5, <2>1, <3>1
    <3>3. CASE c.op = "skill"
      <4>1. /\ Skilled(m.call, m.call.plain) = c.plain + pay.plain
            /\ Skilled(m.call, m.call.spent) = c.spent + 1
            /\ Skilled(c, c.plain) = c.plain /\ Skilled(c, c.spent) = c.spent
        BY <2>1, <3>3 DEF Skilled
      <4>2. /\ told.plain + (c.plain + pay.plain) = told.plain + c.plain + pay.plain
            /\ told.elapsed + (c.spent + 1) = told.elapsed + c.spent + 1
        BY <1>5, <3>1, CallFields, PaymentFields
      <4>3. ~ ok
        BY <1>4, <1>7
      <4>4. told.plain + Skilled(m.call, m.call.plain) =
              (IF told.success THEN Sparse ELSE 0) + HighOf(g.account)
                - Cost(told.elapsed + Skilled(m.call, m.call.spent))
        BY <1>5, <3>1, <3>2, <4>1, <4>2, <4>3
      <4>5. QED  BY <3>2, <4>4
    <3>4. CASE c.op = "wait"
      <4>1. /\ Skilled(m.call, m.call.plain) = 0 /\ Skilled(m.call, m.call.spent) = 0
            /\ Skilled(c, c.plain) = 0 /\ Skilled(c, c.spent) = 0
        BY <2>1, <3>4 DEF Skilled
      <4>2. "high" \notin task.kinds
        BY <3>1, <3>4 DEF UnderWay, PathHolds
      <4>3. told.plain + Skilled(c, c.plain) =
              (IF told.success THEN Sparse ELSE 0) + HighOf(e.account)
                - Cost(told.elapsed + Skilled(c, c.spent))
        BY <1>3, <3>1, BalancedIs
      <4>4. HighOf(e.account) = HighOf(g.account)
        BY <4>2 DEF HighOf
      <4>5. QED  BY <3>2, <4>1, <4>3, <4>4
    <3>5. QED  BY <1>7, <3>3, <3>4
  <2>8. m.env.steps <= task.steps
    BY <1>4, <1>7, <2>2, EnvFields, TaskFacts
  <2>9. QED  BY <2>3, <2>5, <2>6, <2>7, <2>8 DEF Standing
<1>8. QED  BY <1>1, <1>6, <1>7

LEMMA AdoptedStands ==
  ASSUME TypeOK, NEW w, NEW e, EnvOK(e), NEW c, CallOK(c), NEW f, Adoptable(w, e, c, f),
         UnderWay(c), NEW m \in Adopted(e, c)
  PROVE  /\ Standing(w, m.env, m.call, m.told, m.state, f) /\ m.env.steps <= task.steps
BY AdoptedOK, AsksStands, ChunkStands, OpensStands, ScoresStands

-----------------------------------------------------------------------------
(* A step of the environment, whatever it is, leaves the task alone: what  *)
(* holds of the next values for this task is the invariant afterwards.     *)
LEMMA TypeNext ==
  ASSUME TypeOK, task' = task, world' \in Views, EnvOK(env'), CallOK(call'),
         told' \in Payments(told'.sum), state' \in States, raised' \in BOOLEAN,
         faults' \in 0 .. MaxFaults, episodes' \in 0 .. MaxEpisodes
  PROVE  TypeOK'
<1>1. Disruptions' = Disruptions
  BY DEF Disruptions
<1>2. Views' = Views
  BY <1>1 DEF Views
<1>3. Environments' = Environments
  BY <1>1, <1>2 DEF Environments
<1>4. ClientCalls(call.sum)' = ClientCalls(call'.sum)
  BY DEF ClientCalls
<1>5. task' \in Tasks
  BY DEF TypeOK
<1>6. Payments(told.sum)' = Payments(told'.sum)
  BY DEF Payments
<1>7. env' \in Environments /\ call' \in ClientCalls(call'.sum)
  BY DEF EnvOK, CallOK
<1>8. QED  BY <1>2, <1>3, <1>4, <1>5, <1>6, <1>7 DEF TypeOK

LEMMA StandsNext ==
  ASSUME task' = task, Standing(world', env', call', told', state', faults')
  PROVE  Standing(world, env, call, told, state, faults)'
<1>1. Disruptions' = Disruptions /\ Limit' = Limit
  BY DEF Disruptions, Limit
<1>2. Cached(world, env, call)'
  BY DEF Standing, Cached
<1>3. Noted(world, env, call)'
  BY <1>1 DEF Standing, Noted
<1>4. Punctual(env, call)'
  BY <1>1 DEF Standing, Punctual
<1>5. Budgeted(env, call, state)'
  <2>1. Budgeted(env', call', state')
    BY DEF Standing
  <2>2. QED  BY <1>1, <2>1 DEF Budgeted, Idle
<1>6. Windowed(env, call, told, state, faults)'
  <2>1. Windowed(env', call', told', state', faults')
    BY DEF Standing
  <2>2. Lasted(env, call)' = Lasted(env', call')
    BY DEF Lasted
  <2>3. /\ Spans(Lasted(env, call), faults)' = Spans(Lasted(env', call'), faults')
        /\ Spans(env.window.end - env.window.start, faults)'
             = Spans(env'.window.end - env'.window.start, faults')
    BY <2>2 DEF Spans
  <2>4. QED  BY <1>1, <2>1, <2>2, <2>3 DEF Windowed
<1>7. Balanced(env, call, told, state)'
  BY DEF Standing, Balanced, Skilled
<1>8. QED  BY <1>2, <1>3, <1>4, <1>5, <1>6, <1>7 DEF Standing

LEMMA InvNext ==
  ASSUME TypeOK', task' = task, Placed(call', state'),
         call'.op = "reset" => Resetting(world', env', call'),
         ~ raised' => env'.steps <= task.steps,
         ~ raised' /\ call'.op # "reset" /\ state' # "excluded" =>
           Standing(world', env', call', told', state', faults')
  PROVE  IInv'
<1>1. Placed(call, state)'
  BY DEF Placed, Idle, Disruptions
<1>2. call'.op = "reset" => Resetting(world, env, call)'
  BY DEF Resetting, Disruptions
<1>3. ~ raised' => env'.steps <= task'.steps
  OBVIOUS
<1>4. ~ raised' /\ call'.op # "reset" /\ state' # "excluded" =>
        Standing(world, env, call, told, state, faults)'
  BY StandsNext
<1>5. QED  BY <1>1, <1>2, <1>3, <1>4 DEF IInv

(* What the invariant says of the call under way.                          *)
LEMMA CallsAre ==
  ASSUME IInv
  PROVE  /\ TypeOK /\ EnvOK(env) /\ CallOK(call) /\ world \in Views
         /\ call # Idle /\ call.op # "reset" => UnderWay(call) /\ state = "live" /\ call.at \in Working
         /\ call.at = "disrupt" => call.which \in Disruptions
         /\ call.at \in Working => call # Idle /\ call.op # "reset"
         /\ call.at \in {"reset", "begin", "begintruth"} <=> call.op = "reset"
         /\ ~ raised /\ call.op # "reset" /\ state # "excluded" =>
              Standing(world, env, call, told, state, faults)
<1>1. TypeOK /\ EnvOK(env) /\ CallOK(call) /\ world \in Views
  BY DEF IInv, TypeOK, EnvOK, CallOK
<1>2. Idle.op = "none" /\ Idle.at = "idle"
  BY <1>1, IdleOK
<1>3. Placed(call, state)
  BY DEF IInv
<1>4. QED  BY <1>1, <1>2, <1>3 DEF IInv, Placed, Working, UnderWay

(* An exception that leaves the environment ends what is claimed.          *)
LEMMA RaiseOK ==
  ASSUME IInv, Raise, world' \in Views
  PROVE  IInv'
<1>1. /\ TypeOK /\ EnvOK(env) /\ told \in Payments(told.sum) /\ state \in States
      /\ faults \in 0 .. MaxFaults /\ episodes \in 0 .. MaxEpisodes
  BY DEF IInv, TypeOK, EnvOK
<1>2. /\ raised' = TRUE /\ call' = Idle /\ env' = env /\ told' = told /\ state' = state
      /\ task' = task /\ episodes' = episodes /\ faults' \in 0 .. MaxFaults
  BY <1>1, EpisodeAssumption DEF Raise, Faulty
<1>3. CallOK(call') /\ call'.op = "none"
  BY <1>1, <1>2, IdleOK
<1>4. TypeOK'
  BY <1>1, <1>2, <1>3, TypeNext
<1>5. QED  BY <1>2, <1>3, <1>4, InvNext DEF Placed

(* A step that has been answered and adopted.                              *)
LEMMA AdoptedPlaced ==
  ASSUME TypeOK, NEW e, EnvOK(e), NEW c, CallOK(c), UnderWay(c), state = "live",
         NEW m \in Adopted(e, c)
  PROVE  Typed(m) /\ Placed(m.call, m.state) /\ m.call.op # "reset"
<1>1. Typed(m) /\ Idle.op = "none"
  BY AdoptedOK, IdleOK
<1>2. ASSUME m.call.op = c.op, m.call.at \in Working, m.state = state,
             m.call.inside => task.verify > 0,
             m.call.at = "disrupt" => m.call.which \in Disruptions
      PROVE  Placed(m.call, m.state) /\ m.call.op # "reset"
  BY <1>2 DEF Placed, UnderWay
<1>3. ASSUME m.call = Idle
      PROVE  Placed(m.call, m.state) /\ m.call.op # "reset"
  BY <1>1, <1>3 DEF Placed
<1>4. c.inside => task.verify > 0
  BY DEF UnderWay
<1>5. CASE Asks(m, e, c)
  <2>1. /\ m.call.op = c.op /\ m.call.at = "disrupt" /\ m.state = state
        /\ m.call.inside = c.inside /\ m.call.which \in Disruptions
    BY <1>5 DEF Asks, Due
  <2>2. QED  BY <1>1, <1>2, <1>4, <2>1 DEF Working
<1>6. CASE ChunkOver(m, e, c)
  <2>1. CASE Shortened(m.call, c) /\ m.call.at = "step" /\ m.state = state
    <3>1. m.call.op = c.op /\ m.call.inside = c.inside
      BY <2>1 DEF Shortened
    <3>2. QED  BY <1>1, <1>2, <1>4, <2>1, <3>1 DEF Working
  <2>2. CASE \E d : Shortened(d, c) /\ Measures(m, e, d)
    <3>1. m.call = Idle
      BY <2>2 DEF Measures, EndsWith
    <3>2. QED  BY <1>1, <1>3, <3>1
  <2>3. QED  BY <1>6, <2>1, <2>2 DEF ChunkOver
<1>7. CASE Opens(m, e, c)
  <2>1. m.call.op = c.op /\ m.call.at = "step" /\ m.state = state /\ task.verify > 0
    BY <1>7 DEF Opens, OutWithWindow
  <2>2. QED  BY <1>1, <1>2, <2>1 DEF Working
<1>8. CASE Scores(m, e, c)
  <2>1. \/ m.call = Idle
        \/ m.call.op = c.op /\ m.call.at = "step" /\ m.state = state /\ m.call.inside = c.inside
    BY <1>8 DEF Scores, EndsWith, Repeats
  <2>2. QED  BY <1>1, <1>2, <1>3, <1>4, <2>1 DEF Working
<1>9. QED  BY <1>1, <1>5, <1>6, <1>7, <1>8, AdoptedOK

LEMMA AdoptingOK ==
  ASSUME IInv, call # Idle, call.op # "reset", NEW e, EnvOK(e), world' \in Views,
         NEW m \in Adopted(e, call), Become(m),
         ~ raised => Adoptable(world', e, call, faults),
         UNCHANGED <<task, raised, faults, episodes>>
  PROVE  IInv'
<1>1. /\ TypeOK /\ CallOK(call) /\ UnderWay(call) /\ state = "live"
      /\ raised \in BOOLEAN /\ faults \in 0 .. MaxFaults /\ episodes \in 0 .. MaxEpisodes
  BY CallsAre DEF TypeOK
<1>2. Typed(m) /\ Placed(m.call, m.state) /\ m.call.op # "reset"
  BY <1>1, AdoptedPlaced
<1>3. env' = m.env /\ call' = m.call /\ told' = m.told /\ state' = m.state
  BY DEF Become
<1>4. TypeOK'
  BY <1>1, <1>2, <1>3, TypeNext DEF Typed
<1>5. ASSUME ~ raised'
      PROVE  env'.steps <= task.steps /\ Standing(world', env', call', told', state', faults')
  <2>1. Adoptable(world', e, call, faults)
    BY <1>5
  <2>2. /\ Standing(world', m.env, m.call, m.told, m.state, faults) /\ m.env.steps <= task.steps
    BY <1>1, <2>1, AdoptedStands
  <2>3. QED  BY <1>3, <2>2
<1>6. call'.op # "reset"
  BY <1>2, <1>3
<1>7. QED  BY <1>2, <1>3, <1>4, <1>5, <1>6, InvNext

-----------------------------------------------------------------------------
(* The client's calls.                                                     *)
LEMMA CallBegins ==
  ASSUME IInv, MayCall, NEW e, EnvOK(e), e.view = env.view, e.log = env.log,
         e.applied = env.applied, e.window = env.window, e.account = env.account,
         e.steps = env.steps \/ e.steps = env.steps + 1,
         NEW c, CallOK(c), UnderWay(c), c.at = "step", c.plain = 0, c.spent = 0,
         c.inside => c.left = task.verify /\ c.start = env.view.tick, Calls(c, e)
  PROVE  IInv'
<1>1. /\ call' = c /\ env' = e /\ task' = task /\ world' = world /\ state' = "live"
      /\ state = "live" /\ call = Idle
      /\ raised' = raised /\ told' = told /\ faults' = faults /\ episodes' = episodes
  BY DEF Calls, MayCall
<1>2. TypeOK /\ Idle.op = "none" /\ Idle.at = "idle" /\ ~ Idle.inside /\ Idle.plain = 0
  BY CallsAre, IdleOK
<1>3. TypeOK'
  BY <1>1, <1>2, TypeNext DEF TypeOK
<1>4. Placed(call', state') /\ call'.op # "reset"
  BY <1>1 DEF Placed, Working, UnderWay
<1>5. ASSUME ~ raised'
      PROVE  env'.steps <= task.steps /\ Standing(world, e, c, told, "live", faults)
  <2>1. Standing(world, env, Idle, told, "live", faults)
    BY <1>1, <1>2, <1>5, CallsAre
  <2>2. env.steps < task.steps /\ env.view.tick < Limit /\ env.view.tick < Limit + DecisionTicks
    BY <1>2, <2>1 DEF Standing, Budgeted
  <2>3. e.steps <= task.steps
    BY <1>2, <2>2, EnvFields, TaskFacts, CallsAre
  <2>4. Cached(world, e, c) /\ Punctual(e, c)
    BY <1>2, <2>1 DEF Standing, Cached, Punctual
  <2>5. Noted(world, e, c)
    BY <1>2, <2>1 DEF Standing, Noted
  <2>6. c # Idle
    BY <1>2
  <2>7. Budgeted(e, c, "live")
    BY <2>2, <2>6 DEF Budgeted
  <2>8. Windowed(e, c, told, "live", faults)
    <3>1. SUFFICES ASSUME task.verify > 0
                   PROVE  /\ ~ e.window.ran /\ told.plain = 0 /\ c.plain = 0
                          /\ c.inside => /\ c.start < Limit + DecisionTicks
                                         /\ Spans(Lasted(e, c), faults)
      BY DEF Windowed
    <3>2. ~ e.window.ran /\ told.plain = 0
      BY <2>1, <3>1 DEF Standing, Windowed
    <3>3. ASSUME c.inside
          PROVE  Spans(Lasted(e, c), faults)
      <4>1. Lasted(e, c) = env.view.tick - env.view.tick + task.verify - 0
        BY <3>3 DEF Lasted
      <4>2. Lasted(e, c) = task.verify
        BY <1>2, <4>1, EnvFields, TaskFacts, CallsAre
      <4>3. QED  BY <1>2, <4>2, TaskFacts DEF Spans
    <3>4. QED  BY <2>2, <3>2, <3>3
  <2>9. Balanced(e, c, told, "live")
    <3>1. Balanced(env, Idle, told, "live")
      BY <2>1 DEF Standing
    <3>2. /\ Skilled(c, c.plain) = Skilled(Idle, Idle.plain)
          /\ Skilled(c, c.spent) = Skilled(Idle, Idle.spent)
      BY <1>2, IdleOK DEF Skilled
    <3>3. QED  BY <3>1, <3>2 DEF Balanced
  <2>10. QED  BY <1>1, <2>3, <2>4, <2>5, <2>7, <2>8, <2>9 DEF Standing
<1>6. QED  BY <1>1, <1>3, <1>4, <1>5, InvNext

LEMMA CountedOK ==
  ASSUME TypeOK, NEW e, EnvOK(e)
  PROVE  LET f == [e EXCEPT !.steps = @ + 1] IN
         /\ EnvOK(f) /\ f.view = e.view /\ f.log = e.log /\ f.applied = e.applied
         /\ f.window = e.window /\ f.account = e.account /\ f.steps = e.steps + 1
BY EnvFields DEF EnvOK, Environments

LEMMA ClientOK ==
  ASSUME IInv, Act \/ Skill \/ WaitFor \/ Finish \/ BridgeFinish
  PROVE  IInv'
<1> DEFINE e == [env EXCEPT !.steps = @ + 1]
<1>1. TypeOK /\ EnvOK(env)
  BY CallsAre
<1>2. /\ EnvOK(e) /\ e.view = env.view /\ e.log = env.log /\ e.applied = env.applied
      /\ e.window = env.window /\ e.account = env.account /\ e.steps = env.steps + 1
  BY <1>1, CountedOK
<1>3. CASE Act
  <2> DEFINE c == Asked("act")
  <2>1. MayCall /\ Calls(c, e)
    BY <1>3 DEF Act
  <2>2. CallOK(c) /\ UnderWay(c) /\ c.at = "step" /\ c.plain = 0 /\ c.spent = 0 /\ ~ c.inside
    BY <1>1, AskedOK DEF UnderWay
  <2> HIDE DEF c, e
  <2>3. QED  BY <1>2, <2>1, <2>2, CallBegins
<1>4. CASE Skill
  <2> DEFINE c == Asked("skill")
  <2>1. MayCall /\ Calls(c, e)
    BY <1>4 DEF Skill
  <2>2. CallOK(c) /\ UnderWay(c) /\ c.at = "step" /\ c.plain = 0 /\ c.spent = 0 /\ ~ c.inside
    BY <1>1, AskedOK DEF UnderWay
  <2> HIDE DEF c, e
  <2>3. QED  BY <1>2, <2>1, <2>2, CallBegins
<1>5. CASE WaitFor
  <2>1. PICK n \in 1 .. MaxWaits : Calls([Asked("wait") EXCEPT !.waits = n], e)
    BY <1>5 DEF WaitFor
  <2> DEFINE a == Asked("wait")
             c == [a EXCEPT !.waits = n]
  <2>2. MayCall /\ "wait" \in task.calls /\ Calls(c, e)
    BY <1>5, <2>1 DEF WaitFor
  <2>3. /\ CallOK(a) /\ a.op = "wait" /\ a.at = "step" /\ ~ a.inside /\ a.spent = 0
        /\ a.plain = 0 /\ n \in 0 .. MaxWaits
    BY <1>1, AskedOK, TaskFacts
  <2> HIDE DEF a
  <2>4. CallOK(c) /\ c.op = "wait" /\ c.at = "step" /\ ~ c.inside /\ c.spent = 0 /\ c.plain = 0
    BY <2>3 DEF CallOK, ClientCalls
  <2>5. UnderWay(c)
    BY <2>2, <2>4 DEF UnderWay
  <2> HIDE DEF c, e
  <2>6. QED  BY <1>2, <2>2, <2>4, <2>5, CallBegins
<1>6. CASE Finish
  <2> DEFINE c == WindowOpened(env, Asked("finish"))
  <2>1. MayCall /\ task.verify > 0 /\ Calls(c, e)
    BY <1>6 DEF Finish
  <2>2. Begun(c, env, Asked("finish"))
    BY <1>1, AskedOK, WindowOpenedOK
  <2> HIDE DEF c, e
  <2>3. /\ CallOK(c) /\ c.op = "finish" /\ c.at = "step" /\ c.plain = 0 /\ c.spent = 0
        /\ c.left = task.verify /\ c.start = env.view.tick
    BY <1>1, <2>2, AskedOK DEF Begun
  <2>4. UnderWay(c)
    BY <2>1, <2>3 DEF UnderWay
  <2>5. QED  BY <1>2, <2>1, <2>3, <2>4, CallBegins
<1>7. CASE BridgeFinish
  <2> DEFINE c == WindowOpened(env, Asked("bridge"))
  <2>1. MayCall /\ task.verify > 0 /\ Calls(c, env)
    BY <1>7 DEF BridgeFinish
  <2>2. Begun(c, env, Asked("bridge"))
    BY <1>1, AskedOK, WindowOpenedOK
  <2> HIDE DEF c, e
  <2>3. /\ CallOK(c) /\ c.op = "bridge" /\ c.at = "step" /\ c.plain = 0 /\ c.spent = 0
        /\ c.left = task.verify /\ c.start = env.view.tick
    BY <1>1, <2>2, AskedOK DEF Begun
  <2>4. UnderWay(c)
    BY <2>1, <2>3 DEF UnderWay
  <2>5. QED  BY <1>1, <2>1, <2>3, <2>4, CallBegins
<1>8. QED  BY <1>3, <1>4, <1>5, <1>6, <1>7

(* A finish that runs no window ends the episode as it stands.             *)
LEMMA FinishUnmeasuredOK ==
  ASSUME IInv, FinishUnmeasured
  PROVE  IInv'
<1> DEFINE pay == Paying(env, TRUE)
           f == [env EXCEPT !.account = pay.account]
           e == [env EXCEPT !.steps = @ + 1, !.account = pay.account]
           c == Asked("finish")
           ok == Succeeded(env)
           m == Told(e, Gathered(c, pay), Seen(e.view.level, c), "terminated", ok)
<1>1. /\ TypeOK /\ EnvOK(env) /\ world \in Views /\ Idle.op = "none" /\ Idle.at = "idle"
      /\ ~ Idle.inside /\ raised \in BOOLEAN /\ faults \in 0 .. MaxFaults
      /\ episodes \in 0 .. MaxEpisodes
  BY CallsAre, IdleOK DEF TypeOK
<1>2. /\ call = Idle /\ state = "live" /\ (task.verify = 0 \/ env.window.ran)
      /\ Become(m) /\ UNCHANGED <<task, world, raised, faults, episodes>>
  <2>1. e.view = env.view
    BY <1>1 DEF EnvOK, Environments
  <2>2. QED  BY <2>1 DEF FinishUnmeasured, MayCall, Paying
<1>3. /\ Credited(f, env, pay) /\ pay.plain \in Int /\ ok \in BOOLEAN /\ pay.account \in Accounts
  <2>1. Credited(f, env, pay) /\ pay.plain \in Int /\ ok \in BOOLEAN
    BY <1>1, CreditedOK
  <2>2. QED  BY <2>1, EnvFields DEF Credited
<1>4. /\ CallOK(c) /\ c.op = "finish" /\ c.plain = 0 /\ c.spent = 0
  BY <1>1, AskedOK
<1> HIDE DEF pay
<1>5. /\ EnvOK(e) /\ e.view = env.view /\ e.log = env.log /\ e.applied = env.applied
      /\ e.window = env.window /\ e.account = pay.account /\ e.steps = env.steps + 1
  <2>1. env \in Environments /\ env.steps + 1 \in Nat /\ pay.account \in Accounts
    BY <1>1, <1>3, EnvFields DEF EnvOK
  <2>2. e = [[env EXCEPT !.steps = env.steps + 1] EXCEPT !.account = pay.account]
    BY <2>1 DEF Environments
  <2>3. QED  BY <2>1, <2>2 DEF EnvOK, Environments
<1> HIDE DEF e, c, ok, f
<1>6. Typed(m) /\ EndsWith(m, e, c, pay.plain, "terminated", ok)
  BY <1>1, <1>3, <1>4, <1>5, ToldOK DEF States
<1> HIDE DEF m
<1>7. env' = e /\ call' = Idle /\ state' = "terminated" /\ told' = m.told
  BY <1>2, <1>6 DEF Become, EndsWith
<1>8. TypeOK'
  BY <1>1, <1>2, <1>6, <1>7, TypeNext, IdleOK DEF Typed, Become
<1>9. ASSUME ~ raised
      PROVE  e.steps <= task.steps /\ Standing(world, e, Idle, m.told, "terminated", faults)
  <2>1. Standing(world, env, Idle, told, "live", faults)
    BY <1>1, <1>2, <1>9, CallsAre
  <2>2. e.steps <= task.steps
    <3>1. env.steps < task.steps
      BY <1>1, <2>1 DEF Standing, Budgeted
    <3>2. QED  BY <1>1, <1>5, <3>1, EnvFields, TaskFacts
  <2>3. Cached(world, e, Idle) /\ Punctual(e, Idle) /\ Noted(world, e, Idle)
    BY <1>5, <2>1 DEF Standing, Cached, Punctual, Noted
  <2>4. Budgeted(e, Idle, "terminated")
    BY DEF Budgeted
  <2>5. ~ (task.verify > 0)
    <3>1. task.verify > 0 => ~ env.window.ran
      BY <2>1 DEF Standing, Windowed
    <3>2. QED  BY <1>1, <1>2, <3>1, TaskFacts
  <2>6. Windowed(e, Idle, m.told, "terminated", faults)
    BY <2>5 DEF Windowed
  <2>7. Balanced(e, Idle, m.told, "terminated")
    <3>1. SUFFICES ASSUME PathHolds
                   PROVE  /\ m.told.plain + Skilled(Idle, Idle.plain) =
                               (IF m.told.success THEN Sparse ELSE 0) + HighOf(e.account)
                                 - Cost(m.told.elapsed + Skilled(Idle, Idle.spent))
                          /\ "high" \in task.kinds =>
                               /\ e.account.high = m.told.best /\ m.told.first <= m.told.best
                               /\ e.account.paid = Least(Cap, m.told.best - m.told.first)
      BY BalancedIs
    <3>2. Balanced(env, c, told, "live")
      <4>1. Balanced(env, Idle, told, "live")
        BY <2>1 DEF Standing
      <4>2. /\ Skilled(c, c.plain) = Skilled(Idle, Idle.plain)
            /\ Skilled(c, c.spent) = Skilled(Idle, Idle.spent)
        BY <1>1, <1>4, IdleOK DEF Skilled
      <4>3. QED  BY <4>1, <4>2 DEF Balanced
    <3>3. Balanced(env, c, told, "live") /\ Credited(f, env, Paying(env, TRUE))
      BY <1>3, <3>2 DEF pay
    <3>4. /\ told.plain + Skilled(c, c.plain) + pay.plain =
               (IF ok THEN Sparse ELSE 0) + HighOf(f.account)
                 - Cost(told.elapsed + Skilled(c, c.spent) + 1)
          /\ "high" \in task.kinds =>
               /\ f.account.high = Most(told.best, env.view.level)
               /\ told.first <= Most(told.best, env.view.level)
               /\ f.account.paid = Least(Cap, Most(told.best, env.view.level) - told.first)
      BY <1>1, <1>4, <3>1, <3>3, PaymentBalances DEF pay, ok
    <3>5. f.account = e.account
      BY <1>3, <1>5 DEF Credited
    <3>6. /\ m.told.plain = told.plain + Skilled(c, c.plain) + pay.plain
          /\ m.told.elapsed = told.elapsed + 1 /\ m.told.success = ok
          /\ m.told.first = told.first /\ m.told.best = Most(told.best, env.view.level)
      BY <1>4, <1>5, <1>6 DEF EndsWith
    <3>7. /\ Skilled(Idle, Idle.plain) = 0 /\ Skilled(Idle, Idle.spent) = 0 /\ Skilled(c, c.spent) = 0
      BY <1>1, <1>4, IdleOK DEF Skilled
    <3>8. m.told.plain \in Int /\ told.elapsed \in Nat
      BY <1>1, <1>6, PaymentFields DEF Typed, Payments
    <3>9. /\ m.told.plain + 0 = m.told.plain /\ told.elapsed + 0 + 1 = told.elapsed + 1
          /\ told.elapsed + 1 + 0 = told.elapsed + 1
      BY <3>8
    <3>10. m.told.plain + Skilled(Idle, Idle.plain) =
             (IF m.told.success THEN Sparse ELSE 0) + HighOf(e.account)
               - Cost(m.told.elapsed + Skilled(Idle, Idle.spent))
      BY <3>4, <3>5, <3>6, <3>7, <3>9
    <3>11. QED  BY <3>4, <3>5, <3>6, <3>10
  <2>8. QED  BY <2>2, <2>3, <2>4, <2>6, <2>7 DEF Standing
<1>10. QED  BY <1>1, <1>2, <1>7, <1>8, <1>9, InvNext DEF Placed

-----------------------------------------------------------------------------
(* The session's answers.                                                  *)
LEMMA IntervalsOK ==
  ASSUME TypeOK, world \in Views, NEW n \in Nat, NEW w \in Intervals(n)
  PROVE  w \in Views /\ w.tick = world.tick + n /\ w.down = world.down
<1> DEFINE L == {x \in 0 .. MaxLevel : /\ x \in world.level - 1 .. world.level + 1
                                       /\ task.goal = 0 => x = world.level
                                       /\ world.down # {} => x <= world.level}
           M == world.made .. world.made + (IF task.verify > 0 /\ world.down = {} THEN 1 ELSE 0)
<1>0. PICK l \in L : w \in {[world EXCEPT !.tick = @ + n, !.level = l, !.made = m] : m \in M}
  BY DEF Intervals
<1>1. PICK m \in M : w = [world EXCEPT !.tick = @ + n, !.level = l, !.made = m]
  BY <1>0
<1>2. world.tick \in Nat /\ world.made \in Nat /\ world.down \subseteq Disruptions
  BY DEF Views
<1>3. world.tick + n \in Nat /\ m \in Nat /\ l \in 0 .. MaxLevel
  BY <1>2
<1> HIDE DEF L, M
<1>4. w = [[world EXCEPT !.tick = world.tick + n] EXCEPT !.level = l, !.made = m]
  BY <1>1
<1>5. QED  BY <1>1, <1>3, <1>4 DEF Views

LEMMA TicksOK ==
  ASSUME TypeOK, CallOK(call)
  PROVE  /\ Ticks \in Nat
         /\ Ticks = IF call.inside THEN Least(DecisionTicks, call.left) ELSE DecisionTicks
BY CallFields, TaskFacts, RemainingOK DEF Ticks

(* A view taken whole or in part from the world.                           *)
LEMMA ViewedOK ==
  ASSUME TypeOK, NEW e, EnvOK(e), NEW w \in Views
  PROVE  LET f == [e EXCEPT !.view = w] IN
         /\ EnvOK(f) /\ f.view = w /\ f.log = e.log /\ f.applied = e.applied
         /\ f.window = e.window /\ f.account = e.account /\ f.steps = e.steps
BY DEF EnvOK, Environments

LEMMA StepSettlesOK ==
  ASSUME IInv, StepSettles
  PROVE  IInv'
<1>1. /\ TypeOK /\ EnvOK(env) /\ CallOK(call) /\ world \in Views /\ call.at = "step"
      /\ call # Idle /\ call.op # "reset" /\ UnderWay(call) /\ state = "live"
  BY CallsAre DEF StepSettles, Working
<1>2. PICK w \in Intervals(Ticks) :
        world' = w /\ \E m \in Adopted([env EXCEPT !.view = w], call) : Become(m)
  BY DEF StepSettles
<1> DEFINE e == [env EXCEPT !.view = w]
<1>3. w \in Views /\ w.tick = world.tick + Ticks /\ w.down = world.down
  BY <1>1, <1>2, IntervalsOK, TicksOK
<1>4. PICK m \in Adopted(e, call) : Become(m)
  BY <1>2
<1>5. /\ EnvOK(e) /\ e.view = w /\ e.log = env.log /\ e.applied = env.applied
      /\ e.window = env.window /\ e.account = env.account /\ e.steps = env.steps
  BY <1>1, <1>3, ViewedOK
<1> HIDE DEF e
<1>6. ASSUME ~ raised
      PROVE  Adoptable(w, e, call, faults)
  <2>1. Standing(world, env, call, told, "live", faults)
    BY <1>1, <1>6, CallsAre
  <2>2. env.steps <= task.steps
    BY <1>6 DEF IInv
  <2>3. env.view.tick = world.tick /\ env.view.tick \in Nat
    BY <1>1, <2>1, EnvFields DEF Standing, Cached
  <2>4. \A i \in Disruptions : /\ e.log[i] = "applied" <=> i \in w.down
                               /\ e.log[i] = "none" <=> i \notin e.applied
    BY <1>1, <1>3, <1>5, <2>1 DEF Standing, Noted
  <2>5. ~ call.inside => e.view.tick < Limit + DecisionTicks
    <3>1. ~ call.inside => env.view.tick < Limit
      BY <1>1, <2>1 DEF Standing, Budgeted
    <3>2. QED  BY <1>1, <1>3, <1>5, <2>3, <3>1, TicksOK, TaskFacts
  <2>6. ASSUME task.verify > 0
        PROVE  /\ ~ e.window.ran /\ told.plain = 0 /\ call.plain = 0
               /\ call.inside => /\ call.start < Limit + DecisionTicks
                                 /\ Spans(e.view.tick - call.start + Remaining(call), faults)
    <3>1. /\ ~ env.window.ran /\ told.plain = 0 /\ call.plain = 0
          /\ call.inside => call.start < Limit + DecisionTicks /\ Spans(Lasted(env, call), faults)
      BY <1>1, <2>1, <2>6 DEF Standing, Windowed
    <3>2. ASSUME call.inside
          PROVE  e.view.tick - call.start + Remaining(call) = Lasted(env, call)
      <4> DEFINE chunk == Least(DecisionTicks, call.left)
      <4>1. Lasted(env, call) = env.view.tick - call.start + call.left - 0
        BY <1>1 DEF Lasted
      <4>2. e.view.tick = env.view.tick + chunk /\ Remaining(call) = call.left - chunk
        BY <1>1, <1>3, <1>5, <2>3, <3>2, TicksOK DEF Remaining
      <4>3. chunk \in Nat /\ call.left \in Nat /\ call.start \in Nat
        BY <1>1, CallFields, RemainingOK, TaskFacts
      <4> HIDE DEF chunk
      <4>4. QED  BY <2>3, <4>1, <4>2, <4>3
    <3>3. QED  BY <1>5, <3>1, <3>2
  <2>7. Balanced(e, call, told, "live")
    BY <1>5, <2>1 DEF Standing, Balanced
  <2>8. QED  BY <1>1, <1>5, <2>2, <2>4, <2>5, <2>6, <2>7 DEF Adoptable
<1>7. QED  BY <1>1, <1>2, <1>3, <1>4, <1>5, <1>6, AdoptingOK DEF StepSettles

(* A call whose request is answered without its step being adopted.        *)
LEMMA MovedOK ==
  ASSUME TypeOK, NEW c, CallOK(c), NEW at \in Places
  PROVE  LET d == [c EXCEPT !.at = at] IN
         /\ CallOK(d) /\ d.op = c.op /\ d.at = at /\ d.which = c.which /\ d.inside = c.inside
         /\ d.left = c.left /\ d.start = c.start /\ d.spent = c.spent /\ d.plain = c.plain
<1> DEFINE d == [c EXCEPT !.at = at]
<1>1. c \in ClientCalls(c.sum)
  BY DEF CallOK
<1>2. d \in ClientCalls(c.sum) /\ d.sum = c.sum
  BY <1>1 DEF ClientCalls
<1>3. QED  BY <1>1, <1>2 DEF CallOK, ClientCalls

LEMMA StepRefusedOK ==
  ASSUME IInv, StepRefused
  PROVE  IInv'
<1>1. /\ TypeOK /\ EnvOK(env) /\ CallOK(call) /\ world \in Views /\ call.at = "step"
      /\ call # Idle /\ call.op # "reset" /\ UnderWay(call) /\ state = "live"
      /\ faults \in Nat /\ faults' = faults + 1 /\ faults' \in 0 .. MaxFaults
  <2>1. faults \in Nat /\ faults' = faults + 1 /\ faults' \in 0 .. MaxFaults
    BY CallsAre, EpisodeAssumption DEF StepRefused, Faulty, TypeOK
  <2>2. QED  BY <2>1, CallsAre DEF StepRefused, Working
<1> DEFINE c == [call EXCEPT !.at = "observe"]
<1>2. /\ CallOK(c) /\ c.op = call.op /\ c.at = "observe" /\ c.inside = call.inside
      /\ c.left = call.left /\ c.start = call.start /\ c.spent = call.spent /\ c.plain = call.plain
  BY <1>1, MovedOK DEF Places
<1>3. /\ call' = c /\ env' = env /\ world' = world /\ task' = task /\ told' = told
      /\ state' = state /\ raised' = raised /\ episodes' = episodes
  BY DEF StepRefused
<1> HIDE DEF c
<1>4. TypeOK'
  BY <1>1, <1>2, <1>3, TypeNext DEF TypeOK
<1>5. Placed(call', state') /\ call'.op # "reset"
  BY <1>1, <1>2, <1>3 DEF Placed, UnderWay, Working
<1>6. ASSUME ~ raised
      PROVE  Standing(world, env, c, told, "live", faults')
  <2>1. Standing(world, env, call, told, "live", faults)
    BY <1>1, <1>6, CallsAre
  <2>2. Cached(world, env, c) /\ Noted(world, env, c) /\ Punctual(env, c)
    BY <1>1, <1>2, <2>1 DEF Standing, Cached, Noted, Punctual
  <2>3. c # Idle
    BY <1>1, <1>2, IdleOK
  <2>4. Budgeted(env, c, "live")
    BY <1>1, <1>2, <2>1, <2>3 DEF Standing, Budgeted
  <2>5. Windowed(env, c, told, "live", faults')
    <3>1. ASSUME task.verify > 0
          PROVE  /\ ~ env.window.ran /\ told.plain = 0 /\ call.plain = 0
                 /\ call.inside => call.start < Limit + DecisionTicks /\ Spans(Lasted(env, call), faults)
      BY <1>1, <2>1, <3>1 DEF Standing, Windowed
    <3>2. Spans(Lasted(env, call), faults) => Spans(Lasted(env, c), faults')
      <4> DEFINE chunk == Least(DecisionTicks, call.left)
      <4>1. Lasted(env, call) = env.view.tick - call.start + call.left - 0
        BY <1>1 DEF Lasted
      <4>2. Lasted(env, c) = env.view.tick - call.start + call.left - chunk
        BY <1>2 DEF Lasted
      <4>3. chunk \in Nat /\ call.left \in Nat /\ call.start \in Nat /\ env.view.tick \in Nat
        BY <1>1, CallFields, EnvFields, RemainingOK, TaskFacts
      <4> HIDE DEF chunk
      <4>4. Lasted(env, c) <= Lasted(env, call) /\ Lasted(env, c) \in Int /\ Lasted(env, call) \in Int
        BY <4>1, <4>2, <4>3
      <4>5. faults' # 0
        BY <1>1
      <4>6. QED  BY <1>1, <4>4, <4>5, TaskFacts DEF Spans
    <3>3. QED  BY <1>2, <3>1, <3>2 DEF Windowed
  <2>6. Balanced(env, c, told, "live")
    BY <1>2, <2>1 DEF Standing, Balanced, Skilled
  <2>7. QED  BY <2>2, <2>4, <2>5, <2>6 DEF Standing
<1>7. QED  BY <1>1, <1>3, <1>4, <1>5, <1>6, InvNext DEF IInv

LEMMA StepFailsOK ==
  ASSUME IInv, StepFails
  PROVE  IInv'
<1>1. /\ TypeOK /\ EnvOK(env) /\ CallOK(call) /\ world \in Views
      /\ raised \in BOOLEAN /\ episodes \in 0 .. MaxEpisodes
  BY CallsAre DEF TypeOK
<1>2. world' \in Views
  <2>1. \A w \in Intervals(Ticks) : w \in Views
    BY <1>1, IntervalsOK, TicksOK
  <2>2. QED  BY <1>1, <2>1 DEF StepFails
<1>3. CASE call.inside
  BY <1>2, <1>3, RaiseOK DEF StepFails
<1>4. CASE ~ call.inside
  <2> DEFINE none == [plain |-> 0, shape |-> 0]
  <2>1. PICK m \in Answered(env, call, none, "excluded", FALSE) : Become(m)
    BY <1>4 DEF StepFails
  <2>2. faults' \in 0 .. MaxFaults /\ task' = task /\ raised' = raised /\ episodes' = episodes
    BY <1>1, <1>4, EpisodeAssumption DEF StepFails, Faulty, TypeOK
  <2>3. none.plain \in Int /\ none.plain = 0 /\ "excluded" \in States /\ FALSE \in BOOLEAN
    BY DEF States
  <2> HIDE DEF none
  <2>4. Typed(m) /\ EndsWith(m, env, call, none.plain, "excluded", FALSE)
    BY <1>1, <2>1, <2>3, AnsweredOK
  <2>5. env' = env /\ call' = Idle /\ state' = "excluded" /\ told' = m.told
    BY <2>1, <2>4 DEF Become, EndsWith
  <2>6. TypeOK'
    BY <1>1, <1>2, <2>1, <2>2, <2>4, TypeNext DEF Typed, Become
  <2>7. Idle.op # "reset"
    BY <1>1, IdleOK
  <2>8. QED  BY <2>2, <2>5, <2>6, <2>7, InvNext DEF IInv, Placed
<1>5. QED  BY <1>1, <1>3, <1>4, CallFields

LEMMA ObservesOK ==
  ASSUME IInv, Observes
  PROVE  IInv'
<1> DEFINE v == [env.view EXCEPT !.tick = world.tick, !.down = world.down]
           e == [env EXCEPT !.view = v]
           c == [call EXCEPT !.at = After(call.at)]
<1>1. /\ TypeOK /\ EnvOK(env) /\ CallOK(call) /\ world \in Views
      /\ call.at \in {"observe", "reobserve", "begin"}
  BY CallsAre DEF Observes
<1>2. /\ env' = e /\ call' = c /\ world' = world /\ task' = task /\ told' = told
      /\ state' = state /\ raised' = raised /\ faults' = faults /\ episodes' = episodes
  <2>1. env' = e
    BY <1>1 DEF Observes, EnvOK, Environments
  <2>2. QED  BY <2>1 DEF Observes
<1>3. /\ v \in Views /\ v.tick = world.tick /\ v.down = world.down
      /\ v.level = env.view.level /\ v.made = env.view.made
  <2>1. env.view \in Views /\ world.tick \in Nat /\ world.down \subseteq Disruptions
    BY <1>1, EnvFields DEF Views
  <2>2. v = [[env.view EXCEPT !.tick = world.tick] EXCEPT !.down = world.down]
    OBVIOUS
  <2>3. QED  BY <2>1, <2>2 DEF Views
<1> HIDE DEF v
<1>4. /\ EnvOK(e) /\ e.view = v /\ e.log = env.log /\ e.applied = env.applied
      /\ e.window = env.window /\ e.account = env.account /\ e.steps = env.steps
  BY <1>1, <1>3, ViewedOK
<1>5. After(call.at) \in Places /\ After(call.at) \in {"truth", "retruth", "begintruth"}
      /\ (call.at = "observe" <=> After(call.at) = "truth")
      /\ (call.at = "begin" <=> After(call.at) = "begintruth")
  BY <1>1 DEF After, Places
<1>6. /\ CallOK(c) /\ c.op = call.op /\ c.at = After(call.at) /\ c.inside = call.inside
      /\ c.left = call.left /\ c.start = call.start /\ c.spent = call.spent /\ c.plain = call.plain
  BY <1>1, <1>5, MovedOK
<1> HIDE DEF e, c
<1>7. TypeOK'
  BY <1>1, <1>2, <1>4, <1>6, TypeNext DEF TypeOK
<1>8. ~ raised => env.steps <= task.steps
  BY DEF IInv
<1>9. CASE call.at = "begin"
  <2>1. call.op = "reset" /\ Resetting(world, env, call)
    BY <1>9, CallsAre DEF IInv
  <2>2. Resetting(world, e, c)
    BY <1>3, <1>4, <1>6, <1>9, <2>1 DEF Resetting
  <2>3. Placed(c, state)
    BY <1>5, <1>6, <1>9, <2>1 DEF Placed
  <2>4. QED  BY <1>2, <1>4, <1>6, <1>7, <1>8, <2>1, <2>2, <2>3, InvNext
<1>10. CASE call.at # "begin"
  <2>1. UnderWay(call) /\ state = "live" /\ call # Idle /\ call.op # "reset"
    BY <1>1, <1>10, CallsAre DEF Working
  <2>2. Placed(c, state) /\ c.op # "reset"
    BY <1>5, <1>6, <1>10, <2>1 DEF Placed, UnderWay, Working
  <2>3. ASSUME ~ raised
        PROVE  Standing(world, e, c, told, state, faults)
    <3>1. Standing(world, env, call, told, state, faults) /\ state = "live"
      BY <2>1, <2>3, CallsAre
    <3>2. env.view.tick = world.tick /\ env.view.level = world.level /\ env.view.made = world.made
      BY <3>1 DEF Standing, Cached
    <3>3. Cached(world, e, c)
      BY <1>3, <1>4, <3>2 DEF Cached
    <3>4. Noted(world, e, c)
      BY <1>1, <1>4, <1>5, <1>6, <3>1 DEF Standing, Noted
    <3>5. e.view.tick = env.view.tick
      BY <1>3, <1>4, <3>2
    <3>6. Punctual(e, c)
      BY <1>4, <1>5, <1>6, <3>1, <3>5 DEF Standing, Punctual
    <3>7. c # Idle
      BY <1>1, <2>1, <1>6, IdleOK DEF UnderWay
    <3>8. Budgeted(e, c, state)
      BY <1>5, <1>6, <3>1, <3>5, <3>7 DEF Standing, Budgeted
    <3>9. Lasted(e, c) = Lasted(env, call)
      BY <1>1, <1>5, <1>6, <3>5 DEF Lasted
    <3>10. Windowed(e, c, told, state, faults)
      BY <1>4, <1>6, <3>1, <3>9 DEF Standing, Windowed
    <3>11. Balanced(e, c, told, state)
      BY <1>4, <1>6, <3>1 DEF Standing, Balanced, Skilled
    <3>12. QED  BY <3>3, <3>4, <3>6, <3>8, <3>10, <3>11 DEF Standing
  <2>4. QED  BY <1>2, <1>4, <1>7, <1>8, <2>2, <2>3, InvNext
<1>11. QED  BY <1>9, <1>10

LEMMA ReadsTruthOK ==
  ASSUME IInv, ReadsTruth
  PROVE  IInv'
<1> DEFINE v == [env.view EXCEPT !.level = world.level, !.made = world.made]
           e == [env EXCEPT !.view = v]
<1>1. /\ TypeOK /\ EnvOK(env) /\ CallOK(call) /\ world \in Views
      /\ call.at \in {"truth", "retruth"} /\ call # Idle /\ call.op # "reset"
      /\ UnderWay(call) /\ state = "live"
  BY CallsAre DEF ReadsTruth, Working
<1>2. PICK m \in Adopted(e, call) : Become(m)
  <2>1. [env EXCEPT !.view.level = world.level, !.view.made = world.made] = e
    BY <1>1 DEF EnvOK, Environments
  <2>2. QED  BY <2>1 DEF ReadsTruth
<1>3. /\ v \in Views /\ v.tick = env.view.tick /\ v.down = env.view.down
      /\ v.level = world.level /\ v.made = world.made
  <2>1. env.view \in Views /\ world.level \in 0 .. MaxLevel /\ world.made \in Nat
    BY <1>1, EnvFields DEF Views
  <2>2. v = [[env.view EXCEPT !.level = world.level] EXCEPT !.made = world.made]
    OBVIOUS
  <2>3. QED  BY <2>1, <2>2 DEF Views
<1> HIDE DEF v
<1>4. /\ EnvOK(e) /\ e.view = v /\ e.log = env.log /\ e.applied = env.applied
      /\ e.window = env.window /\ e.account = env.account /\ e.steps = env.steps
  BY <1>1, <1>3, ViewedOK
<1> HIDE DEF e
<1>5. ASSUME ~ raised
      PROVE  Adoptable(world, e, call, faults)
  <2>1. Standing(world, env, call, told, "live", faults)
    BY <1>1, <1>5, CallsAre
  <2>2. env.steps <= task.steps
    BY <1>5 DEF IInv
  <2>3. e.view = world
    <3>1. env.view.tick = world.tick /\ env.view.down = world.down
      BY <1>1, <2>1 DEF Standing, Cached
    <3>2. QED  BY <1>1, <1>3, <1>4, <3>1 DEF Views
  <2>4. \A i \in Disruptions : /\ e.log[i] = "applied" <=> i \in world.down
                               /\ e.log[i] = "none" <=> i \notin e.applied
    BY <1>1, <1>4, <2>1 DEF Standing, Noted
  <2>5. e.view.tick = env.view.tick
    BY <1>3, <1>4
  <2>6. ~ call.inside => e.view.tick < Limit + DecisionTicks
    BY <1>1, <2>1, <2>5 DEF Standing, Budgeted
  <2>7. ASSUME task.verify > 0
        PROVE  /\ ~ e.window.ran /\ told.plain = 0 /\ call.plain = 0
               /\ call.inside => /\ call.start < Limit + DecisionTicks
                                 /\ Spans(e.view.tick - call.start + Remaining(call), faults)
    <3>1. /\ ~ env.window.ran /\ told.plain = 0 /\ call.plain = 0
          /\ call.inside => call.start < Limit + DecisionTicks /\ Spans(Lasted(env, call), faults)
      BY <1>1, <2>1, <2>7 DEF Standing, Windowed
    <3>2. e.view.tick - call.start + Remaining(call) = Lasted(env, call)
      <4> DEFINE chunk == Least(DecisionTicks, call.left)
      <4>1. Lasted(env, call) = env.view.tick - call.start + call.left - chunk
        BY <1>1 DEF Lasted
      <4>2. Remaining(call) = call.left - chunk
        BY DEF Remaining
      <4>3. chunk \in Nat /\ call.left \in Nat /\ call.start \in Nat /\ env.view.tick \in Nat
        BY <1>1, CallFields, EnvFields, RemainingOK, TaskFacts
      <4> HIDE DEF chunk
      <4>4. QED  BY <2>5, <4>1, <4>2, <4>3
    <3>3. QED  BY <1>4, <3>1, <3>2
  <2>8. Balanced(e, call, told, "live")
    BY <1>4, <2>1 DEF Standing, Balanced
  <2>9. QED  BY <1>1, <1>4, <2>2, <2>3, <2>4, <2>6, <2>7, <2>8 DEF Adoptable
<1>6. world' = world /\ UNCHANGED <<task, raised, faults, episodes>>
  BY DEF ReadsTruth
<1>7. QED  BY <1>1, <1>2, <1>4, <1>5, <1>6, AdoptingOK

LEMMA DisruptsOK ==
  ASSUME IInv, Disrupts
  PROVE  IInv'
<1> DEFINE i == call.which
           c == [call EXCEPT !.at = "reobserve"]
<1>1. /\ TypeOK /\ EnvOK(env) /\ CallOK(call) /\ world \in Views /\ i \in Disruptions
      /\ call.at = "disrupt" /\ call # Idle /\ call.op # "reset" /\ UnderWay(call) /\ state = "live"
      /\ faults \in Nat
  <2>1. faults \in Nat
    BY CallsAre, EpisodeAssumption DEF TypeOK
  <2>2. QED  BY <2>1, CallsAre DEF Disrupts, Working
<1>2. PICK how \in {"applied", "refused"} :
        /\ env' = [env EXCEPT !.log[i] = how]
        /\ \/ how = "applied" /\ world' = [world EXCEPT !.down = @ \cup {i}] /\ faults' = faults
           \/ how = "refused" /\ world' = world /\ faults' = faults + 1 /\ faults < MaxFaults
  BY DEF Disrupts, Faulty
<1>3. /\ call' = c /\ task' = task /\ told' = told
      /\ state' = state /\ raised' = raised /\ episodes' = episodes
  BY DEF Disrupts
<1>4. /\ world' \in Views /\ world'.tick = world.tick /\ world'.level = world.level
      /\ world'.made = world.made
      /\ world'.down = IF how = "applied" THEN world.down \cup {i} ELSE world.down
  BY <1>1, <1>2 DEF Views
<1>5. /\ EnvOK(env') /\ env'.view = env.view /\ env'.applied = env.applied
      /\ env'.window = env.window /\ env'.account = env.account /\ env'.steps = env.steps
      /\ \A j \in Disruptions : env'.log[j] = IF j = i THEN how ELSE env.log[j]
  <2> DEFINE l == [env.log EXCEPT ![i] = how]
  <2>1. l \in [Disruptions -> {"none", "applied", "refused"}]
        /\ \A j \in Disruptions : l[j] = IF j = i THEN how ELSE env.log[j]
    BY <1>1, EnvFields
  <2>2. env' = [env EXCEPT !.log = l]
    BY <1>1, <1>2 DEF EnvOK, Environments
  <2> HIDE DEF l
  <2>3. QED  BY <1>1, <2>1, <2>2 DEF EnvOK, Environments
<1>6. /\ CallOK(c) /\ c.op = call.op /\ c.at = "reobserve" /\ c.inside = call.inside
      /\ c.left = call.left /\ c.start = call.start /\ c.spent = call.spent /\ c.plain = call.plain
  BY <1>1, MovedOK DEF Places
<1> HIDE DEF c
<1>7. TypeOK'
  <2>1. faults' \in 0 .. MaxFaults
    BY <1>1, <1>2, EpisodeAssumption DEF TypeOK
  <2>2. QED  BY <1>1, <1>3, <1>4, <1>5, <1>6, <2>1, TypeNext DEF TypeOK
<1>8. Placed(call', state') /\ call'.op # "reset"
  BY <1>1, <1>3, <1>6 DEF Placed, UnderWay, Working
<1>9. ASSUME ~ raised
      PROVE  env.steps <= task.steps /\ Standing(world', env', c, told, "live", faults')
  <2>1. Standing(world, env, call, told, "live", faults)
    BY <1>1, <1>9, CallsAre
  <2>2. Cached(world', env', c)
    BY <1>4, <1>5, <1>6, <2>1 DEF Standing, Cached
  <2>3. Noted(world', env', c)
    <3>1. /\ i \in env.applied /\ env.log[i] = "none" /\ i \notin world.down
          /\ \A j \in Disruptions : /\ env.log[j] = "applied" <=> j \in world.down
                                    /\ j # i => (env.log[j] = "none" <=> j \notin env.applied)
      BY <1>1, <2>1 DEF Standing, Noted
    <3>2. ASSUME NEW j \in Disruptions
          PROVE  /\ env'.log[j] = "applied" <=> j \in world'.down
                 /\ env'.log[j] = "none" <=> j \notin env'.applied
      <4>1. CASE j = i
        BY <1>2, <1>4, <1>5, <3>1, <4>1
      <4>2. CASE j # i
        BY <1>2, <1>4, <1>5, <3>1, <4>2
      <4>3. QED  BY <4>1, <4>2
    <3>3. QED  BY <1>6, <3>2 DEF Noted
  <2>4. Punctual(env', c)
    BY <1>6 DEF Punctual
  <2>5. c # Idle
    BY <1>1, <1>6, IdleOK
  <2>6. Budgeted(env', c, "live")
    BY <1>5, <1>6, <2>1, <2>5 DEF Standing, Budgeted
  <2>7. Lasted(env', c) = Lasted(env, call)
    BY <1>1, <1>5, <1>6 DEF Lasted
  <2>8. \A n : Spans(n, faults) => Spans(n, faults')
    BY <1>1, <1>2 DEF Spans
  <2>9. Windowed(env', c, told, "live", faults')
    BY <1>5, <1>6, <2>1, <2>7, <2>8 DEF Standing, Windowed
  <2>10. Balanced(env', c, told, "live")
    BY <1>5, <1>6, <2>1 DEF Standing, Balanced, Skilled
  <2>11. env.steps <= task.steps
    BY <1>9 DEF IInv
  <2>12. QED  BY <2>2, <2>3, <2>4, <2>6, <2>9, <2>10, <2>11 DEF Standing
<1>10. QED  BY <1>1, <1>3, <1>5, <1>7, <1>8, <1>9, InvNext

LEMMA FreshOK ==
  ASSUME TypeOK, NEW l \in {0, 1}
  PROVE  /\ Fresh(l) \in Views /\ Fresh(l).tick = 0 /\ Fresh(l).down = {}
         /\ Fresh(l).level = l /\ Fresh(l).made = 0
BY TaskFacts DEF Fresh, Views

LEMMA RaisesOK ==
  ASSUME IInv, DisruptRaises \/ ReadRaises \/ ResetRaises
  PROVE  IInv'
<1>1. TypeOK /\ world \in Views /\ (call.at = "disrupt" => call.which \in Disruptions)
  BY CallsAre
<1>2. CASE DisruptRaises
  <2>1. call.at = "disrupt" /\ Raise /\ world' \in {world, [world EXCEPT !.down = @ \cup {call.which}]}
    BY <1>2 DEF DisruptRaises
  <2>2. world' \in Views
    BY <1>1, <2>1 DEF Views
  <2>3. QED  BY <2>1, <2>2, RaiseOK
<1>3. CASE ReadRaises
  <2>1. Raise /\ world' = world
    BY <1>3 DEF ReadRaises
  <2>2. QED  BY <1>1, <2>1, RaiseOK
<1>4. CASE ResetRaises
  <2>1. Raise /\ world' \in {world} \cup {Fresh(l) : l \in Levels}
    BY <1>4 DEF ResetRaises
  <2>2. Levels \subseteq {0, 1}
    BY DEF Levels
  <2>3. world' \in Views
    BY <1>1, <2>1, <2>2, FreshOK
  <2>4. QED  BY <2>1, <2>3, RaiseOK
<1>5. QED  BY <1>2, <1>3, <1>4

-----------------------------------------------------------------------------
(* The reset.                                                              *)
LEMMA ResetOK ==
  ASSUME IInv, Reset
  PROVE  IInv'
<1> DEFINE e == Cleared(env)
           c == [Asked("reset") EXCEPT !.at = "reset"]
<1>1. TypeOK /\ EnvOK(env) /\ world \in Views
  BY CallsAre
<1>2. /\ env' = e /\ call' = c /\ episodes' = episodes + 1 /\ episodes < MaxEpisodes
      /\ UNCHANGED <<task, world, state, raised, told, faults>>
  BY DEF Reset
<1>3. /\ EnvOK(e) /\ e.applied = {} /\ ~ e.window.ran /\ e.steps = 0
      /\ \A i \in Disruptions : e.log[i] = "none"
  <2> DEFINE l == [i \in Disruptions |-> "none"]
  <2>1. /\ l \in [Disruptions -> {"none", "applied", "refused"}]
        /\ \A i \in Disruptions : l[i] = "none"
    OBVIOUS
  <2>2. NoWindow \in [ran : BOOLEAN, start : Nat, end : Nat, output : Nat] /\ ~ NoWindow.ran
    BY DEF NoWindow
  <2> DEFINE b == [env EXCEPT !.steps = 0, !.applied = {}]
  <2>3. e = [b EXCEPT !.log = l, !.window = NoWindow]
    BY DEF Cleared
  <2> HIDE DEF l
  <2>4. b \in Environments /\ b.steps = 0 /\ b.applied = {}
    BY <1>1 DEF EnvOK, Environments
  <2> HIDE DEF b, e
  <2>5. /\ e \in Environments /\ e.log = l /\ e.window = NoWindow /\ e.steps = b.steps
        /\ e.applied = b.applied
    BY <2>1, <2>2, <2>3, <2>4 DEF Environments
  <2>6. QED  BY <2>1, <2>2, <2>4, <2>5 DEF EnvOK
<1>4. CallOK(c) /\ c.op = "reset" /\ c.at = "reset"
  <2> DEFINE a == Asked("reset")
  <2>1. CallOK(a) /\ a.op = "reset"
    BY <1>1, AskedOK
  <2> HIDE DEF a
  <2>2. CallOK([a EXCEPT !.at = "reset"]) /\ [a EXCEPT !.at = "reset"].op = a.op
        /\ [a EXCEPT !.at = "reset"].at = "reset"
    BY <1>1, <2>1, MovedOK DEF Places
  <2>3. QED  BY <2>1, <2>2 DEF a
<1> HIDE DEF e, c
<1>5. TypeOK'
  <2>1. episodes' \in 0 .. MaxEpisodes
    BY <1>1, <1>2, EpisodeAssumption DEF TypeOK
  <2>2. QED  BY <1>1, <1>2, <1>3, <1>4, <2>1, TypeNext DEF TypeOK
<1>6. Resetting(world, e, c) /\ Placed(c, state) /\ e.steps <= task.steps
  BY <1>1, <1>3, <1>4, TaskFacts DEF Resetting, Placed
<1>7. QED  BY <1>2, <1>4, <1>5, <1>6, InvNext

LEMMA ResetsWorldOK ==
  ASSUME IInv, ResetsWorld
  PROVE  IInv'
<1> DEFINE c == [call EXCEPT !.at = "begin"]
<1>1. /\ TypeOK /\ EnvOK(env) /\ CallOK(call) /\ call.op = "reset" /\ Resetting(world, env, call)
  BY CallsAre DEF ResetsWorld, IInv
<1>2. PICK l \in {0, 1} : world' = Fresh(l)
  BY DEF ResetsWorld, Levels
<1>3. /\ call' = c /\ env' = env /\ task' = task /\ told' = told /\ state' = state
      /\ raised' = raised /\ faults' = faults /\ episodes' = episodes
  BY DEF ResetsWorld
<1>4. CallOK(c) /\ c.op = "reset" /\ c.at = "begin"
  BY <1>1, MovedOK DEF Places
<1> HIDE DEF c
<1>5. world' \in Views /\ world'.tick = 0 /\ world'.down = {}
  BY <1>1, <1>2, FreshOK
<1>6. TypeOK'
  BY <1>1, <1>3, <1>4, <1>5, TypeNext DEF TypeOK
<1>7. Resetting(world', env, c) /\ Placed(c, state) /\ env.steps <= task.steps
  BY <1>1, <1>4, <1>5, TaskFacts DEF Resetting, Placed
<1>8. QED  BY <1>3, <1>4, <1>6, <1>7, InvNext

LEMMA BeginsOK ==
  ASSUME IInv, Begins
  PROVE  IInv'
<1> DEFINE v == [env.view EXCEPT !.level = world.level, !.made = world.made]
           a == Opened(world.level)
           e == [env EXCEPT !.view = v, !.account = a]
           t == [plain |-> 0, sum |-> Nothing, elapsed |-> 0, first |-> world.level,
                 best |-> world.level, success |-> FALSE]
<1>1. /\ TypeOK /\ EnvOK(env) /\ CallOK(call) /\ world \in Views /\ call.op = "reset"
      /\ Resetting(world, env, call) /\ call.at = "begintruth"
      /\ world.level \in 0 .. MaxLevel /\ world.level \in Nat
  <2>1. call.at = "begintruth"
    BY DEF Begins
  <2>2. world.level \in 0 .. MaxLevel /\ world.level \in Nat
    BY CallsAre, TaskFacts DEF Views
  <2>3. QED  BY <2>1, <2>2, CallsAre DEF IInv
<1>2. /\ env' = e /\ call' = Idle /\ state' = "live" /\ raised' = FALSE /\ told' = t
      /\ UNCHANGED <<task, world, faults, episodes>>
  <2>1. env' = e
    BY <1>1 DEF Begins, EnvOK, Environments
  <2>2. QED  BY <2>1 DEF Begins
<1>3. /\ v \in Views /\ v.tick = env.view.tick /\ v.down = env.view.down
      /\ v.level = world.level /\ v.made = world.made
  <2>1. env.view \in Views /\ world.level \in 0 .. MaxLevel /\ world.made \in Nat
    BY <1>1, EnvFields DEF Views
  <2>2. v = [[env.view EXCEPT !.level = world.level] EXCEPT !.made = world.made]
    OBVIOUS
  <2>3. QED  BY <2>1, <2>2 DEF Views
<1>4. a \in Accounts /\ a.high = world.level /\ a.paid = 0
  BY <1>1 DEF Opened, Accounts
<1> HIDE DEF v, a
<1>5. /\ EnvOK(e) /\ e.view = v /\ e.log = env.log /\ e.applied = env.applied
      /\ e.window = env.window /\ e.account = a /\ e.steps = env.steps
  <2>1. e = [[env EXCEPT !.view = v] EXCEPT !.account = a]
    OBVIOUS
  <2> HIDE DEF e
  <2>2. QED  BY <1>1, <1>3, <1>4, <2>1 DEF EnvOK, Environments
<1> HIDE DEF e
<1>6. /\ t \in Payments(t.sum) /\ t.plain = 0 /\ t.elapsed = 0 /\ ~ t.success
      /\ t.first = world.level /\ t.best = world.level
  BY <1>1 DEF Payments
<1> HIDE DEF t
<1>7. Idle.op = "none" /\ Idle.at = "idle" /\ ~ Idle.inside /\ Idle.plain = 0 /\ Idle.spent = 0
      /\ CallOK(Idle)
  BY <1>1, IdleOK
<1>8. TypeOK'
  <2>1. "live" \in States /\ FALSE \in BOOLEAN
    BY DEF States
  <2>2. QED  BY <1>1, <1>2, <1>5, <1>6, <1>7, <2>1, TypeNext DEF TypeOK
<1>9. /\ v.tick = 0 /\ v.tick = world.tick /\ v.down = world.down /\ e.applied = {} /\ ~ e.window.ran
      /\ e.steps = 0 /\ world.down = {} /\ \A i \in Disruptions : e.log[i] = "none"
  BY <1>1, <1>3, <1>5 DEF Resetting
<1>10. Standing(world, e, Idle, t, "live", faults)
  <2>1. Cached(world, e, Idle)
    BY <1>3, <1>5, <1>9 DEF Cached
  <2>2. Noted(world, e, Idle)
    BY <1>7, <1>9 DEF Noted
  <2>3. Punctual(e, Idle)
    BY <1>5, <1>9 DEF Punctual
  <2>4. Budgeted(e, Idle, "live")
    BY <1>1, <1>5, <1>9, TaskFacts DEF Budgeted
  <2>5. Windowed(e, Idle, t, "live", faults)
    BY <1>6, <1>7, <1>9 DEF Windowed
  <2>6. Balanced(e, Idle, t, "live")
    <3>1. Skilled(Idle, Idle.plain) = 0 /\ Skilled(Idle, Idle.spent) = 0
      BY <1>7 DEF Skilled
    <3>2. HighOf(e.account) = 0 /\ Cost(0 + 0) = 0
      BY <1>4, <1>5 DEF HighOf, Cost
    <3>3. Least(Cap, world.level - world.level) = 0
      BY <1>1, TaskFacts DEF Least
    <3>4. QED  BY <1>1, <1>4, <1>5, <1>6, <3>1, <3>2, <3>3, BalancedIs
  <2>7. QED  BY <2>1, <2>2, <2>3, <2>4, <2>5, <2>6 DEF Standing
<1>11. e.steps <= task.steps
  BY <1>1, <1>9, TaskFacts
<1>12. QED  BY <1>2, <1>7, <1>8, <1>10, <1>11, InvNext DEF Placed

-----------------------------------------------------------------------------
(* The environment as it is built, before any reset.                       *)
LEMMA InitOK == Init => IInv
<1> SUFFICES ASSUME Init
             PROVE  IInv
  OBVIOUS
<1>1. /\ task \in Tasks /\ TaskOK(task) /\ call = Idle /\ state = "none" /\ raised = FALSE
      /\ world = Fresh(0) /\ faults = 0 /\ episodes = 0
  BY EpisodeAssumption DEF Init
<1>2. /\ task.verify \in Nat /\ MaxLevel \in Nat /\ MaxWaits \in Nat /\ MaxFaults \in Nat
      /\ MaxEpisodes \in Nat /\ task.steps \in Nat /\ 0 \in 0 .. task.verify
      /\ 0 \in 0 .. MaxWaits /\ 0 \in 0 .. MaxLevel
  BY <1>1, EpisodeAssumption DEF TaskOK
<1>3. Fresh(0) \in Views
  BY <1>2 DEF Fresh, Views
<1>4. /\ env.view = Fresh(0) /\ env.steps = 0 /\ env.applied = {} /\ env.window = NoWindow
      /\ env.log = [i \in Disruptions |-> "none"]
      /\ env = [view |-> env.view, steps |-> env.steps, applied |-> env.applied,
                log |-> env.log, window |-> env.window, account |-> env.account]
      /\ env.account \in Accounts
  BY DEF Init, Opened, Accounts
<1>5. /\ env.log \in [Disruptions -> {"none", "applied", "refused"}]
      /\ env.window \in [ran : BOOLEAN, start : Nat, end : Nat, output : Nat]
      /\ ~ env.window.ran
  BY <1>4 DEF NoWindow
<1>6. env \in Environments
  BY <1>3, <1>4, <1>5 DEF Environments
<1>7. /\ Idle \in ClientCalls(Nothing) /\ Idle.sum = Nothing /\ Idle.op = "none" /\ Idle.at = "idle"
      /\ ~ Idle.inside /\ Idle.plain = 0 /\ Idle.spent = 0
  BY <1>2 DEF ClientCalls, Idle, Places
<1>8. /\ told \in Payments(Nothing) /\ told.sum = Nothing /\ told.plain = 0 /\ told.elapsed = 0
      /\ told.first = 0 /\ told.best = 0 /\ ~ told.success
  BY <1>2 DEF Init, Payments
<1>9. TypeOK
  <2>1. world \in Views /\ call \in ClientCalls(call.sum) /\ told \in Payments(told.sum)
    BY <1>1, <1>3, <1>7, <1>8
  <2>2. state \in States /\ faults \in 0 .. MaxFaults /\ episodes \in 0 .. MaxEpisodes
    BY <1>1, <1>2 DEF States
  <2>3. raised \in BOOLEAN
    BY <1>1
  <2>4. QED  BY <1>1, <1>6, <2>1, <2>2, <2>3 DEF TypeOK
<1>10. Standing(world, env, call, told, state, faults)
  <2>1. /\ Fresh(0).tick = 0 /\ Fresh(0).down = {}
    BY DEF Fresh
  <2>2. Cached(world, env, call)
    BY <1>1, <1>4 DEF Cached
  <2>3. Noted(world, env, call)
    BY <1>1, <1>4, <1>7, <2>1 DEF Noted
  <2>4. Punctual(env, call)
    BY <1>4, <2>1 DEF Punctual
  <2>5. Budgeted(env, call, state) /\ Windowed(env, call, told, state, faults)
    BY <1>1 DEF Budgeted, Windowed
  <2>6. env.account.high = 0 /\ env.account.paid = 0
    BY DEF Init, Opened
  <2>7. Balanced(env, call, told, state)
    <3>1. Skilled(call, call.plain) = 0 /\ Skilled(call, call.spent) = 0
      BY <1>1, <1>7 DEF Skilled
    <3>2. HighOf(env.account) = 0 /\ Cost(0 + 0) = 0
      BY <2>6 DEF HighOf, Cost
    <3>3. Least(Cap, 0 - 0) = 0
      BY RewardAssumption DEF Least
    <3>4. QED  BY <1>1, <1>8, <2>6, <3>1, <3>2, <3>3, BalancedIs
  <2>8. QED  BY <2>2, <2>3, <2>4, <2>5, <2>7 DEF Standing
<1>11. QED  BY <1>1, <1>2, <1>4, <1>7, <1>9, <1>10 DEF IInv, Placed

LEMMA NextOK == IInv /\ [Next]_vars => IInv'
<1> SUFFICES ASSUME IInv, [Next]_vars
             PROVE  IInv'
  OBVIOUS
<1>1. CASE Reset
  BY <1>1, ResetOK
<1>2. CASE Act \/ Skill \/ WaitFor \/ Finish \/ BridgeFinish
  BY <1>2, ClientOK
<1>3. CASE FinishUnmeasured
  BY <1>3, FinishUnmeasuredOK
<1>4. CASE StepSettles \/ StepRefused \/ StepFails
  BY <1>4, StepSettlesOK, StepRefusedOK, StepFailsOK
<1>5. CASE Observes \/ ReadsTruth \/ Disrupts
  BY <1>5, ObservesOK, ReadsTruthOK, DisruptsOK
<1>6. CASE DisruptRaises \/ ReadRaises \/ ResetRaises
  BY <1>6, RaisesOK
<1>7. CASE ResetsWorld \/ Begins
  BY <1>7, ResetsWorldOK, BeginsOK
<1>8. CASE UNCHANGED vars
  <2>1. /\ task' = task /\ world' = world /\ env' = env /\ call' = call /\ told' = told
        /\ state' = state /\ raised' = raised /\ faults' = faults /\ episodes' = episodes
    BY <1>8 DEF vars
  <2>2. TypeOK'
    BY <2>1, CallsAre, TypeNext DEF IInv, TypeOK
  <2>3. QED  BY <2>1, <2>2, InvNext DEF IInv
<1>9. QED  BY <1>1, <1>2, <1>3, <1>4, <1>5, <1>6, <1>7, <1>8 DEF Next, Client, Session

(* The invariant: between requests and between calls, for any tasks, the   *)
(* view, the record, the budgets, the window and the accounts stand.       *)
THEOREM Invariant == Spec => []IInv
<1>1. QED  BY InitOK, NextOK, PTL DEF Spec

(* Every variable of the environment, its world and its client is typed.   *)
THEOREM TypeCorrect == Spec => []TypeOK
<1>1. IInv => TypeOK
  BY DEF IInv
<1>2. QED  BY <1>1, Invariant, PTL

(* What a client was told about stands as the invariant says.              *)
LEMMA SettledStands ==
  ASSUME IInv, Settled
  PROVE  TypeOK /\ call = Idle /\ call.at = "idle" /\ Standing(world, env, call, told, state, faults)
BY CallsAre, IdleOK DEF Settled

(* The view a client chooses on and is scored by (FactorioEnv._view) is    *)
(* the world as it is, whatever was refused or disrupted on the way.       *)
THEOREM ViewIsWorld == Spec => []CacheFollowsWorld
<1>1. ASSUME IInv, Settled
      PROVE  env.view = world
  <2>1. Standing(world, env, call, told, state, faults) /\ call.at = "idle"
        /\ env.view \in Views /\ world \in Views
    BY <1>1, SettledStands, CallsAre, EnvFields
  <2>2. /\ env.view.tick = world.tick /\ env.view.level = world.level
        /\ env.view.made = world.made /\ env.view.down = world.down
    BY <2>1 DEF Standing, Cached
  <2>3. QED  BY <2>1, <2>2 DEF Views
<1>2. IInv => CacheFollowsWorld
  BY <1>1 DEF CacheFollowsWorld
<1>3. QED  BY <1>2, Invariant, PTL

(* Every disruption whose tick the world has passed was asked for, and the *)
(* record (FactorioEnv.disruption_log) says what became of it.             *)
THEOREM DisruptionsKept == Spec => []DisruptionsAccounted
<1>1. ASSUME IInv, Settled, NEW i \in Disruptions
      PROVE  /\ task.disruptAt[i] <= world.tick /\ world.tick > 0 => env.log[i] # "none"
             /\ env.log[i] = "applied" <=> i \in world.down
  <2>1. Standing(world, env, call, told, state, faults) /\ call.at = "idle"
    BY <1>1, SettledStands
  <2>2. env.view.tick = world.tick /\ Noted(world, env, call) /\ Punctual(env, call)
    BY <2>1 DEF Standing, Cached
  <2>3. task.disruptAt[i] <= world.tick /\ world.tick > 0 => i \in env.applied
    BY <2>1, <2>2 DEF Punctual
  <2>4. QED  BY <2>1, <2>2, <2>3 DEF Noted
<1>2. IInv => DisruptionsAccounted
  BY <1>1 DEF DisruptionsAccounted
<1>3. QED  BY <1>2, Invariant, PTL

(* An episode of a task with a verification window ends measured and is    *)
(* paid the measured score; no call buys steps beyond the budget.          *)
THEOREM MeasuredAtTheEnd == Spec => []EndsMeasured
<1>1. ASSUME IInv, Settled, task.verify > 0, state # "live"
      PROVE  /\ state = "terminated" /\ env.window.ran
             /\ told.plain = Least(env.window.output, task.target)
             /\ told.success <=> env.window.output >= task.target
             /\ env.window.end - env.window.start <= task.verify
             /\ faults = 0 => env.window.end - env.window.start = task.verify
             /\ env.window.end < task.ticks + DecisionTicks
  <2>1. state \in {"terminated", "truncated"}
    BY <1>1 DEF Settled
  <2>2. Windowed(env, call, told, state, faults)
    BY <1>1, SettledStands DEF Standing
  <2>3. Spans(env.window.end - env.window.start, faults)
    BY <1>1, <2>1, <2>2 DEF Windowed
  <2>4. QED  BY <1>1, <2>1, <2>2, <2>3 DEF Windowed, Spans
<1>2. IInv => (~ raised => env.steps <= task.steps)
  BY DEF IInv
<1>3. IInv => EndsMeasured
  BY <1>1, <1>2 DEF EndsMeasured
<1>4. QED  BY <1>3, Invariant, PTL

(* What the primitives were paid, undiscounted.                            *)
LEMMA PaidPlainly ==
  ASSUME IInv, Settled, PathHolds
  PROVE  told.plain = (IF told.success THEN Sparse ELSE 0)
           + (IF "high" \in task.kinds THEN Least(Cap, told.best - told.first) ELSE 0)
           - (IF "cost" \in task.kinds THEN told.elapsed ELSE 0)
<1>1. TypeOK /\ call = Idle /\ Balanced(env, call, told, state)
  BY SettledStands DEF Standing
<1>2. Skilled(call, call.plain) = 0 /\ Skilled(call, call.spent) = 0
  BY <1>1, IdleOK DEF Skilled
<1>3. /\ told.plain + 0 = (IF told.success THEN Sparse ELSE 0) + HighOf(env.account)
                            - Cost(told.elapsed + 0)
      /\ "high" \in task.kinds => env.account.paid = Least(Cap, told.best - told.first)
  BY <1>1, <1>2, BalancedIs
<1>4. told.plain + 0 = told.plain /\ told.elapsed + 0 = told.elapsed
  BY <1>1, PaymentFields
<1>5. HighOf(env.account)
        = IF "high" \in task.kinds THEN Least(Cap, told.best - told.first) ELSE 0
  BY <1>3 DEF HighOf
<1>6. Cost(told.elapsed) = IF "cost" \in task.kinds THEN told.elapsed ELSE 0
  BY DEF Cost
<1>7. QED  BY <1>3, <1>4, <1>5, <1>6

-----------------------------------------------------------------------------
(* Powers of two, which weigh the shaping.  The library has no theorem of  *)
(* ^ but that a set of n elements has 2 ^ n subsets; the sums of exponents *)
(* follow by the smallest counterexample.                                  *)
LEMMA PowerZero == 2 ^ 0 = 1
<1>1. IsFiniteSet({}) /\ Cardinality({}) = 0  BY FS_EmptySet
<1>2. Cardinality(SUBSET {}) = 2 ^ Cardinality({})  BY <1>1, FS_SUBSET
<1>3. SUBSET {} = {{}}  OBVIOUS
<1>4. Cardinality({{}}) = 1  BY FS_Singleton
<1>q. QED  BY <1>1, <1>2, <1>3, <1>4

LEMMA PowerCounts ==
  ASSUME NEW n \in Nat
  PROVE  /\ IsFiniteSet(1 .. n) /\ IsFiniteSet(SUBSET (1 .. n))
         /\ Cardinality(SUBSET (1 .. n)) = 2 ^ n
<1>1. IsFiniteSet(1 .. n) /\ Cardinality(1 .. n) = n  BY FS_Interval
<1>2. IsFiniteSet(SUBSET (1 .. n)) /\ Cardinality(SUBSET (1 .. n)) = 2 ^ Cardinality(1 .. n)
  BY <1>1, FS_SUBSET
<1>q. QED  BY <1>1, <1>2

LEMMA PowerDoubles ==
  ASSUME NEW n \in Nat
  PROVE  2 ^ n \in Nat \ {0} /\ 2 ^ (n + 1) = 2 * 2 ^ n
<1> DEFINE S == SUBSET (1 .. n)  T == {s \cup {n + 1} : s \in S}
           f == [s \in S |-> s \cup {n + 1}]
<1>1. IsFiniteSet(S) /\ Cardinality(S) = 2 ^ n  BY PowerCounts
<1>2. f \in Bijection(S, T)
  <2>1. \A s \in S : n + 1 \notin s  OBVIOUS
  <2>2. f \in [S -> T]  OBVIOUS
  <2>4. ASSUME NEW a \in S, NEW b \in S, f[a] = f[b]  PROVE a = b
    <3>1. a \cup {n + 1} = b \cup {n + 1}  BY <2>4
    <3>2. a = (a \cup {n + 1}) \ {n + 1} /\ b = (b \cup {n + 1}) \ {n + 1}  BY <2>1
    <3>q. QED  BY <3>1, <3>2
  <2>5. IsInjective(f)  BY <2>4 DEF IsInjective
  <2>3. f \in Surjection(S, T)  BY DEF Surjection
  <2>q. QED  BY <2>2, <2>3, <2>5 DEF Bijection, Injection
<1>3. IsFiniteSet(T) /\ Cardinality(T) = Cardinality(S)
  <2>1. ExistsBijection(S, T)  BY <1>2 DEF ExistsBijection
  <2>q. QED  BY <1>1, <2>1, FS_Bijection
<1>4. S \cap T = {}
  <2>1. \A s \in S : n + 1 \notin s  OBVIOUS
  <2>q. QED  BY <2>1
<1>5. SUBSET (1 .. n + 1) = S \cup T
  <2>1. 1 .. n + 1 = (1 .. n) \cup {n + 1}  OBVIOUS
  <2>2. ASSUME NEW x \in SUBSET (1 .. n + 1) PROVE x \in S \cup T
    <3>1. CASE n + 1 \in x
      <4>1. x \ {n + 1} \in S /\ x = (x \ {n + 1}) \cup {n + 1}  BY <3>1, <2>1
      <4>q. QED  BY <4>1
    <3>2. CASE n + 1 \notin x  BY <3>2, <2>1
    <3>q. QED  BY <3>1, <3>2
  <2>3. ASSUME NEW x \in S \cup T PROVE x \in SUBSET (1 .. n + 1)  BY <2>1
  <2>q. QED  BY <2>2, <2>3
<1>6. Cardinality(S \cup T) = Cardinality(S) + Cardinality(T) - Cardinality(S \cap T)
  <2> HIDE DEF S, T
  <2>q. QED  BY <1>1, <1>3, FS_Union
<1>7. Cardinality({}) = 0  BY FS_EmptySet
<1>8. Cardinality(SUBSET (1 .. n + 1)) = 2 ^ (n + 1)
  <2>1. n + 1 \in Nat  OBVIOUS
  <2>q. QED  BY <2>1, PowerCounts
<1>9. Cardinality(S) \in Nat /\ Cardinality(S) # 0
  BY <1>1, FS_CardinalityType, FS_EmptySet
<1> HIDE DEF S, T, f
<1>10. Cardinality(S \cup T) = 2 * Cardinality(S)
  <2>1. Cardinality(S \cap T) = 0  BY <1>4, <1>7, Zenon
  <2>2. ASSUME NEW a \in Nat, NEW b, NEW c, NEW d, b = a, c = 0, d = a + b - c  PROVE d = 2 * a
    BY <2>2
  <2>q. QED  BY <1>3, <1>6, <1>9, <2>1, <2>2, Zenon
<1>11. 2 ^ (n + 1) = 2 * Cardinality(S)  BY <1>5, <1>8, <1>10, Zenon
<1>q. QED  BY <1>1, <1>9, <1>11, Zenon

LEMMA PowerAdds ==
  ASSUME NEW a \in Nat, NEW b \in Nat
  PROVE  2 ^ (a + b) = 2 ^ a * 2 ^ b
<1> DEFINE T == {i \in Nat : 2 ^ (i + b) # 2 ^ i * 2 ^ b}
<1> SUFFICES ASSUME T # {}  PROVE FALSE
  OBVIOUS
<1>1. PICK x \in T : \A y \in T : ~ (<<y, x>> \in OpToRel(<, Nat))
  <2>1. T \subseteq Nat  OBVIOUS
  <2>q. QED  BY <2>1, NatLessThanWellFounded, WFMin
<1>2. x \in Nat /\ 2 ^ (x + b) # 2 ^ x * 2 ^ b
  OBVIOUS
<1>3. CASE x = 0
  <2>1. 2 ^ (x + b) = 2 ^ b  BY <1>3
  <2>2. 2 ^ b \in Nat  BY PowerDoubles
  <2>3. 2 ^ x = 1  BY <1>3, PowerZero
  <2>q. QED  BY <1>2, <2>1, <2>2, <2>3
<1>4. CASE x # 0
  <2>1. x - 1 \in Nat /\ x - 1 + 1 = x /\ x - 1 + b \in Nat /\ x - 1 + b + 1 = x + b
    BY <1>2, <1>4
  <2>2. x - 1 \notin T
    <3>1. <<x - 1, x>> \in Nat \X Nat /\ <<x - 1, x>>[1] < <<x - 1, x>>[2]
      BY <1>2, <2>1
    <3>2. <<x - 1, x>> \in OpToRel(<, Nat)  BY <3>1 DEF OpToRel
    <3>q. QED  BY <1>1, <3>2
  <2>3. 2 ^ (x - 1 + b) = 2 ^ (x - 1) * 2 ^ b
    BY <2>1, <2>2
  <2>4. 2 ^ x = 2 * 2 ^ (x - 1) /\ 2 ^ (x - 1) \in Nat
    BY <2>1, PowerDoubles
  <2>5. 2 ^ (x + b) = 2 * 2 ^ (x - 1 + b)
    BY <2>1, PowerDoubles
  <2>6. 2 ^ b \in Nat  BY PowerDoubles
  <2>7. ASSUME NEW p \in Nat, NEW q \in Nat  PROVE 2 * (p * q) = (2 * p) * q
    OBVIOUS
  <2>q. QED  BY <1>2, <2>3, <2>4, <2>5, <2>6, <2>7
<1>q. QED  BY <1>3, <1>4

(* The weight of what is paid i primitives in.                             *)
LEMMA WeightIs ==
  ASSUME TypeOK, NEW i \in Nat, i <= task.steps
  PROVE  /\ Weight(i) \in Nat \ {0}
         /\ i < task.steps => Weight(i) = 2 * Weight(i + 1)
<1>1. task.steps - i \in Nat  BY TaskFacts
<1>2. Weight(i) \in Nat \ {0}  BY <1>1, PowerDoubles DEF Weight
<1>3. ASSUME i < task.steps  PROVE Weight(i) = 2 * Weight(i + 1)
  <2>1. task.steps - (i + 1) \in Nat /\ task.steps - (i + 1) + 1 = task.steps - i
    BY <1>3, TaskFacts
  <2>2. 2 ^ (task.steps - (i + 1) + 1) = 2 * 2 ^ (task.steps - (i + 1))
    BY <2>1, PowerDoubles
  <2>q. QED  BY <2>1, <2>2 DEF Weight
<1>q. QED  BY <1>2, <1>3

LEMMA WeightShifts ==
  ASSUME TypeOK, NEW i \in Nat, NEW k \in Nat, k + i <= task.steps
  PROVE  2 ^ k \in Nat \ {0} /\ Weight(i) = 2 ^ k * Weight(k + i)
<1>1. task.steps - (k + i) \in Nat /\ k + (task.steps - (k + i)) = task.steps - i
  BY TaskFacts
<1>2. 2 ^ (k + (task.steps - (k + i))) = 2 ^ k * 2 ^ (task.steps - (k + i))
  BY <1>1, PowerAdds
<1>q. QED  BY <1>1, <1>2, PowerDoubles DEF Weight

LEMMA ExactQuotient ==
  ASSUME NEW p \in Nat \ {0}, NEW x \in Int
  PROVE  (p * x) \div p = x
OBVIOUS

-----------------------------------------------------------------------------
(* What the shaping sums to.  A potential of one is worth Units(i) when i  *)
(* primitives have been paid.  What a skill has gathered is discounted     *)
(* from its own start: 2 ^ elapsed times what it will add to the client's  *)
(* sum, which is why the division of Told is exact.                        *)
Units(i) == 2 * Weight(i)

Telescoped(e, c, t, s) ==
  /\ c.op # "skill" => c.spent = 0
  /\ t.elapsed + c.spent + (IF c.op = "none" THEN 0 ELSE 1) <= e.steps
  /\ s = "terminated" => t.sum.shape = - (Units(0) * t.first)
  /\ s # "terminated" =>
       /\ \E q \in Int :
            /\ Skilled(c, c.sum.shape) = 2 ^ t.elapsed * q
            /\ t.sum.shape + q = Units(t.elapsed + c.spent) * e.account.potential - Units(0) * t.first
       /\ c.op = "none" => e.account.potential = e.view.level
  /\ t.sum.shape \in Int

(* A wait keeps the payout of its last interval alone, so nothing is       *)
(* claimed where a client may wait, which is in no task with a potential.  *)
Shaping == "potential" \in task.kinds /\ "wait" \notin task.calls

SInv ==
  Shaping /\ ~ raised /\ call.op # "reset" /\ state # "excluded" =>
    Telescoped(env, call, told, state)

(* What is gathered with one more payment.                                 *)
LEMMA SumsGathered ==
  ASSUME TypeOK, NEW c, CallOK(c), NEW paid
  PROVE  LET sum == Gathered(c, paid).sum IN
         /\ sum.plain = Skilled(c, c.sum.plain) + Weight(Before(c)) * paid.plain
         /\ sum.shape = Skilled(c, c.sum.shape) + Weight(Before(c)) * paid.shape
<1> DEFINE so == IF c.op = "skill" THEN c ELSE Idle
           w == Weight(Before(c))
           sum == [plain |-> so.sum.plain + w * paid.plain,
                   shape |-> so.sum.shape + w * paid.shape, due |-> 0]
           g == [c EXCEPT !.spent = @ + 1, !.plain = so.plain + paid.plain, !.sum = sum]
<1>1. g = Gathered(c, paid)
  BY DEF Gathered, GatheredAt
<1>2. so.sum.plain = Skilled(c, c.sum.plain) /\ so.sum.shape = Skilled(c, c.sum.shape)
  BY IdleOK DEF Skilled, Nothing
<1>3. sum.plain = so.sum.plain + w * paid.plain /\ sum.shape = so.sum.shape + w * paid.shape
  OBVIOUS
<1> HIDE DEF sum, so, w
<1>4. g.sum = sum
  BY DEF CallOK, ClientCalls
<1> HIDE DEF g
<1>q. QED  BY <1>1, <1>2, <1>3, <1>4 DEF w

(* What the client has added up when a transition is told.                 *)
Rise(l) == Least(Cap, Most(told.best, l) - told.first) - Least(Cap, told.best - told.first)

LEMMA SumsSeen ==
  ASSUME TypeOK, NEW l, NEW c
  PROVE  LET t == Seen(l, c) IN
         /\ t.sum.plain = told.sum.plain /\ t.sum.shape = told.sum.shape
         /\ t.sum.due = told.sum.due + Weight(told.elapsed + Before(c)) * Rise(l)
<1> DEFINE best == Most(told.best, l)
           sum == [plain |-> told.sum.plain, shape |-> told.sum.shape,
                   due |-> told.sum.due + Weight(told.elapsed + Before(c)) * Rise(l)]
           t == [told EXCEPT !.best = best, !.sum = sum]
<1>1. t = Seen(l, c)
  BY DEF Seen, Rise
<1>2. /\ sum.plain = told.sum.plain /\ sum.shape = told.sum.shape
      /\ sum.due = told.sum.due + Weight(told.elapsed + Before(c)) * Rise(l)
  OBVIOUS
<1> HIDE DEF sum, best
<1>3. t.sum = sum
  BY PaymentFields DEF Payments
<1> HIDE DEF t
<1>q. QED  BY <1>1, <1>2, <1>3

Added(x, y) == x + y \div 2 ^ told.elapsed

LEMMA SumsTold ==
  ASSUME TypeOK, NEW e, EnvOK(e), NEW c, NEW g, NEW over, NEW success,
         NEW m, m = Told(e, g, Seen(e.view.level, c), over, success)
  PROVE  /\ m.told.sum.plain = Added(told.sum.plain, g.sum.plain)
         /\ m.told.sum.shape = Added(told.sum.shape, g.sum.shape)
         /\ m.told.sum.due = Seen(e.view.level, c).sum.due
<1> DEFINE seen == Seen(e.view.level, c)
           lasted == IF g.op = "skill" THEN g.spent ELSE 1
           sum == [plain |-> seen.sum.plain + g.sum.plain \div 2 ^ seen.elapsed,
                   shape |-> seen.sum.shape + g.sum.shape \div 2 ^ seen.elapsed,
                   due |-> seen.sum.due]
           t == [seen EXCEPT !.plain = seen.plain + g.plain, !.sum = sum,
                             !.elapsed = seen.elapsed + lasted, !.success = success]
<1>1. m.told = t
  BY DEF Told, Moment
<1>2. /\ sum.plain = seen.sum.plain + g.sum.plain \div 2 ^ seen.elapsed
      /\ sum.shape = seen.sum.shape + g.sum.shape \div 2 ^ seen.elapsed
      /\ sum.due = seen.sum.due
  OBVIOUS
<1>3. seen \in Payments(seen.sum) /\ seen.elapsed = told.elapsed
  BY SeenOK
<1>4. /\ seen.sum.plain = told.sum.plain /\ seen.sum.shape = told.sum.shape
      /\ seen.sum.due = told.sum.due + Weight(told.elapsed + Before(c)) * Rise(e.view.level)
  BY SumsSeen
<1> HIDE DEF sum, lasted, seen
<1>5. t.sum = sum
  BY <1>3 DEF Payments
<1> HIDE DEF t
<1>q. QED  BY <1>1, <1>2, <1>3, <1>4, <1>5 DEF seen, Added

LEMMA GatheredShape ==
  ASSUME TypeOK, Shaping, NEW e, EnvOK(e), NEW c, CallOK(c), c.op # "none",
         e.steps <= task.steps, NEW s, s # "terminated", Telescoped(e, c, told, s),
         NEW terminated \in BOOLEAN
  PROVE  LET g == Gathered(c, Paying(e, terminated))
             worth == IF terminated THEN 0 ELSE e.view.level
         IN \E q \in Int :
              /\ g.sum.shape = 2 ^ told.elapsed * q
              /\ told.sum.shape + q = Units(told.elapsed + c.spent + 1) * worth - Units(0) * told.first
<1> DEFINE pay == Paying(e, terminated)
           g == Gathered(c, pay)
           worth == IF terminated THEN 0 ELSE e.view.level
           E == told.elapsed
           k == c.spent
           W == Weight(E + k)
           a == e.account.potential
<1>1. PICK q \in Int :
        /\ Skilled(c, c.sum.shape) = 2 ^ E * q
        /\ told.sum.shape + q = Units(E + k) * a - Units(0) * told.first
  BY DEF Telescoped
<1>2. /\ E \in Nat /\ k \in Nat /\ a \in Nat /\ worth \in Nat /\ told.first \in Nat
      /\ E + k + 1 <= task.steps
  <2>1. E \in Nat /\ k \in Nat /\ a \in Nat /\ e.view.level \in Nat /\ told.first \in Nat
        /\ e.steps \in Nat
    BY PaymentFields, CallFields, EnvFields, TaskFacts
  <2>2. E + k + 1 <= e.steps
    BY DEF Telescoped
  <2>q. QED  BY <2>1, <2>2, TaskFacts
<1>3. pay.shape = worth - 2 * a
  BY DEF Paying, Accounted, Shaped, Shaping
<1>4. g.sum.shape = Skilled(c, c.sum.shape) + Weight(k) * pay.shape
  <2>1. Before(c) = k
    BY DEF Before, Telescoped
  <2>q. QED  BY <2>1, SumsGathered
<1>5. /\ 2 ^ E \in Nat \ {0} /\ Weight(k) = 2 ^ E * W /\ W \in Nat /\ Units(E + k) = 2 * W
      /\ Units(E + k + 1) = W
  <2>1. E + k <= task.steps /\ E + k < task.steps /\ E + k \in Nat
    BY <1>2, TaskFacts
  <2>2. 2 ^ E \in Nat \ {0} /\ Weight(k) = 2 ^ E * W
    BY <1>2, <2>1, WeightShifts
  <2>3. W \in Nat /\ W = 2 * Weight(E + k + 1)
    BY <2>1, WeightIs
  <2>q. QED  BY <2>2, <2>3 DEF Units
<1> HIDE DEF pay, g, worth, E, k, W, a
<1> DEFINE r == q + W * (worth - 2 * a)
<1>6. r \in Int
  BY <1>1, <1>2, <1>5
<1>7. g.sum.shape = 2 ^ E * r
  <2>1. ASSUME NEW x \in Nat, NEW y \in Int, NEW z \in Int, NEW w \in Nat
        PROVE  x * y + (x * w) * z = x * (y + w * z)
    <3>1. (x * w) * z = x * (w * z)
      OBVIOUS
    <3>2. w * z \in Int
      OBVIOUS
    <3> DEFINE v == w * z
    <3> HIDE DEF v
    <3>3. v \in Int => x * y + x * v = x * (y + v)
      OBVIOUS
    <3>q. QED  BY <3>1, <3>2, <3>3 DEF v
  <2>2. worth - 2 * a \in Int
    BY <1>2
  <2>q. QED  BY <1>1, <1>3, <1>4, <1>5, <2>1, <2>2
<1>8. told.sum.shape + r = W * worth - Units(0) * told.first
  <2>1. told.sum.shape \in Int
    BY DEF Telescoped
  <2>2. Units(0) * told.first \in Int
    <3>1. Units(0) \in Nat
      BY WeightIs, TaskFacts DEF Units
    <3>q. QED  BY <1>2, <3>1
  <2> DEFINE f == Units(0) * told.first
             x == W * worth
             y == W * a
  <2>3. W * (worth - 2 * a) = x - 2 * y /\ (2 * W) * a = 2 * y /\ x \in Int /\ y \in Int
    <3>1. ASSUME NEW w \in Nat, NEW b \in Nat, NEW l \in Nat
          PROVE  w * (l - 2 * b) = w * l - 2 * (w * b) /\ (2 * w) * b = 2 * (w * b)
                 /\ w * l \in Int /\ w * b \in Int
      OBVIOUS
    <3>q. QED  BY <1>2, <1>5, <3>1
  <2> HIDE DEF x, y, f
  <2>4. told.sum.shape + q = 2 * y - f
    BY <1>1, <1>5, <2>3 DEF f
  <2>5. told.sum.shape + r = x - f
    BY <1>1, <2>1, <2>2, <2>3, <2>4 DEF f
  <2>q. QED  BY <2>5 DEF x, f
<1>q. QED  BY <1>5, <1>6, <1>7, <1>8 DEF pay, g, worth, E, k

(* The client's sum after a transition, and after a primitive of a skill.  *)
LEMMA AnsweredTelescopes ==
  ASSUME TypeOK, Shaping, NEW e, EnvOK(e), NEW c, CallOK(c), c.op \notin {"none", "wait"},
         e.steps <= task.steps, NEW s, s # "terminated", Telescoped(e, c, told, s),
         NEW terminated \in BOOLEAN, NEW over \in States, over = "terminated" <=> terminated,
         NEW f, EnvOK(f), f.steps = e.steps, f.view = e.view, f.account = Paying(e, terminated).account,
         NEW success \in BOOLEAN,
         NEW m \in Answered(f, c, Paying(e, terminated), over, success), state # "terminated"
  PROVE  Telescoped(m.env, m.call, m.told, m.state)
<1> DEFINE pay == Paying(e, terminated)
           g == Gathered(c, pay)
           worth == IF terminated THEN 0 ELSE e.view.level
           E == told.elapsed
           k == c.spent
<1>1. PICK q \in Int :
        /\ g.sum.shape = 2 ^ E * q
        /\ told.sum.shape + q = Units(E + k + 1) * worth - Units(0) * told.first
  BY GatheredShape
<1>2. /\ pay.plain \in Int /\ f.account.potential = e.view.level
      /\ CallOK(g) /\ g.op = c.op /\ g.spent = k + 1
  <2>1. pay.plain \in Int
    BY CreditedOK
  <2>2. pay.account.potential = e.view.level
    BY DEF Paying, Accounted, Shaping
  <2>q. QED  BY <2>1, <2>2, GatheredOK
<1>3. /\ E \in Nat /\ k \in Nat /\ told.first \in Nat /\ told.sum.shape \in Int /\ e.steps \in Nat
      /\ E + k + 1 <= e.steps /\ (c.op # "skill" => k = 0) /\ Units(0) \in Nat
      /\ e.view.level \in Nat
  <2>1. Units(0) \in Nat
    BY WeightIs, TaskFacts DEF Units
  <2>q. QED  BY <2>1, PaymentFields, CallFields, EnvFields, TaskFacts DEF Telescoped
<1>4. 2 ^ E \in Nat \ {0}
  BY <1>3, PowerDoubles
<1> HIDE DEF pay, g, worth
<1>5. CASE m = Told(f, g, Seen(f.view.level, c), over, success)
  <2> DEFINE t == m.told
             lasted == k + 1
             shape == told.sum.shape + q
  <2>1. EndsWith(m, f, c, pay.plain, over, success)
    BY <1>2, <1>5, ToldOK DEF g
  <2>2. t.sum.shape = Added(told.sum.shape, g.sum.shape)
    BY <1>5, SumsTold
  <2>3. t.sum.shape = shape
    BY <1>1, <1>3, <1>4, <2>2, ExactQuotient DEF Added
  <2>4. t.sum.shape = shape /\ t.elapsed = E + lasted /\ t.first = told.first
    BY <1>3, <2>1, <2>3 DEF EndsWith
  <2>5. m.env = f /\ m.call = Idle /\ m.told = t /\ m.state = over
    BY <2>1 DEF EndsWith
  <2> HIDE DEF t
  <2>6. Idle.op = "none" /\ Idle.spent = 0 /\ Skilled(Idle, Idle.sum.shape) = 0
    BY IdleOK DEF Skilled
  <2>7. t.sum.shape \in Int /\ t.elapsed \in Nat /\ t.elapsed + 0 = E + k + 1
    BY <1>1, <1>3, <2>4
  <2>8. over = "terminated" => t.sum.shape = - (Units(0) * t.first)
    <3>1. ASSUME over = "terminated"  PROVE t.sum.shape = Units(E + k + 1) * 0 - Units(0) * told.first
      BY <1>1, <2>3, <2>4, <3>1 DEF worth
    <3>2. ASSUME NEW u \in Int  PROVE u * 0 = 0
      OBVIOUS
    <3>3. over = "terminated" => Units(E + k + 1) \in Int
      <4>1. E + k + 1 \in Nat /\ E + k + 1 <= task.steps
        BY <1>3, TaskFacts
      <4>q. QED  BY <4>1, WeightIs DEF Units
    <3>q. QED  BY <1>3, <2>4, <3>1, <3>2, <3>3
  <2>9. over # "terminated" =>
          /\ \E r \in Int :
               /\ Skilled(Idle, Idle.sum.shape) = 2 ^ t.elapsed * r
               /\ t.sum.shape + r = Units(t.elapsed + Idle.spent) * f.account.potential
                                  - Units(0) * t.first
          /\ f.account.potential = f.view.level
    <3>1. ASSUME over # "terminated"
          PROVE  t.sum.shape + 0 = Units(t.elapsed + Idle.spent) * f.account.potential
                                  - Units(0) * t.first
      BY <1>1, <1>2, <2>3, <2>4, <2>6, <2>7, <3>1 DEF worth
    <3>2. 2 ^ t.elapsed * 0 = 0
      BY <2>7, PowerDoubles
    <3>q. QED  BY <1>2, <2>6, <3>1, <3>2
  <2>10. t.elapsed + Idle.spent + 0 <= f.steps
    BY <1>3, <2>6, <2>7
  <2>q. QED  BY <2>5, <2>6, <2>7, <2>8, <2>9, <2>10 DEF Telescoped
<1>6. CASE /\ GoesOn(g, over)
           /\ m = Moment([f EXCEPT !.steps = @ + 1],
               [g EXCEPT !.at = "step", !.waits = IF @ > 0 THEN @ - 1 ELSE 0],
               Seen(f.view.level, c), state)
  <2> DEFINE h == [f EXCEPT !.steps = f.steps + 1]
             d == [g EXCEPT !.at = "step", !.waits = IF @ > 0 THEN @ - 1 ELSE 0]
             t == Seen(f.view.level, c)
  <2>1. m.env = h /\ m.call = d /\ m.told = t /\ m.state = state
    BY <1>6 DEF Moment
  <2>2. d.op = g.op /\ d.spent = g.spent /\ d.sum = g.sum
    BY <1>2 DEF CallOK, ClientCalls
  <2>3. h.steps = f.steps + 1 /\ h.account = f.account /\ h.view = f.view
    BY DEF EnvOK, Environments
  <2>4. t.sum.shape = told.sum.shape /\ t.elapsed = E /\ t.first = told.first
    BY SeenOK, SumsSeen
  <2>5. c.op = "skill" /\ over = "live"
    BY <1>2, <1>6 DEF GoesOn
  <2> HIDE DEF h, d, t
  <2>6. Skilled(d, d.sum.shape) = 2 ^ t.elapsed * q
    BY <1>1, <1>2, <2>2, <2>4, <2>5 DEF Skilled
  <2>7. t.sum.shape + q = Units(t.elapsed + d.spent) * h.account.potential - Units(0) * t.first
    <3>1. t.elapsed + d.spent = E + k + 1
      BY <1>2, <1>3, <2>2, <2>4
    <3>q. QED  BY <1>1, <1>2, <2>3, <2>4, <2>5, <3>1 DEF worth
  <2>8. t.elapsed + d.spent + 1 <= h.steps
    BY <1>2, <1>3, <2>2, <2>3, <2>4
  <2>q. QED  BY <1>1, <1>2, <1>3, <2>1, <2>2, <2>4, <2>5, <2>6, <2>7, <2>8 DEF Telescoped
<1>q. QED  BY <1>5, <1>6 DEF Answered, pay, g

(* A step adopted, with no window to run: scored, or a disruption is due.  *)
LEMMA AdoptedTelescopes ==
  ASSUME TypeOK, Shaping, NEW e, EnvOK(e), NEW c, CallOK(c), UnderWay(c),
         e.steps <= task.steps, Telescoped(e, c, told, "live"), state = "live",
         NEW m \in Adopted(e, c)
  PROVE  Telescoped(m.env, m.call, m.told, m.state)
<1>1. task.verify = 0 /\ ~ c.inside /\ c.op \notin {"none", "wait"}
  BY TaskFacts DEF Shaping, UnderWay
<1>2. CASE Due(e) # {}
  <2> DEFINE i == Min(Due(e))
             f == [e EXCEPT !.applied = @ \cup {i}]
             d == [c EXCEPT !.at = "disrupt", !.which = i]
  <2>1. m.env = f /\ m.call = d /\ m.told = told /\ m.state = state
    BY <1>2 DEF Adopted, Moment
  <2>2. f.steps = e.steps /\ f.account = e.account /\ f.view = e.view
    BY DEF EnvOK, Environments
  <2>3. d.op = c.op /\ d.spent = c.spent /\ d.sum = c.sum
    BY DEF CallOK, ClientCalls
  <2> HIDE DEF f, d
  <2>q. QED  BY <1>1, <2>1, <2>2, <2>3 DEF Telescoped, Skilled
<1>3. CASE Due(e) = {}
  <2> DEFINE succeeded == Succeeded(e)
             pay == Paying(e, succeeded)
             f == [e EXCEPT !.account = pay.account]
             out == ~ succeeded /\ OutOfBudget(e)
             over == CASE succeeded -> "terminated" [] out -> "truncated" [] OTHER -> "live"
  <2>1. m \in Scored(e, c)
    BY <1>1, <1>3 DEF Adopted
  <2>2. m \in Answered(f, c, pay, over, succeeded)
    BY <1>1, <2>1 DEF Scored, Paying
  <2>3. succeeded \in BOOLEAN /\ over \in States /\ (over = "terminated" <=> succeeded)
    BY DEF Succeeded, States
  <2>4. EnvOK(f) /\ f.view = e.view /\ f.steps = e.steps /\ f.account = pay.account
    BY <2>3, CreditedOK DEF Credited
  <2>5. state # "terminated"
    OBVIOUS
  <2> HIDE DEF f, over, out, succeeded
  <2>q. QED  BY <1>1, <2>2, <2>3, <2>4, <2>5, AnsweredTelescopes DEF pay, succeeded
<1>q. QED  BY <1>2, <1>3

(* The steps.                                                              *)
LEMMA SInvNext ==
  ASSUME task' = task,
         Shaping /\ ~ raised' /\ call'.op # "reset" /\ state' # "excluded" =>
           Telescoped(env', call', told', state')
  PROVE  SInv'
<1>1. Shaping' <=> Shaping
  BY DEF Shaping
<1>2. \A i : Units(i)' = Units(i)
  BY DEF Units, Weight
<1>3. Telescoped(env, call, told, state)' <=> Telescoped(env', call', told', state')
  BY <1>2 DEF Telescoped, Skilled
<1>q. QED  BY <1>1, <1>3 DEF SInv

(* Telescoped looks at little of the environment and of the call.          *)
LEMMA TelescopedStays ==
  ASSUME NEW e, NEW f, f.steps = e.steps, f.account = e.account,
         NEW c, NEW d, d.op = c.op, d.spent = c.spent, d.sum = c.sum, c.op # "none",
         NEW t, NEW s, Telescoped(e, c, t, s)
  PROVE  Telescoped(f, d, t, s)
BY DEF Telescoped, Skilled

(* A call begins with nothing gathered.                                    *)
LEMMA TelescopedBegins ==
  ASSUME IInv, SInv, Shaping, MayCall, ~ raised, NEW op \in {"act", "skill", "finish"}
  PROVE  LET e == [env EXCEPT !.steps = @ + 1] IN
         /\ Telescoped(e, Asked(op), told, "live") /\ EnvOK(e) /\ e.steps <= task.steps
         /\ e.view = env.view /\ e.account = env.account
<1> DEFINE e == [env EXCEPT !.steps = @ + 1]
           c == Asked(op)
<1>1. /\ TypeOK /\ EnvOK(env) /\ call = Idle /\ state = "live" /\ Idle.op = "none"
      /\ Idle.spent = 0 /\ Telescoped(env, Idle, told, "live") /\ Standing(world, env, Idle, told, "live", faults)
  BY CallsAre, IdleOK DEF MayCall, SInv
<1>2. c.op = op /\ c.spent = 0 /\ c.sum = Nothing
  BY <1>1, AskedOK DEF Asked, Idle
<1>3. EnvOK(e) /\ e.steps = env.steps + 1 /\ e.view = env.view /\ e.account = env.account
      /\ env.steps \in Nat
  BY <1>1, EnvFields DEF EnvOK, Environments
<1>4. e.steps <= task.steps
  BY <1>1, <1>3, TaskFacts DEF Standing, Budgeted
<1> HIDE DEF e, c
<1>5. told.elapsed \in Nat /\ told.sum.shape \in Int
  BY <1>1, PaymentFields DEF Telescoped
<1>6. PICK q \in Int :
        /\ Skilled(Idle, Idle.sum.shape) = 2 ^ told.elapsed * q
        /\ told.sum.shape + q = Units(told.elapsed + 0) * env.account.potential - Units(0) * told.first
  BY <1>1 DEF Telescoped
<1>7. Skilled(c, c.sum.shape) = Skilled(Idle, Idle.sum.shape)
  BY <1>1, <1>2, IdleOK DEF Skilled, Nothing
<1>8. Telescoped(e, c, told, "live")
  BY <1>1, <1>2, <1>3, <1>5, <1>6, <1>7 DEF Telescoped
<1>q. QED  BY <1>3, <1>4, <1>8 DEF e, c

LEMMA ClientTelescopes ==
  ASSUME IInv, SInv, Client
  PROVE  SInv'
<1>1. task' = task /\ raised' = raised
  BY DEF Client, Act, Skill, WaitFor, Finish, FinishUnmeasured, BridgeFinish, Calls
<1> SUFFICES ASSUME Shaping, ~ raised  PROVE Telescoped(env', call', told', state')
  BY <1>1, SInvNext
<1>2. /\ MayCall /\ TypeOK /\ EnvOK(env) /\ task.verify = 0 /\ "wait" \notin task.calls
  <2>1. MayCall
    BY DEF Client, Act, Skill, WaitFor, Finish, FinishUnmeasured, BridgeFinish
  <2>q. QED  BY <2>1, CallsAre, TaskFacts DEF Shaping
<1> DEFINE e == [env EXCEPT !.steps = @ + 1]
<1>3. CASE Act
  <2>1. env' = e /\ call' = Asked("act") /\ told' = told /\ state' = "live"
    BY <1>3 DEF Act, Calls, MayCall
  <2>q. QED  BY <1>2, <2>1, TelescopedBegins
<1>4. CASE Skill
  <2>1. env' = e /\ call' = Asked("skill") /\ told' = told /\ state' = "live"
    BY <1>4 DEF Skill, Calls, MayCall
  <2>q. QED  BY <1>2, <2>1, TelescopedBegins
<1>5. CASE WaitFor \/ Finish \/ BridgeFinish
  BY <1>2, <1>5 DEF WaitFor, Finish, BridgeFinish
<1>6. CASE FinishUnmeasured
  <2> DEFINE pay == Paying(e, TRUE)
             f == [e EXCEPT !.account = pay.account]
             c == Asked("finish")
             m == Told(f, Gathered(c, pay), Seen(f.view.level, c), "terminated", Succeeded(env))
  <2>1. /\ Telescoped(e, c, told, "live") /\ EnvOK(e) /\ e.steps <= task.steps
        /\ e.view = env.view /\ e.account = env.account
    BY <1>2, TelescopedBegins
  <2>2. Succeeded(env) = Succeeded(e) /\ Succeeded(env) \in BOOLEAN
    BY <2>1 DEF Succeeded
  <2>3. pay = Accounted(env.account, task.kinds, env.view.level, Succeeded(env), TRUE)
    BY <2>1, <2>2 DEF Paying
  <2>4. f = [env EXCEPT !.steps = @ + 1, !.account = pay.account]
    BY <1>2 DEF EnvOK, Environments
  <2>6. EnvOK(f) /\ f.view = e.view /\ f.steps = e.steps /\ f.account = pay.account
    BY <1>2, <2>1, CreditedOK DEF Credited
  <2>5. Become(m)
    BY <1>6, <2>1, <2>3, <2>4, <2>6 DEF FinishUnmeasured
  <2>7. m \in Answered(f, c, pay, "terminated", Succeeded(env))
    BY DEF Answered
  <2>8. CallOK(c) /\ c.op = "finish" /\ "terminated" \in States /\ state # "terminated"
    BY <1>2, AskedOK DEF States, MayCall
  <2> HIDE DEF c, e, f, m
  <2>9. Telescoped(m.env, m.call, m.told, m.state)
    BY <1>2, <2>1, <2>2, <2>6, <2>7, <2>8, AnsweredTelescopes DEF pay
  <2>q. QED  BY <2>5, <2>9 DEF Become
<1>q. QED  BY <1>3, <1>4, <1>5, <1>6 DEF Client

LEMMA AdoptingTelescopes ==
  ASSUME IInv, SInv, StepSettles \/ ReadsTruth
  PROVE  SInv'
<1>1. task' = task /\ raised' = raised
  BY DEF StepSettles, ReadsTruth
<1> SUFFICES ASSUME Shaping, ~ raised  PROVE Telescoped(env', call', told', state')
  BY <1>1, SInvNext
<1>2. /\ TypeOK /\ EnvOK(env) /\ CallOK(call) /\ world \in Views /\ UnderWay(call)
      /\ state = "live" /\ env.steps <= task.steps
  BY CallsAre DEF IInv, StepSettles, ReadsTruth, Working
<1>3. Telescoped(env, call, told, "live") /\ call.op \notin {"none", "reset"}
  BY <1>2 DEF SInv, UnderWay
<1>4. ASSUME NEW e, EnvOK(e), e.account = env.account, e.steps = env.steps,
             NEW m \in Adopted(e, call), Become(m)
      PROVE  Telescoped(env', call', told', state')
  <2>1. Telescoped(e, call, told, "live")
    BY <1>3, <1>4, TelescopedStays
  <2>2. Telescoped(m.env, m.call, m.told, m.state)
    BY <1>2, <1>4, <2>1, AdoptedTelescopes
  <2>q. QED  BY <1>4, <2>2 DEF Become
<1>5. CASE StepSettles
  <2>1. PICK w \in Intervals(Ticks) : \E m \in Adopted([env EXCEPT !.view = w], call) : Become(m)
    BY <1>5 DEF StepSettles
  <2>2. w \in Views
    BY <1>2, <2>1, IntervalsOK, TicksOK
  <2>3. /\ EnvOK([env EXCEPT !.view = w]) /\ [env EXCEPT !.view = w].account = env.account
        /\ [env EXCEPT !.view = w].steps = env.steps
    BY <1>2, <2>2, ViewedOK
  <2>q. QED  BY <1>4, <2>1, <2>3
<1>6. CASE ReadsTruth
  <2> DEFINE v == [env.view EXCEPT !.level = world.level, !.made = world.made]
             e == [env EXCEPT !.view = v]
  <2>1. PICK m \in Adopted(e, call) : Become(m)
    <3>1. [env EXCEPT !.view.level = world.level, !.view.made = world.made] = e
      BY <1>2 DEF EnvOK, Environments
    <3>q. QED  BY <1>6, <3>1 DEF ReadsTruth
  <2>2. v \in Views
    BY <1>2, EnvFields DEF Views
  <2> HIDE DEF v
  <2>3. EnvOK(e) /\ e.account = env.account /\ e.steps = env.steps
    BY <1>2, <2>2, ViewedOK
  <2>q. QED  BY <1>4, <2>1, <2>3
<1>q. QED  BY <1>5, <1>6

LEMMA MovingTelescopes ==
  ASSUME IInv, SInv, StepRefused \/ Observes \/ Disrupts
  PROVE  SInv'
<1>1. /\ task' = task /\ raised' = raised /\ told' = told /\ state' = state
      /\ \E at \in Places : call' = [call EXCEPT !.at = at]
  BY DEF StepRefused, Observes, Disrupts, After, Places
<1>2. PICK at \in Places : call' = [call EXCEPT !.at = at]
  BY <1>1
<1>3. EnvOK(env) /\ CallOK(call)
  BY CallsAre
<1>4. call'.op = call.op /\ call'.spent = call.spent /\ call'.sum = call.sum
  BY <1>2, <1>3 DEF CallOK, ClientCalls
<1>5. env'.steps = env.steps /\ env'.account = env.account
  BY <1>3 DEF StepRefused, Observes, Disrupts, EnvOK, Environments
<1>6. call.op # "none"
  <2>1. call.at # "idle"
    BY DEF StepRefused, Observes, Disrupts
  <2>2. call # Idle
    BY <2>1, CallsAre, IdleOK
  <2>q. QED  BY <2>2, CallsAre DEF UnderWay
<1>7. Telescoped(env, call, told, state) => Telescoped(env', call', told', state')
  BY <1>1, <1>4, <1>5, <1>6, TelescopedStays
<1>q. QED  BY <1>1, <1>4, <1>7, SInvNext DEF SInv

LEMMA BeginsTelescopes ==
  ASSUME IInv, Begins
  PROVE  SInv'
<1>1. TypeOK /\ EnvOK(env) /\ world \in Views /\ world.level \in Nat /\ task' = task
  BY CallsAre, TaskFacts DEF Begins, Views
<1>2. /\ call' = Idle /\ state' = "live" /\ told'.sum = Nothing /\ told'.elapsed = 0
      /\ told'.first = world.level /\ env'.view.level = world.level
      /\ env'.account.potential = world.level /\ env'.steps = env.steps /\ env.steps \in Nat
  <2>1. call' = Idle /\ state' = "live"
    BY DEF Begins
  <2>2. told'.sum = Nothing /\ told'.elapsed = 0 /\ told'.first = world.level
    BY DEF Begins
  <2>3. env'.account = Opened(world.level) /\ env'.steps = env.steps
        /\ env'.view.level = world.level
    BY <1>1 DEF Begins, EnvOK, Environments, Views
  <2>q. QED  BY <1>1, <2>1, <2>2, <2>3, EnvFields DEF Opened
<1>3. Idle.op = "none" /\ Idle.spent = 0 /\ Skilled(Idle, Idle.sum.shape) = 0
  BY <1>1, IdleOK DEF Skilled
<1>4. Units(0) \in Nat /\ 2 ^ 0 \in Nat
  BY <1>1, WeightIs, TaskFacts, PowerDoubles DEF Units
<1>5. Skilled(Idle, Idle.sum.shape) = 2 ^ 0 * 0 /\ 0 + 0 = Units(0) * world.level - Units(0) * world.level
  BY <1>1, <1>3, <1>4
<1>6. Telescoped(env', Idle, told', "live")
  <2>1. \E q \in Int :
          /\ Skilled(Idle, Idle.sum.shape) = 2 ^ told'.elapsed * q
          /\ told'.sum.shape + q = Units(told'.elapsed + Idle.spent) * env'.account.potential
                                 - Units(0) * told'.first
    BY <1>2, <1>3, <1>5 DEF Nothing
  <2>q. QED  BY <1>2, <1>3, <2>1 DEF Telescoped, Nothing
<1>q. QED  BY <1>1, <1>2, <1>6, SInvNext

(* A step without an answer ends what is claimed of the episode.           *)
LEMMA ExcludedOrRaised ==
  ASSUME StepFails
  PROVE  task' = task /\ (raised' \/ state' = "excluded")
<1>1. CASE call.inside
  BY <1>1 DEF StepFails, Raise
<1>2. CASE ~ call.inside
  <2>1. PICK m \in Answered(env, call, [plain |-> 0, shape |-> 0], "excluded", FALSE) : Become(m)
    BY <1>2 DEF StepFails
  <2>2. m.state = "excluded"
    BY DEF Answered, Told, Moment, GoesOn
  <2>q. QED  BY <1>2, <2>1, <2>2 DEF StepFails, Become
<1>q. QED  BY <1>1, <1>2

LEMMA TelescopesNext == IInv /\ SInv /\ [Next]_vars => SInv'
<1> SUFFICES ASSUME IInv, SInv, [Next]_vars
             PROVE  SInv'
  OBVIOUS
<1>1. CASE Reset \/ ResetsWorld
  <2>1. TypeOK /\ CallOK(call) /\ Asked("reset").op = "reset" /\ CallOK(Asked("reset"))
    BY CallsAre, AskedOK
  <2>2. call'.op = "reset" /\ task' = task
    <3>1. CASE Reset
      BY <2>1, <3>1, MovedOK DEF Reset, Places
    <3>2. CASE ResetsWorld
      <4>1. call.op = "reset"
        BY <3>2, CallsAre DEF ResetsWorld
      <4>q. QED  BY <2>1, <3>2, <4>1, MovedOK DEF ResetsWorld, Places
    <3>q. QED  BY <1>1, <3>1, <3>2
  <2>q. QED  BY <2>2, SInvNext
<1>2. CASE Client
  BY <1>2, ClientTelescopes
<1>3. CASE StepSettles \/ ReadsTruth
  BY <1>3, AdoptingTelescopes
<1>4. CASE StepRefused \/ Observes \/ Disrupts
  BY <1>4, MovingTelescopes
<1>5. CASE StepFails
  BY <1>5, ExcludedOrRaised, SInvNext
<1>6. CASE DisruptRaises \/ ReadRaises \/ ResetRaises
  <2>1. task' = task /\ raised'
    BY <1>6 DEF DisruptRaises, ReadRaises, ResetRaises, Raise
  <2>q. QED  BY <2>1, SInvNext
<1>7. CASE Begins
  BY <1>7, BeginsTelescopes
<1>8. CASE UNCHANGED vars
  BY <1>8, SInvNext DEF vars, SInv
<1>q. QED  BY <1>1, <1>2, <1>3, <1>4, <1>5, <1>6, <1>7, <1>8 DEF Next, Session

LEMMA TelescopesAtFirst == Init => SInv
<1> SUFFICES ASSUME Init  PROVE SInv
  OBVIOUS
<1>1. IInv /\ TypeOK
  BY InitOK DEF IInv
<1>2. /\ call = Idle /\ state = "none" /\ told.sum = Nothing /\ told.elapsed = 0 /\ told.first = 0
      /\ env.view.level = 0 /\ env.account.potential = 0 /\ env.steps = 0
  BY DEF Init, Fresh, Opened
<1>3. Idle.op = "none" /\ Idle.spent = 0 /\ Skilled(Idle, Idle.sum.shape) = 0
  BY <1>1, IdleOK DEF Skilled
<1>4. Units(0) \in Nat /\ 2 ^ 0 \in Nat
  BY <1>1, WeightIs, TaskFacts, PowerDoubles DEF Units
<1>5. Skilled(Idle, Idle.sum.shape) = 2 ^ 0 * 0 /\ 0 + 0 = Units(0) * 0 - Units(0) * 0
  BY <1>3, <1>4
<1>6. Telescoped(env, Idle, told, "none")
  <2>1. \E q \in Int :
          /\ Skilled(Idle, Idle.sum.shape) = 2 ^ told.elapsed * q
          /\ told.sum.shape + q = Units(told.elapsed + Idle.spent) * env.account.potential
                                 - Units(0) * told.first
    BY <1>2, <1>3, <1>5 DEF Nothing
  <2>q. QED  BY <1>2, <1>3, <2>1 DEF Telescoped, Nothing
<1>q. QED  BY <1>2, <1>6 DEF SInv

(* Discounted by the durations a client is told, the shaping of a whole    *)
(* episode telescopes for any potential, budget and mix of skills: no path *)
(* through the readings is paid more than another (RewardAccountant.step,  *)
(* SkillEnv).  As above, where a client may wait there is no potential.    *)
THEOREM Telescopes ==
  Spec => [](("wait" \in task.calls => "potential" \notin task.kinds) => ShapingTelescopes)
<1>1. ASSUME IInv, SInv, Settled, Shaping
      PROVE  told.sum.shape = (IF state = "terminated" THEN 0
                           ELSE 2 * Weight(told.elapsed) * world.level) - 2 * Weight(0) * told.first
  <2>1. /\ TypeOK /\ call = Idle /\ Idle.op = "none" /\ Idle.spent = 0
        /\ Skilled(Idle, Idle.sum.shape) = 0 /\ env.view.level = world.level
        /\ Telescoped(env, Idle, told, state)
    BY <1>1, SettledStands, IdleOK DEF Settled, SInv, Standing, Cached, Skilled
  <2>2. /\ told.first \in Nat /\ told.elapsed \in Nat /\ told.sum.shape \in Int /\ Units(0) \in Nat
    BY <2>1, PaymentFields, WeightIs, TaskFacts DEF Telescoped, Units
  <2>3. CASE state = "terminated"
    <3>1. told.sum.shape = - (Units(0) * told.first)
      BY <2>1, <2>3 DEF Telescoped
    <3>2. - (Units(0) * told.first) = 0 - Units(0) * told.first
      BY <2>2
    <3>q. QED  BY <2>3, <3>1, <3>2 DEF Units
  <2>4. CASE state # "terminated"
    <3>1. PICK q \in Int :
            /\ 0 = 2 ^ told.elapsed * q
            /\ told.sum.shape + q = Units(told.elapsed + 0) * world.level - Units(0) * told.first
      BY <2>1, <2>4 DEF Telescoped
    <3>2. q = 0
      <4>1. ASSUME NEW p \in Nat \ {0}, 0 = p * q  PROVE q = 0
        BY <4>1
      <4>q. QED  BY <2>2, <3>1, <4>1, PowerDoubles
    <3>3. told.elapsed + 0 = told.elapsed /\ told.sum.shape + 0 = told.sum.shape
      BY <2>2
    <3>q. QED  BY <2>4, <3>1, <3>2, <3>3 DEF Units
  <2>q. QED  BY <2>3, <2>4
<1>2. IInv /\ SInv => (("wait" \in task.calls => "potential" \notin task.kinds) => ShapingTelescopes)
  BY <1>1 DEF ShapingTelescopes, Shaping
<1>3. Spec => []SInv
  BY TelescopesAtFirst, TelescopesNext, Invariant, PTL DEF Spec
<1>q. QED  BY <1>2, <1>3, Invariant, PTL

-----------------------------------------------------------------------------
(* What everything else sums to, at its own primitive: the terminal reward *)
(* Prize, the rises Risen and the costs Costs.  Of what a skill gathers    *)
(* the same holds as of the shaping: it is 2 ^ elapsed times what it will  *)
(* add to the client's sum.                                                *)
Prize(t)   == IF t.success THEN Weight(t.elapsed - 1) * Sparse ELSE 0
Risen(t)   == IF "high" \in task.kinds THEN t.sum.due ELSE 0
Costs(n)   == IF "cost" \in task.kinds THEN 2 * Weight(0) - 2 * Weight(n) ELSE 0
Rises(l)   == IF "high" \in task.kinds THEN Rise(l) ELSE 0
Goes(c, t) == t.elapsed + Skilled(c, c.spent)

Worth(e, c, t) ==
  /\ Goes(c, t) + (IF c.op = "none" THEN 0 ELSE 1) <= e.steps
  /\ t.sum.plain \in Int /\ t.sum.due \in Int
  /\ \E x \in Int :
       /\ Skilled(c, c.sum.plain) = 2 ^ t.elapsed * x
       /\ t.sum.plain + x = Prize(t) + Risen(t) - Costs(Goes(c, t))

PInv ==
  PathHolds /\ ~ raised /\ call.op # "reset" /\ state # "excluded" => Worth(env, call, told)

(* What a primitive is paid, by its component.                             *)
LEMMA PaymentIs ==
  ASSUME TypeOK, PathHolds, NEW e, EnvOK(e), NEW c, CallOK(c), NEW terminated \in BOOLEAN,
         Balanced(e, c, told, "live")
  PROVE  /\ Rise(e.view.level) \in Int /\ ~ told.success /\ Succeeded(e) \in BOOLEAN
         /\ Paying(e, terminated).plain \in Int
         /\ Paying(e, terminated).plain =
              (IF Succeeded(e) THEN Sparse ELSE 0) + Rises(e.view.level) - Cost(1)
<1> DEFINE pay == Paying(e, terminated)
           f == [e EXCEPT !.account = pay.account]
           best == Most(told.best, e.view.level)
<1>1. /\ Credited(f, e, pay) /\ pay.plain \in Int /\ Succeeded(e) \in BOOLEAN
      /\ e.account \in Accounts /\ e.view.level \in Nat
  BY CreditedOK, EnvFields, TaskFacts
<1>2. pay.plain = (IF Succeeded(e) THEN Sparse ELSE 0)
                + (IF "high" \in task.kinds THEN pay.account.paid - e.account.paid ELSE 0)
                - (IF "cost" \in task.kinds THEN 1 ELSE 0)
  BY <1>1, AccountedOK DEF Paying
<1>3. /\ "high" \in task.kinds => /\ f.account.paid = Least(Cap, best - told.first)
                                  /\ e.account.paid = Least(Cap, told.best - told.first)
      /\ ~ told.success
  <2> HIDE DEF f
  <2>1. /\ "high" \in task.kinds => f.account.paid = Least(Cap, best - told.first)
        /\ ~ told.success
    BY <1>1, PaymentBalances
  <2>2. "high" \in task.kinds => e.account.paid = Least(Cap, told.best - told.first)
    BY BalancedIs
  <2>q. QED  BY <2>1, <2>2
<1>4. f.account = pay.account
  BY <1>1 DEF Credited
<1>5. Rise(e.view.level) = Least(Cap, best - told.first) - Least(Cap, told.best - told.first)
  BY DEF Rise
<1>6. Rise(e.view.level) \in Int
  <2>1. /\ best - told.first \in Int /\ told.best - told.first \in Int /\ Cap \in Int
    BY BestOK, PaymentFields, TaskFacts
  <2>2. Least(Cap, best - told.first) \in Int
    BY <2>1, LeastMost
  <2>3. Least(Cap, told.best - told.first) \in Int
    BY <2>1, LeastMost
  <2>q. QED  BY <1>5, <2>2, <2>3
<1> HIDE DEF f, best, pay
<1>7. Rises(e.view.level) = IF "high" \in task.kinds THEN pay.account.paid - e.account.paid ELSE 0
  BY <1>3, <1>4, <1>5 DEF Rises
<1>8. Cost(1) = IF "cost" \in task.kinds THEN 1 ELSE 0
  BY DEF Cost
<1>q. QED  BY <1>1, <1>2, <1>3, <1>6, <1>7, <1>8 DEF pay

(* The cost of one more primitive.                                         *)
LEMMA CostsGrow ==
  ASSUME TypeOK, NEW n \in Nat, n < task.steps
  PROVE  /\ Weight(n) \in Nat /\ Costs(n) \in Int /\ Costs(n + 1) \in Int
         /\ Costs(n + 1) = Costs(n) + Weight(n) * Cost(1)
<1>1. /\ n + 1 \in Nat /\ n + 1 <= task.steps /\ n <= task.steps /\ 0 <= task.steps
  BY TaskFacts
<1>2. /\ Weight(0) \in Nat /\ Weight(n) \in Nat /\ Weight(n + 1) \in Nat
      /\ Weight(n) = 2 * Weight(n + 1)
  BY <1>1, WeightIs
<1>3. CASE "cost" \in task.kinds
  <2>1. /\ Costs(n) = 2 * Weight(0) - 2 * Weight(n)
        /\ Costs(n + 1) = 2 * Weight(0) - 2 * Weight(n + 1) /\ Cost(1) = 1
    BY <1>3 DEF Costs, Cost
  <2>q. QED  BY <1>2, <2>1
<1>4. CASE "cost" \notin task.kinds
  <2>1. Costs(n) = 0 /\ Costs(n + 1) = 0 /\ Cost(1) = 0
    BY <1>4 DEF Costs, Cost
  <2>q. QED  BY <1>2, <2>1
<1>q. QED  BY <1>3, <1>4

(* What is gathered with one more payment.                                 *)
LEMMA GatheredWorth ==
  ASSUME TypeOK, PathHolds, NEW e, EnvOK(e), NEW c, CallOK(c), c.op # "none",
         e.steps <= task.steps, Worth(e, c, told), Balanced(e, c, told, "live"),
         NEW terminated \in BOOLEAN
  PROVE  LET n == Goes(c, told)
             due == told.sum.due + Weight(told.elapsed + Before(c)) * Rise(e.view.level)
         IN /\ due \in Int /\ n \in Nat /\ n < task.steps /\ ~ told.success
            /\ \E x \in Int :
                 /\ Gathered(c, Paying(e, terminated)).sum.plain = 2 ^ told.elapsed * x
                 /\ told.sum.plain + x =
                      (IF Succeeded(e) THEN Weight(n) * Sparse ELSE 0)
                        + (IF "high" \in task.kinds THEN due ELSE 0) - Costs(n + 1)
<1> DEFINE pay == Paying(e, terminated)
           E == told.elapsed
           k == Before(c)
           n == Goes(c, told)
           W == Weight(n)
           S == IF Succeeded(e) THEN Sparse ELSE 0
           l == e.view.level
           due == told.sum.due + Weight(told.elapsed + Before(c)) * Rise(e.view.level)
<1>1. k = Skilled(c, c.spent) /\ n = E + k /\ E \in Nat /\ k \in Nat /\ n \in Nat
  BY PaymentFields, CallFields DEF Before, Skilled, Goes
<1>2. n < task.steps
  <2>1. n + 1 <= e.steps /\ e.steps \in Nat
    BY EnvFields DEF Worth
  <2>q. QED  BY <1>1, <2>1, TaskFacts
<1>3. /\ Rise(l) \in Int /\ ~ told.success /\ pay.plain \in Int
      /\ pay.plain = S + Rises(l) - Cost(1)
      /\ Succeeded(e) \in BOOLEAN /\ S \in Nat
  BY PaymentIs, TaskFacts
<1>4. /\ 2 ^ E \in Nat \ {0} /\ Weight(k) = 2 ^ E * W
  BY <1>1, <1>2, WeightShifts, TaskFacts
<1>5. /\ W \in Nat /\ Costs(n) \in Int /\ Costs(n + 1) \in Int
      /\ Costs(n + 1) = Costs(n) + W * Cost(1)
  BY <1>1, <1>2, CostsGrow
<1>6. Gathered(c, pay).sum.plain = Skilled(c, c.sum.plain) + Weight(k) * pay.plain
  BY SumsGathered
<1>7. PICK y \in Int :
        /\ Skilled(c, c.sum.plain) = 2 ^ E * y
        /\ told.sum.plain + y = Prize(told) + Risen(told) - Costs(n)
  BY DEF Worth
<1>8. Prize(told) = 0 /\ told.sum.due \in Int /\ told.sum.plain \in Int /\ Risen(told) \in Int
  BY <1>3 DEF Prize, Worth, Risen
<1>9. due = told.sum.due + W * Rise(l) /\ due \in Int
  BY <1>1, <1>3, <1>5, <1>8
<1>10. Cost(1) \in Int /\ Rises(l) \in Int
  BY <1>3 DEF Cost, Rises
<1>11. (IF "high" \in task.kinds THEN due ELSE 0) = Risen(told) + W * Rises(l)
  <2>1. W * 0 = 0
    BY <1>5
  <2>2. CASE "high" \in task.kinds
    BY <1>9, <2>2 DEF Risen, Rises
  <2>3. CASE "high" \notin task.kinds
    BY <2>1, <2>3 DEF Risen, Rises
  <2>q. QED  BY <2>2, <2>3
<1>12. (IF Succeeded(e) THEN W * Sparse ELSE 0) = W * S
  BY <1>3, <1>5
<1> HIDE DEF pay, E, k, n, W, l, due, S
<1> DEFINE p == pay.plain
           x == y + W * p
<1>13. x \in Int
  BY <1>3, <1>5, <1>7
<1>14. Gathered(c, pay).sum.plain = 2 ^ E * x
  <2>1. ASSUME NEW a \in Nat, NEW b \in Int, NEW z \in Int, NEW w \in Nat
        PROVE  a * b + (a * w) * z = a * (b + w * z)
    <3>1. (a * w) * z = a * (w * z) /\ w * z \in Int
      OBVIOUS
    <3> DEFINE v == w * z
    <3> HIDE DEF v
    <3>2. v \in Int => a * b + a * v = a * (b + v)
      OBVIOUS
    <3>q. QED  BY <3>1, <3>2 DEF v
  <2>q. QED  BY <1>3, <1>4, <1>5, <1>6, <1>7, <2>1
<1>15. told.sum.plain + x = W * S + (Risen(told) + W * Rises(l)) - Costs(n + 1)
  <2>1. ASSUME NEW w \in Nat, NEW a \in Int, NEW b \in Int, NEW d \in Int
        PROVE  w * (a + b - d) = w * a + w * b - w * d /\ w * a \in Int /\ w * b \in Int /\ w * d \in Int
    OBVIOUS
  <2>2. /\ W * p = W * S + W * Rises(l) - W * Cost(1)
        /\ W * S \in Int /\ W * Rises(l) \in Int /\ W * Cost(1) \in Int
    <3>1. S \in Int
      BY <1>3
    <3>q. QED  BY <1>3, <1>5, <1>10, <2>1, <3>1
  <2> DEFINE a == W * S
             b == W * Rises(l)
             d == W * Cost(1)
             wp == W * p
  <2>3. wp = a + b - d /\ a \in Int /\ b \in Int /\ d \in Int
    BY <2>2
  <2>4. Costs(n + 1) = Costs(n) + d
    BY <1>5
  <2> HIDE DEF a, b, d, wp, p
  <2>5. told.sum.plain + (y + wp) = a + (Risen(told) + b) - Costs(n + 1)
    BY <1>5, <1>7, <1>8, <2>3, <2>4
  <2>q. QED  BY <2>5 DEF a, b, wp
<1>q. QED  BY <1>1, <1>2, <1>3, <1>9, <1>11, <1>12, <1>13, <1>14, <1>15 DEF pay, E, n, W, due, l

(* The client's sum after a transition, and after a primitive of a call.   *)
LEMMA AnsweredWorth ==
  ASSUME TypeOK, PathHolds, NEW e, EnvOK(e), NEW c, CallOK(c), c.op # "none",
         c.op = "wait" => "wait" \in task.calls,
         e.steps <= task.steps, Worth(e, c, told), Balanced(e, c, told, "live"),
         NEW terminated \in BOOLEAN, NEW over \in States, over = "live" => ~ Succeeded(e),
         NEW f, Credited(f, e, Paying(e, terminated)),
         NEW m \in Answered(f, c, Paying(e, terminated), over, Succeeded(e))
  PROVE  Worth(m.env, m.call, m.told)
<1> DEFINE pay == Paying(e, terminated)
           g == Gathered(c, pay)
           E == told.elapsed
           n == Goes(c, told)
           due == told.sum.due + Weight(told.elapsed + Before(c)) * Rise(e.view.level)
           last == IF Succeeded(e) THEN Weight(n) * Sparse ELSE 0
           high == IF "high" \in task.kinds THEN due ELSE 0
<1>1. /\ due \in Int /\ n \in Nat /\ n < task.steps /\ ~ told.success
      /\ \E x \in Int : /\ g.sum.plain = 2 ^ E * x
                        /\ told.sum.plain + x = last + high - Costs(n + 1)
  BY GatheredWorth
<1>2. PICK x \in Int :
        g.sum.plain = 2 ^ E * x /\ told.sum.plain + x = last + high - Costs(n + 1)
  BY <1>1
<1>3. /\ EnvOK(f) /\ f.view = e.view /\ f.steps = e.steps /\ pay.plain \in Int
      /\ CallOK(g) /\ g.op = c.op /\ g.spent = c.spent + 1 /\ Succeeded(e) \in BOOLEAN
  BY CreditedOK, GatheredOK DEF Credited
<1>4. /\ E \in Nat /\ c.spent \in Nat /\ e.steps \in Nat /\ 2 ^ E \in Nat \ {0}
      /\ n = E + Skilled(c, c.spent) /\ n + 1 <= e.steps /\ told.sum.plain \in Int
      /\ told.sum.due \in Int
  BY PaymentFields, CallFields, EnvFields, PowerDoubles DEF Worth, Goes
<1> HIDE DEF pay, g, n, due
<1>5. CASE m = Told(f, g, Seen(f.view.level, c), over, Succeeded(e))
  <2>1. EndsWith(m, f, c, pay.plain, over, Succeeded(e))
    BY <1>3, <1>5, ToldOK DEF g
  <2>2. m.told.sum.plain = Added(told.sum.plain, g.sum.plain) /\ m.told.sum.due = due
    <3>1. /\ m.told.sum.plain = Added(told.sum.plain, g.sum.plain)
          /\ m.told.sum.due = Seen(f.view.level, c).sum.due
      <4>1. EnvOK(f)
        BY <1>3
      <4>2. m.told.sum.plain = Added(told.sum.plain, g.sum.plain)
        BY <1>5, <4>1, SumsTold, SMTT(30)
      <4>3. m.told.sum.due = Seen(f.view.level, c).sum.due
        BY <1>5, <4>1, SumsTold
      <4>q. QED  BY <4>2, <4>3
    <3>2. Seen(f.view.level, c).sum.due = due
      BY <1>3, SumsSeen DEF due
    <3>q. QED  BY <3>1, <3>2
  <2>3. m.told.sum.plain = told.sum.plain + x
    BY <1>2, <1>4, <2>2, ExactQuotient DEF Added
  <2>4. /\ m.env = f /\ m.call = Idle /\ m.told.success = Succeeded(e) /\ m.told.elapsed = n + 1
    BY <1>4, <2>1 DEF EndsWith, Skilled
  <2>5. Idle.op = "none" /\ Skilled(Idle, Idle.spent) = 0 /\ Skilled(Idle, Idle.sum.plain) = 0
    BY IdleOK DEF Skilled
  <2>6. Goes(Idle, m.told) = n + 1 /\ n + 1 - 1 = n
    BY <1>1, <2>4, <2>5 DEF Goes
  <2>7. Prize(m.told) = last /\ Risen(m.told) = high
    <3>1. Weight(m.told.elapsed - 1) = Weight(n)
      <4>1. m.told.elapsed = n + 1
        BY <2>4, Zenon
      <4>2. m.told.elapsed - 1 = n
        BY <1>1, <4>1
      <4>q. QED  BY <4>2, Zenon
    <3>2. Prize(m.told) = last
      BY <1>3, <2>4, <3>1 DEF Prize
    <3>q. QED  BY <2>2, <3>2 DEF Risen
  <2> HIDE DEF last, high
  <2>8. /\ 0 = 2 ^ m.told.elapsed * 0
        /\ m.told.sum.plain + 0 = Prize(m.told) + Risen(m.told) - Costs(Goes(Idle, m.told))
    <3>1. n + 1 \in Nat
      BY <1>1
    <3>2. 2 ^ (n + 1) \in Nat
      BY <3>1, PowerDoubles
    <3>q. QED  BY <1>2, <1>4, <2>3, <2>4, <2>6, <2>7, <3>2
  <2>9. Goes(Idle, m.told) + 0 <= f.steps
    BY <1>1, <1>3, <1>4, <2>6
  <2>10. m.told.sum.plain \in Int /\ m.told.sum.due \in Int
    BY <1>1, <1>4, <2>2, <2>3
  <2>q. QED  BY <2>4, <2>5, <2>8, <2>9, <2>10 DEF Worth
<1>6. CASE /\ GoesOn(g, over)
           /\ m = Moment([f EXCEPT !.steps = @ + 1],
               [g EXCEPT !.at = "step", !.waits = IF @ > 0 THEN @ - 1 ELSE 0],
               Seen(f.view.level, c), state)
  <2> DEFINE h == [f EXCEPT !.steps = f.steps + 1]
             d == [g EXCEPT !.at = "step", !.waits = IF @ > 0 THEN @ - 1 ELSE 0]
             t == Seen(f.view.level, c)
  <2>1. m.env = h /\ m.call = d /\ m.told = t
    BY <1>6 DEF Moment
  <2>2. d.op = g.op /\ d.spent = g.spent /\ d.sum = g.sum
    BY <1>3 DEF CallOK, ClientCalls
  <2>3. h.steps = f.steps + 1
    BY <1>3 DEF EnvOK, Environments
  <2>4. /\ t.sum.plain = told.sum.plain /\ t.sum.due = due /\ t.elapsed = E
        /\ t.success = told.success
    BY <1>3, SeenOK, SumsSeen DEF due
  <2>5. c.op \in {"skill", "wait"} /\ over = "live" /\ ~ Succeeded(e)
    BY <1>3, <1>6 DEF GoesOn
  <2> HIDE DEF h, d, t
  <2>6. Prize(t) = 0 /\ Risen(t) = high /\ last = 0
    BY <1>1, <2>4, <2>5 DEF Prize, Risen
  <2>7. CASE c.op = "skill"
    <3>1. Skilled(d, d.sum.plain) = g.sum.plain /\ Skilled(d, d.spent) = c.spent + 1
      BY <1>3, <2>2, <2>7 DEF Skilled
    <3>2. Goes(d, t) = n + 1
      BY <1>4, <2>4, <2>7, <3>1 DEF Goes, Skilled
    <3>3. /\ Skilled(d, d.sum.plain) = 2 ^ t.elapsed * x
          /\ t.sum.plain + x = Prize(t) + Risen(t) - Costs(Goes(d, t))
      BY <1>2, <2>4, <2>6, <3>1, <3>2
    <3>4. Goes(d, t) + 1 <= h.steps
      BY <1>1, <1>3, <1>4, <2>3, <3>2
    <3>q. QED  BY <1>1, <1>3, <1>4, <2>1, <2>2, <2>4, <2>7, <3>3, <3>4 DEF Worth
  <2>8. CASE c.op = "wait"
    <3>1. "high" \notin task.kinds
      BY <2>8 DEF PathHolds
    <3>2. /\ Skilled(d, d.sum.plain) = 0 /\ Skilled(d, d.spent) = 0
          /\ Skilled(c, c.sum.plain) = 0 /\ Skilled(c, c.spent) = 0
      BY <1>3, <2>2, <2>8 DEF Skilled
    <3>3. Goes(d, t) = n
      BY <1>4, <2>4, <3>2 DEF Goes
    <3>4. PICK y \in Int :
            0 = 2 ^ E * y /\ told.sum.plain + y = Prize(told) + Risen(told) - Costs(n)
      BY <3>2 DEF Worth, n
    <3>5. Prize(told) = Prize(t) /\ Risen(told) = Risen(t)
      BY <2>4, <3>1 DEF Prize, Risen
    <3>6. /\ Skilled(d, d.sum.plain) = 2 ^ t.elapsed * y
          /\ t.sum.plain + y = Prize(t) + Risen(t) - Costs(Goes(d, t))
      BY <2>4, <3>2, <3>3, <3>4, <3>5
    <3>7. Goes(d, t) + 1 <= h.steps
      BY <1>1, <1>3, <1>4, <2>3, <3>3
    <3>q. QED  BY <1>1, <1>3, <1>4, <2>1, <2>2, <2>4, <2>8, <3>6, <3>7 DEF Worth
  <2>q. QED  BY <2>5, <2>7, <2>8
<1>q. QED  BY <1>5, <1>6 DEF Answered, pay, g

(* A step adopted, with no window to run: scored, or a disruption is due.  *)
LEMMA AdoptedWorth ==
  ASSUME TypeOK, PathHolds, NEW e, EnvOK(e), NEW c, CallOK(c), UnderWay(c),
         e.steps <= task.steps, Worth(e, c, told), Balanced(e, c, told, "live"),
         NEW m \in Adopted(e, c)
  PROVE  Worth(m.env, m.call, m.told)
<1>1. /\ task.verify = 0 /\ ~ c.inside /\ c.op # "none"
      /\ c.op = "wait" => "wait" \in task.calls
  BY TaskFacts DEF PathHolds, UnderWay
<1>2. CASE Due(e) # {}
  <2> DEFINE i == Min(Due(e))
             f == [e EXCEPT !.applied = @ \cup {i}]
             d == [c EXCEPT !.at = "disrupt", !.which = i]
  <2>1. m.env = f /\ m.call = d /\ m.told = told
    BY <1>2 DEF Adopted, Moment
  <2>2. f.steps = e.steps
    BY DEF EnvOK, Environments
  <2>3. d.op = c.op /\ d.spent = c.spent /\ d.sum = c.sum
    BY DEF CallOK, ClientCalls
  <2> HIDE DEF f, d
  <2>q. QED  BY <1>1, <2>1, <2>2, <2>3 DEF Worth, Goes, Skilled
<1>3. CASE Due(e) = {}
  <2> DEFINE succeeded == Succeeded(e)
             pay == Paying(e, succeeded)
             f == [e EXCEPT !.account = pay.account]
             out == ~ succeeded /\ OutOfBudget(e)
             over == CASE succeeded -> "terminated" [] out -> "truncated" [] OTHER -> "live"
  <2>1. m \in Scored(e, c)
    BY <1>1, <1>3 DEF Adopted
  <2>2. m \in Answered(f, c, pay, over, succeeded)
    BY <1>1, <2>1 DEF Scored, Paying
  <2>3. succeeded \in BOOLEAN /\ over \in States /\ (over = "live" => ~ succeeded)
    BY DEF Succeeded, States
  <2>4. Credited(f, e, pay)
    BY <2>3, CreditedOK
  <2> HIDE DEF f, over, out
  <2>q. QED  BY <1>1, <2>2, <2>3, <2>4, AnsweredWorth
<1>q. QED  BY <1>2, <1>3

(* The steps.                                                              *)
LEMMA PInvNext ==
  ASSUME task' = task,
         PathHolds /\ ~ raised' /\ call'.op # "reset" /\ state' # "excluded" =>
           Worth(env', call', told')
  PROVE  PInv'
<1>1. PathHolds' <=> PathHolds
  BY DEF PathHolds
<1>2. \A i : Weight(i)' = Weight(i)
  BY DEF Weight
<1>3. Prize(told)' = Prize(told') /\ Risen(told)' = Risen(told')
  BY <1>2 DEF Prize, Risen
<1>4. Goes(call, told)' = Goes(call', told')
  BY DEF Goes, Skilled
<1>5. Costs(Goes(call, told))' = Costs(Goes(call', told'))
  BY <1>2, <1>4 DEF Costs
<1>6. Worth(env, call, told)' <=> Worth(env', call', told')
  BY <1>3, <1>4, <1>5 DEF Worth, Skilled
<1>q. QED  BY <1>1, <1>6 DEF PInv

(* Worth looks at little of the environment and of the call.               *)
LEMMA WorthStays ==
  ASSUME NEW e, NEW f, f.steps = e.steps,
         NEW c, NEW d, d.op = c.op, d.spent = c.spent, d.sum = c.sum,
         NEW t, Worth(e, c, t)
  PROVE  Worth(f, d, t)
BY DEF Worth, Goes, Skilled

(* A call begins with nothing gathered.                                    *)
LEMMA WorthBegins ==
  ASSUME IInv, PInv, PathHolds, MayCall, ~ raised,
         NEW c, c.op \in {"act", "skill", "wait", "finish"}, c.spent = 0, c.sum = Nothing
  PROVE  LET e == [env EXCEPT !.steps = @ + 1] IN
         /\ Worth(e, c, told) /\ EnvOK(e) /\ e.steps <= task.steps
         /\ e.view = env.view /\ e.account = env.account
<1> DEFINE e == [env EXCEPT !.steps = @ + 1]
<1>1. /\ TypeOK /\ EnvOK(env) /\ call = Idle /\ state = "live" /\ Idle.op = "none"
      /\ Worth(env, Idle, told) /\ Standing(world, env, Idle, told, "live", faults)
  BY CallsAre, IdleOK DEF MayCall, PInv
<1>2. EnvOK(e) /\ e.steps = env.steps + 1 /\ e.view = env.view /\ e.account = env.account
      /\ env.steps \in Nat
  BY <1>1, EnvFields DEF EnvOK, Environments
<1>3. e.steps <= task.steps
  BY <1>1, <1>2, TaskFacts DEF Standing, Budgeted
<1> HIDE DEF e
<1>4. /\ Skilled(c, c.spent) = 0 /\ Skilled(Idle, Idle.spent) = 0
      /\ Skilled(c, c.sum.plain) = 0 /\ Skilled(Idle, Idle.sum.plain) = 0
  BY <1>1, IdleOK DEF Skilled, Nothing
<1>5. Goes(c, told) = told.elapsed /\ Goes(Idle, told) = told.elapsed /\ told.elapsed \in Nat
  BY <1>1, <1>4, PaymentFields DEF Goes
<1>6. Goes(c, told) + 1 <= e.steps
  BY <1>1, <1>2, <1>5 DEF Worth
<1>7. Worth(e, c, told)
  BY <1>1, <1>4, <1>5, <1>6 DEF Worth
<1>q. QED  BY <1>2, <1>3, <1>7 DEF e

LEMMA ClientPays ==
  ASSUME IInv, PInv, Client
  PROVE  PInv'
<1>1. task' = task /\ raised' = raised
  BY DEF Client, Act, Skill, WaitFor, Finish, FinishUnmeasured, BridgeFinish, Calls
<1> SUFFICES ASSUME PathHolds, ~ raised  PROVE Worth(env', call', told')
  BY <1>1, PInvNext
<1>2. /\ MayCall /\ TypeOK /\ EnvOK(env) /\ task.verify = 0
  <2>1. MayCall
    BY DEF Client, Act, Skill, WaitFor, Finish, FinishUnmeasured, BridgeFinish
  <2>q. QED  BY <2>1, CallsAre, TaskFacts DEF PathHolds
<1> DEFINE e == [env EXCEPT !.steps = @ + 1]
<1>3. \A op \in {"act", "skill", "wait", "finish"} :
        /\ CallOK(Asked(op)) /\ Asked(op).op = op /\ Asked(op).spent = 0 /\ Asked(op).sum = Nothing
  <2>1. ASSUME NEW op \in {"act", "skill", "wait", "finish"}
        PROVE  CallOK(Asked(op)) /\ Asked(op).op = op /\ Asked(op).spent = 0
    BY <1>2, AskedOK
  <2>2. ASSUME NEW op  PROVE Asked(op).sum = Nothing
    BY DEF Asked, Idle
  <2>q. QED  BY <2>1, <2>2
<1>4. CASE Act \/ Skill
  <2>1. PICK op \in {"act", "skill"} : env' = e /\ call' = Asked(op) /\ told' = told
    BY <1>4 DEF Act, Skill, Calls
  <2>q. QED  BY <1>2, <1>3, <2>1, WorthBegins
<1>5. CASE WaitFor
  <2>1. PICK k \in 1 .. MaxWaits :
          env' = e /\ call' = [Asked("wait") EXCEPT !.waits = k] /\ told' = told
    BY <1>5 DEF WaitFor, Calls
  <2>2. call'.op = "wait" /\ call'.spent = 0 /\ call'.sum = Nothing
    BY <1>3, <2>1 DEF CallOK, ClientCalls
  <2>3. Worth(e, call', told)
    BY <1>2, <2>2, WorthBegins
  <2>q. QED  BY <2>1, <2>3
<1>6. CASE Finish \/ BridgeFinish
  BY <1>2, <1>6 DEF Finish, BridgeFinish
<1>7. CASE FinishUnmeasured
  <2> DEFINE pay == Paying(e, TRUE)
             f == [e EXCEPT !.account = pay.account]
             c == Asked("finish")
             m == Told(f, Gathered(c, pay), Seen(f.view.level, c), "terminated", Succeeded(e))
  <2>1. /\ Worth(e, c, told) /\ EnvOK(e) /\ e.steps <= task.steps
        /\ e.view = env.view /\ e.account = env.account
    BY <1>2, <1>3, WorthBegins
  <2>2. Succeeded(env) = Succeeded(e)
    BY <2>1 DEF Succeeded
  <2>3. pay = Accounted(env.account, task.kinds, env.view.level, Succeeded(env), TRUE)
    BY <2>1, <2>2 DEF Paying
  <2>4. f = [env EXCEPT !.steps = @ + 1, !.account = pay.account]
    BY <1>2 DEF EnvOK, Environments
  <2>5. Credited(f, e, pay) /\ f.view = e.view
    BY <1>2, <2>1, CreditedOK DEF Credited
  <2>6. Become(m)
    BY <1>7, <2>1, <2>2, <2>3, <2>4, <2>5 DEF FinishUnmeasured
  <2>7. m \in Answered(f, c, pay, "terminated", Succeeded(e))
    BY DEF Answered
  <2>8. Balanced(e, c, told, "live")
    <3>1. Balanced(env, Idle, told, "live")
      BY <1>2, CallsAre, IdleOK DEF MayCall, Standing
    <3>2. Skilled(c, c.plain) = Skilled(Idle, Idle.plain) /\ Skilled(c, c.spent) = Skilled(Idle, Idle.spent)
      BY <1>2, AskedOK, IdleOK DEF Skilled
    <3>q. QED  BY <2>1, <3>1, <3>2 DEF Balanced
  <2>9. CallOK(c) /\ c.op = "finish" /\ "terminated" \in States
    BY <1>3 DEF States
  <2> HIDE DEF c, e, f, m
  <2>10. Worth(m.env, m.call, m.told)
    BY <1>2, <2>1, <2>5, <2>7, <2>8, <2>9, AnsweredWorth DEF pay
  <2>q. QED  BY <2>6, <2>10 DEF Become
<1>q. QED  BY <1>4, <1>5, <1>6, <1>7 DEF Client

LEMMA AdoptingPays ==
  ASSUME IInv, PInv, StepSettles \/ ReadsTruth
  PROVE  PInv'
<1>1. task' = task /\ raised' = raised
  BY DEF StepSettles, ReadsTruth
<1> SUFFICES ASSUME PathHolds, ~ raised  PROVE Worth(env', call', told')
  BY <1>1, PInvNext
<1>2. /\ TypeOK /\ EnvOK(env) /\ CallOK(call) /\ world \in Views /\ UnderWay(call)
      /\ state = "live" /\ env.steps <= task.steps /\ call.op # "reset"
  BY CallsAre DEF IInv, StepSettles, ReadsTruth, Working
<1>3. Worth(env, call, told) /\ Balanced(env, call, told, "live")
  BY <1>2, CallsAre DEF PInv, Standing
<1>4. ASSUME NEW e, EnvOK(e), e.account = env.account, e.steps = env.steps,
             NEW m \in Adopted(e, call), Become(m)
      PROVE  Worth(env', call', told')
  <2>1. Worth(e, call, told) /\ Balanced(e, call, told, "live")
    BY <1>3, <1>4, WorthStays DEF Balanced
  <2>2. Worth(m.env, m.call, m.told)
    BY <1>2, <1>4, <2>1, AdoptedWorth
  <2>q. QED  BY <1>4, <2>2 DEF Become
<1>5. CASE StepSettles
  <2>1. PICK w \in Intervals(Ticks) : \E m \in Adopted([env EXCEPT !.view = w], call) : Become(m)
    BY <1>5 DEF StepSettles
  <2>2. w \in Views
    BY <1>2, <2>1, IntervalsOK, TicksOK
  <2>3. /\ EnvOK([env EXCEPT !.view = w]) /\ [env EXCEPT !.view = w].account = env.account
        /\ [env EXCEPT !.view = w].steps = env.steps
    BY <1>2, <2>2, ViewedOK
  <2>q. QED  BY <1>4, <2>1, <2>3
<1>6. CASE ReadsTruth
  <2> DEFINE v == [env.view EXCEPT !.level = world.level, !.made = world.made]
             e == [env EXCEPT !.view = v]
  <2>1. PICK m \in Adopted(e, call) : Become(m)
    <3>1. [env EXCEPT !.view.level = world.level, !.view.made = world.made] = e
      BY <1>2 DEF EnvOK, Environments
    <3>q. QED  BY <1>6, <3>1 DEF ReadsTruth
  <2>2. v \in Views
    BY <1>2, EnvFields DEF Views
  <2> HIDE DEF v
  <2>3. EnvOK(e) /\ e.account = env.account /\ e.steps = env.steps
    BY <1>2, <2>2, ViewedOK
  <2>q. QED  BY <1>4, <2>1, <2>3
<1>q. QED  BY <1>5, <1>6

LEMMA MovingPays ==
  ASSUME IInv, PInv, StepRefused \/ Observes \/ Disrupts
  PROVE  PInv'
<1>1. /\ task' = task /\ raised' = raised /\ told' = told /\ state' = state
      /\ \E at \in Places : call' = [call EXCEPT !.at = at]
  BY DEF StepRefused, Observes, Disrupts, After, Places
<1>2. PICK at \in Places : call' = [call EXCEPT !.at = at]
  BY <1>1
<1>3. EnvOK(env) /\ CallOK(call)
  BY CallsAre
<1>4. call'.op = call.op /\ call'.spent = call.spent /\ call'.sum = call.sum
  BY <1>2, <1>3 DEF CallOK, ClientCalls
<1>5. env'.steps = env.steps
  BY <1>3 DEF StepRefused, Observes, Disrupts, EnvOK, Environments
<1>6. Worth(env, call, told) => Worth(env', call', told')
  BY <1>1, <1>4, <1>5, WorthStays
<1>q. QED  BY <1>1, <1>4, <1>6, PInvNext DEF PInv

(* An episode begins with nothing paid.                                    *)
LEMMA WorthAtFirst ==
  ASSUME TypeOK, NEW e, e.steps \in Nat, NEW t, t.sum = Nothing, t.elapsed = 0, t.success = FALSE
  PROVE  Worth(e, Idle, t)
<1>1. Idle.op = "none" /\ Skilled(Idle, Idle.spent) = 0 /\ Skilled(Idle, Idle.sum.plain) = 0
  BY IdleOK DEF Skilled
<1>2. Goes(Idle, t) = 0 /\ Prize(t) = 0 /\ Risen(t) = 0 /\ t.sum.plain = 0 /\ t.sum.due = 0
  BY <1>1 DEF Goes, Prize, Risen, Nothing
<1>3. Weight(0) \in Nat /\ 2 ^ 0 \in Nat
  BY WeightIs, TaskFacts, PowerDoubles
<1>4. Costs(0) = 0
  BY <1>3 DEF Costs
<1>5. /\ Skilled(Idle, Idle.sum.plain) = 2 ^ t.elapsed * 0
      /\ t.sum.plain + 0 = Prize(t) + Risen(t) - Costs(Goes(Idle, t))
  BY <1>1, <1>2, <1>3, <1>4
<1>q. QED  BY <1>1, <1>2, <1>5 DEF Worth

LEMMA PaysNext == IInv /\ PInv /\ [Next]_vars => PInv'
<1> SUFFICES ASSUME IInv, PInv, [Next]_vars
             PROVE  PInv'
  OBVIOUS
<1>1. CASE Reset \/ ResetsWorld
  <2>1. TypeOK /\ CallOK(call) /\ Asked("reset").op = "reset" /\ CallOK(Asked("reset"))
    BY CallsAre, AskedOK
  <2>2. call'.op = "reset" /\ task' = task
    <3>1. CASE Reset
      BY <2>1, <3>1, MovedOK DEF Reset, Places
    <3>2. CASE ResetsWorld
      <4>1. call.op = "reset"
        BY <3>2, CallsAre DEF ResetsWorld
      <4>q. QED  BY <2>1, <3>2, <4>1, MovedOK DEF ResetsWorld, Places
    <3>q. QED  BY <1>1, <3>1, <3>2
  <2>q. QED  BY <2>2, PInvNext
<1>2. CASE Client
  BY <1>2, ClientPays
<1>3. CASE StepSettles \/ ReadsTruth
  BY <1>3, AdoptingPays
<1>4. CASE StepRefused \/ Observes \/ Disrupts
  BY <1>4, MovingPays
<1>5. CASE StepFails
  BY <1>5, ExcludedOrRaised, PInvNext
<1>6. CASE DisruptRaises \/ ReadRaises \/ ResetRaises
  <2>1. task' = task /\ raised'
    BY <1>6 DEF DisruptRaises, ReadRaises, ResetRaises, Raise
  <2>q. QED  BY <2>1, PInvNext
<1>7. CASE Begins
  <2>1. TypeOK /\ EnvOK(env) /\ env.steps \in Nat /\ task' = task
    BY <1>7, CallsAre, EnvFields DEF Begins
  <2>2. /\ call' = Idle /\ told'.sum = Nothing /\ told'.elapsed = 0 /\ told'.success = FALSE
    BY <1>7 DEF Begins
  <2>3. env'.steps = env.steps
    BY <1>7, <2>1 DEF Begins, EnvOK, Environments
  <2>4. Worth(env', Idle, told')
    BY <2>1, <2>2, <2>3, WorthAtFirst
  <2>q. QED  BY <2>1, <2>2, <2>4, PInvNext
<1>8. CASE UNCHANGED vars
  BY <1>8, PInvNext DEF vars, PInv
<1>q. QED  BY <1>1, <1>2, <1>3, <1>4, <1>5, <1>6, <1>7, <1>8 DEF Next, Session

(* Whatever the path, what the primitives are paid sums to the terminal    *)
(* reward, the capped rise of the best reading and their cost; and what a  *)
(* client adds up, discounted by the durations it is told (SkillEnv, whose *)
(* skills discount their own primitives), is what the same primitives are  *)
(* worth as decisions of their own.  A wait keeps the payout of its last   *)
(* interval alone, so a rise inside one is not paid for: no task where a   *)
(* client may wait has a high-water component.                             *)
THEOREM EachPaidOnce ==
  Spec => [](("wait" \in task.calls => "high" \notin task.kinds) => PaidOnce)
<1>1. ASSUME IInv, PInv, Settled, PathHolds
      PROVE  told.sum.plain = (IF told.success THEN Weight(told.elapsed - 1) * Sparse ELSE 0)
               + (IF "high" \in task.kinds THEN told.sum.due ELSE 0)
               - (IF "cost" \in task.kinds THEN 2 * Weight(0) - 2 * Weight(told.elapsed) ELSE 0)
  <2>1. /\ TypeOK /\ call = Idle /\ Idle.op = "none" /\ Worth(env, Idle, told)
        /\ Skilled(Idle, Idle.sum.plain) = 0 /\ Skilled(Idle, Idle.spent) = 0
    BY <1>1, SettledStands, IdleOK DEF Settled, PInv, Skilled
  <2>2. told.elapsed \in Nat /\ told.sum.plain \in Int /\ Goes(Idle, told) = told.elapsed
    BY <2>1, PaymentFields DEF Worth, Goes
  <2>3. PICK x \in Int :
          /\ 0 = 2 ^ told.elapsed * x
          /\ told.sum.plain + x = Prize(told) + Risen(told) - Costs(told.elapsed)
    BY <2>1, <2>2 DEF Worth
  <2>4. x = 0
    <3>1. ASSUME NEW p \in Nat \ {0}, 0 = p * x  PROVE x = 0
      BY <3>1
    <3>q. QED  BY <2>2, <2>3, <3>1, PowerDoubles
  <2>5. told.sum.plain + 0 = told.sum.plain
    BY <2>2
  <2>q. QED  BY <2>3, <2>4, <2>5 DEF Prize, Risen, Costs
<1>2. IInv /\ PInv => (("wait" \in task.calls => "high" \notin task.kinds) => PaidOnce)
  BY <1>1, PaidPlainly DEF PaidOnce, PathHolds
<1>3. Init => PInv
  <2> SUFFICES ASSUME Init  PROVE PInv
    OBVIOUS
  <2>1. TypeOK
    BY InitOK DEF IInv
  <2>2. /\ call = Idle /\ told.sum = Nothing /\ told.elapsed = 0 /\ told.success = FALSE
        /\ env.steps = 0
    BY DEF Init
  <2>3. Worth(env, Idle, told)
    <3>1. env.steps \in Nat
      BY <2>2
    <3>q. QED  BY <2>1, <2>2, <3>1, WorthAtFirst
  <2>q. QED  BY <2>2, <2>3 DEF PInv
<1>4. Spec => []PInv
  BY <1>3, PaysNext, Invariant, PTL DEF Spec
<1>q. QED  BY <1>2, <1>4, Invariant, PTL

-----------------------------------------------------------------------------
(* The environment's measure of production (module Production), beside the *)
(* episode and with a game and a thread of its own, for any window.        *)
(* First what the window holds, and that the criterion judges it soundly;  *)
(* then that the metric, which keeps every sample, judges alike.           *)
USE ParametersAssumption

Samples == [tick : Nat, count : Nat]

Phases == {"idle", "running", "settled", "observed", "opened", "looking", "fresh"}

(* The production history of the game only grows, within an episode.       *)
Grows ==
  /\ \A i, j \in 0 .. tick : i <= j => made[i] <= made[j]
  /\ \A i \in 0 .. tick : made[i] <= count

(* A sample is of a tick that has passed, and counts what was made by then *)
(* and nothing that was not made yet when it was read.                     *)
Honest(x) ==
  /\ x.tick <= tick - epoch
  /\ made[epoch + x.tick] <= x.count /\ x.count <= count

(* What the environment holds to be recorded.                              *)
Reading ==
  /\ thread \in [phase : Phases, sample : [tick : Int, count : Nat], until : Nat]
  /\ thread.phase \in {"settled", "fresh", "observed", "opened", "looking"} =>
       thread.sample \in Samples
  /\ thread.phase \in {"observed", "opened", "looking"} => thread.sample.tick <= tick - epoch
  /\ thread.phase = "settled" => Honest(thread.sample)

HonestWindow == \A i \in 1 .. Len(window) : Honest(window[i])

SampleInv == WTypeOK /\ Reading /\ Grows /\ HonestWindow

(* Recording keeps all but the latest, and makes the sample the latest.    *)
LEMMA RecordedIs ==
  ASSUME NEW s \in Seq(Samples), NEW x \in Samples
  PROVE  /\ Recorded(s, x) \in Seq(Samples)
         /\ Len(Recorded(s, x)) \in {Len(s), Len(s) + 1}
         /\ Len(Recorded(s, x)) > 0
         /\ Latest(Recorded(s, x)) = x
         /\ \A i \in 1 .. Len(Recorded(s, x)) - 1 : i \in 1 .. Len(s) /\ Recorded(s, x)[i] = s[i]
         /\ Len(Recorded(s, x)) = Len(s) <=> (s # << >> /\ Latest(s).tick = x.tick)
<1> DEFINE h == Recorded(s, x)
<1>1. CASE Len(s) > 0 /\ Latest(s).tick = x.tick
  <2>1. h = [s EXCEPT ![Len(s)] = x]
    BY <1>1 DEF Recorded
  <2> HIDE DEF h
  <2>2. h \in Seq(Samples) /\ Len(h) = Len(s) /\ h[Len(h)] = x
        /\ \A i \in 1 .. Len(s) - 1 : h[i] = s[i]
    BY <1>1, <2>1
  <2>3. s # << >>
    BY <1>1
  <2>4. QED  BY <1>1, <2>2, <2>3 DEF Latest, h
<1>2. CASE ~ (Len(s) > 0 /\ Latest(s).tick = x.tick)
  <2>1. h = Append(s, x)
    BY <1>2 DEF Recorded
  <2> HIDE DEF h
  <2>2. h \in Seq(Samples) /\ Len(h) = Len(s) + 1 /\ h[Len(h)] = x
        /\ \A i \in 1 .. Len(s) : h[i] = s[i]
    BY <2>1
  <2>3. ~ (s # << >> /\ Latest(s).tick = x.tick)
    BY <1>2
  <2>4. QED  BY <2>2, <2>3 DEF Latest, h
<1>3. QED  BY <1>1, <1>2

(* The bound drops the earliest sample, of more than it allows.            *)
LEMMA BoundedIs ==
  ASSUME NEW h \in Seq(Samples), Len(h) > 0, Len(h) <= WindowSamples + 1
  PROVE  \E d \in {0, 1} :
           /\ Bounded(h) \in Seq(Samples) /\ Len(Bounded(h)) = Len(h) - d
           /\ Len(Bounded(h)) > 0 /\ Len(Bounded(h)) <= WindowSamples
           /\ \A i \in 1 .. Len(Bounded(h)) : Bounded(h)[i] = h[i + d]
           /\ d = 1 => Len(Bounded(h)) = WindowSamples
<1>0. WindowSamples \in Nat \ {0, 1}
  BY DEF Parameters
<1> DEFINE w == Bounded(h)
<1>1. CASE Len(h) > WindowSamples
  <2>1. w = Tail(h)
    BY <1>1 DEF Bounded
  <2> HIDE DEF w
  <2>2. w \in Seq(Samples) /\ Len(w) = Len(h) - 1
        /\ \A i \in 1 .. Len(w) : w[i] = h[i + 1]
    BY <2>1
  <2>3. Len(w) = WindowSamples
    BY <1>0, <1>1, <2>2
  <2>4. QED  BY <1>0, <2>2, <2>3 DEF w
<1>2. CASE ~ Len(h) > WindowSamples
  <2>1. w = h
    BY <1>2 DEF Bounded
  <2> HIDE DEF w
  <2>2. \A i \in 1 .. Len(w) : w[i] = h[i + 0]
    BY <2>1
  <2>3. QED  BY <1>0, <1>2, <2>1, <2>2 DEF w
<1>3. QED  BY <1>1, <1>2

(* A window that holds what has happened holds it with one more sample.    *)
LEMMA AdoptedWindow ==
  ASSUME WTypeOK, NEW x \in Samples
  PROVE  LET w == Bounded(Recorded(window, x)) IN
         /\ w \in Seq(Samples) /\ Len(w) \in 1 .. WindowSamples
         /\ w[Len(w)] = x
         /\ \A i \in 1 .. Len(w) : w[i] = x \/ \E j \in 1 .. Len(window) : w[i] = window[j]
<1> DEFINE h == Recorded(window, x)
           w == Bounded(h)
<1>1. window \in Seq(Samples) /\ Len(window) <= WindowSamples /\ WindowSamples \in Nat \ {0, 1}
  BY DEF Parameters, WTypeOK, Samples
<1>2. /\ h \in Seq(Samples) /\ Len(h) > 0 /\ Len(h) <= WindowSamples + 1
      /\ h[Len(h)] = x
      /\ \A i \in 1 .. Len(h) - 1 : i \in 1 .. Len(window) /\ h[i] = window[i]
  <2>1. /\ h \in Seq(Samples) /\ Len(h) \in {Len(window), Len(window) + 1} /\ Len(h) > 0
        /\ Latest(h) = x
        /\ \A i \in 1 .. Len(h) - 1 : i \in 1 .. Len(window) /\ h[i] = window[i]
    BY <1>1, RecordedIs
  <2> HIDE DEF h
  <2>2. QED  BY <1>1, <2>1 DEF Latest
<1>3. \A i \in 1 .. Len(h) : h[i] = x \/ \E j \in 1 .. Len(window) : h[i] = window[j]
  <2> TAKE i \in 1 .. Len(h)
  <2>1. CASE i = Len(h)
    BY <1>2, <2>1
  <2>2. CASE i # Len(h)
    <3>1. i \in 1 .. Len(h) - 1
      BY <1>2, <2>2
    <3>2. i \in 1 .. Len(window) /\ h[i] = window[i]
      BY <1>2, <3>1
    <3>3. QED  BY <3>2
  <2>3. QED  BY <2>1, <2>2
<1> HIDE DEF h
<1>4. PICK d \in {0, 1} :
        /\ w \in Seq(Samples) /\ Len(w) = Len(h) - d
        /\ Len(w) > 0 /\ Len(w) <= WindowSamples
        /\ \A i \in 1 .. Len(w) : w[i] = h[i + d]
  BY <1>2, BoundedIs
<1> HIDE DEF w
<1>5. w[Len(w)] = x /\ \A i \in 1 .. Len(w) : i + d \in 1 .. Len(h)
  BY <1>1, <1>2, <1>4
<1>6. \A i \in 1 .. Len(w) : w[i] = x \/ \E j \in 1 .. Len(window) : w[i] = window[j]
  BY <1>3, <1>4, <1>5
<1>7. Len(w) \in 1 .. WindowSamples
  BY <1>1, <1>4
<1>8. QED  BY <1>4, <1>5, <1>6, <1>7 DEF w, h

LEMMA WindowTypes ==
  ASSUME WTypeOK
  PROVE  /\ window \in Seq(Samples) /\ samples \in Seq(Samples)
         /\ tick \in Nat /\ epoch \in Nat /\ epoch <= tick /\ tick <= MaxTick /\ MaxTick \in Nat
BY DEF Parameters, WTypeOK, Samples

(* What was sampled honestly stays so while the episode lasts.             *)
LEMMA HonestStays ==
  ASSUME WTypeOK, epoch' = epoch, tick' \in Nat, tick' >= tick,
         count' \in Nat, count' >= count,
         \A i \in 0 .. tick : made'[i] = made[i],
         NEW x \in Samples, Honest(x)
  PROVE  Honest(x)'
<1>1. tick \in Nat /\ epoch \in 0 .. tick /\ count \in Nat
      /\ x.tick \in Nat /\ x.count \in Nat
  BY DEF WTypeOK, Samples
<1>2. x.tick <= tick - epoch /\ made[epoch + x.tick] <= x.count /\ x.count <= count
  BY DEF Honest
<1>3. made'[epoch + x.tick] = made[epoch + x.tick]
  BY <1>1, <1>2
<1>4. QED  BY <1>1, <1>2, <1>3 DEF Honest

LEMMA WindowStays ==
  ASSUME WTypeOK, HonestWindow, epoch' = epoch, tick' \in Nat, tick' >= tick,
         count' \in Nat, count' >= count,
         \A i \in 0 .. tick : made'[i] = made[i], window' = window
  PROVE  HonestWindow'
<1> SUFFICES ASSUME NEW i \in 1 .. Len(window) PROVE Honest(window[i])'
  BY DEF HonestWindow
<1>1. window[i] \in Samples /\ Honest(window[i])
  BY WindowTypes DEF HonestWindow
<1>2. \A x \in Samples : Honest(x) => Honest(x)'
  BY HonestStays
<1>3. QED  BY <1>1, <1>2 DEF Honest

(* An honest sample joins an honest window.                                *)
LEMMA HonestAdopted ==
  ASSUME WTypeOK, HonestWindow, UNCHANGED <<tick, epoch, count, made>>,
         NEW x \in Samples, Honest(x), window' = Bounded(Recorded(window, x))
  PROVE  /\ HonestWindow'
         /\ window' \in Seq(Samples) /\ Len(window') \in 1 .. WindowSamples
         /\ window'[Len(window')] = x
<1>1. /\ window' \in Seq(Samples) /\ Len(window') \in 1 .. WindowSamples
      /\ window'[Len(window')] = x
      /\ \A i \in 1 .. Len(window') : window'[i] = x \/ \E j \in 1 .. Len(window) : window'[i] = window[j]
  BY AdoptedWindow
<1>2. \A i \in 1 .. Len(window') : Honest(window'[i])
  BY <1>1 DEF HonestWindow
<1>3. \A y : Honest(y)' <=> /\ y.tick <= tick - epoch
                           /\ made[epoch + y.tick] <= y.count /\ y.count <= count
  BY DEF Honest
<1>4. HonestWindow'
  BY <1>2 DEF HonestWindow, Honest
<1>5. QED  BY <1>1, <1>4

(* What the metrics record is a sample as well.                            *)
LEMMA MeasureOK ==
  ASSUME WTypeOK, NEW x \in Samples, Measure(x)
  PROVE  samples' \in Seq(Samples) /\ first' \in Nat \cup {-1}
<1>1. samples \in Seq(Samples) /\ first \in Nat \cup {-1} /\ x.tick \in Nat
  BY DEF WTypeOK, Samples
<1>2. samples' = Recorded(samples, x) /\ (first' = x.tick \/ first' = first)
  BY DEF Measure
<1>3. QED  BY <1>1, <1>2, RecordedIs

LEMMA WTick ==
  ASSUME SampleInv, Tick PROVE SampleInv'
<1>0. /\ tick \in Nat /\ tick < MaxTick /\ MaxTick \in Nat /\ epoch \in 0 .. tick /\ count \in Nat
      /\ made \in [0 .. MaxTick -> Nat] /\ Yield \in Nat
      /\ tick' = tick + 1 /\ made' = [made EXCEPT ![tick + 1] = count]
      /\ UNCHANGED <<epoch, window, samples, first, reading, begun, mixed>>
  BY DEF Parameters, SampleInv, WTypeOK, Tick
<1>1. count' \in Nat /\ count' >= count
  BY <1>0 DEF Tick
<1>2. /\ made' \in [0 .. MaxTick -> Nat]
      /\ \A i \in 0 .. tick : made'[i] = made[i]
      /\ made'[tick + 1] = count
  BY <1>0
<1>3. WTypeOK'
  BY <1>0, <1>1, <1>2 DEF SampleInv, WTypeOK
<1>4. Grows'
  BY <1>0, <1>1, <1>2 DEF SampleInv, Grows
<1>5. HonestWindow'
  BY <1>0, <1>1, <1>2, WindowStays DEF SampleInv
<1>6. CASE thread.phase = "running" /\ thread.until = tick + 1
  <2>1. thread' = At("settled", Sample(tick + 1 - epoch, count'), 0)
    BY <1>6 DEF Tick
  <2>2. tick + 1 - epoch \in Nat
    BY <1>0
  <2>3. PICK x \in Samples : x = Sample(tick + 1 - epoch, count')
    BY <1>1, <2>2 DEF Sample, Samples
  <2>4. Honest(x)'
    <3>1. x.tick = tick + 1 - epoch /\ x.count = count'
      BY <2>3 DEF Sample
    <3>2. epoch + x.tick = tick + 1
      BY <1>0, <3>1
    <3>3. QED  BY <1>0, <1>1, <1>2, <3>1, <3>2 DEF Honest
  <2>5. thread' = [phase |-> "settled", sample |-> x, until |-> 0]
    BY <2>1, <2>3 DEF At
  <2>6. Reading'
    BY <2>4, <2>5 DEF Reading, Samples, Phases, Honest
  <2>7. QED  BY <1>3, <1>4, <1>5, <2>6 DEF SampleInv
<1>7. CASE ~ (thread.phase = "running" /\ thread.until = tick + 1)
  <2>1. thread' = thread
    BY <1>7 DEF Tick
  <2>2. thread.phase = "settled" => Honest(thread.sample)'
    <3>1. \A x \in Samples : Honest(x) => Honest(x)'
      BY <1>0, <1>1, <1>2, HonestStays DEF SampleInv
    <3>2. QED  BY <2>1, <3>1 DEF SampleInv, Reading, Honest
  <2>3. thread.phase \in {"observed", "opened", "looking"} => thread.sample.tick <= tick' - epoch'
    BY <1>0 DEF SampleInv, Reading, Samples
  <2>4. Reading'
    BY <2>1, <2>2, <2>3 DEF SampleInv, Reading, Honest
  <2>5. QED  BY <1>3, <1>4, <1>5, <2>4 DEF SampleInv
<1>8. QED  BY <1>6, <1>7

LEMMA WStep ==
  ASSUME SampleInv, NEW n \in Lengths, Step(n) PROVE SampleInv'
<1>0. /\ tick \in Nat /\ count \in Nat /\ Yield \in Nat /\ n \in Nat
      /\ thread' = At("running", None, tick + n)
      /\ UNCHANGED <<tick, epoch, made, window, samples, first, reading, begun, mixed>>
  BY DEF Parameters, SampleInv, WTypeOK, Step
<1>1. count' \in Nat /\ count' >= count
  BY <1>0 DEF Step
<1>2. WTypeOK'
  BY <1>0, <1>1 DEF SampleInv, WTypeOK
<1>3. \A i \in 0 .. tick : made[i] <= count'
  <2> TAKE i \in 0 .. tick
  <2>1. made[i] \in Nat /\ made[i] <= count
    <3>1. made \in [0 .. MaxTick -> Nat] /\ i \in 0 .. MaxTick
      BY WindowTypes DEF SampleInv, WTypeOK
    <3>2. QED  BY <3>1 DEF SampleInv, Grows
  <2>2. QED  BY <1>0, <1>1, <2>1
<1>4. Grows'
  BY <1>0, <1>3 DEF SampleInv, Grows
<1>5. HonestWindow'
  BY <1>0, <1>1, WindowStays DEF SampleInv
<1>6. Reading'
  BY <1>0 DEF Reading, At, None, Phases
<1>7. QED  BY <1>2, <1>4, <1>5, <1>6 DEF SampleInv

(* Steps that leave the game alone keep its history.                       *)
LEMMA GameStays ==
  ASSUME SampleInv, UNCHANGED <<tick, epoch, count, made>> PROVE Grows'
BY DEF SampleInv, Grows

(* The environment adopts a sample that is honest.                         *)
LEMMA WAdopt ==
  ASSUME SampleInv, NEW x \in Samples, Honest(x), Adopt(x),
         thread' = AtRest, UNCHANGED <<tick, epoch, count, made, begun, reading, mixed>>
  PROVE  SampleInv'
<1>1. HonestWindow' /\ window' \in Seq(Samples) /\ Len(window') \in 1 .. WindowSamples
  BY HonestAdopted DEF Adopt, SampleInv
<1>2. samples' \in Seq(Samples) /\ first' \in Nat \cup {-1}
  BY MeasureOK DEF Adopt, SampleInv
<1>3. WTypeOK'
  BY <1>1, <1>2 DEF SampleInv, WTypeOK, Samples
<1>4. Reading'
  BY DEF Reading, AtRest, At, None, Phases
<1>5. QED  BY <1>1, <1>3, <1>4, GameStays DEF SampleInv

LEMMA WAdoptSettled ==
  ASSUME SampleInv, AdoptSettled PROVE SampleInv'
<1>1. thread.sample \in Samples /\ Honest(thread.sample)
  BY DEF AdoptSettled, SampleInv, Reading
<1>2. QED  BY <1>1, WAdopt DEF AdoptSettled, gameVars

(* What is read of a tick that has passed is an honest sample of it.       *)
LEMMA TruthIsHonest ==
  ASSUME SampleInv, NEW x \in Samples, x.tick <= tick - epoch
  PROVE  Sample(x.tick, count) \in Samples /\ Honest(Sample(x.tick, count))
<1>1. tick \in Nat /\ epoch \in 0 .. tick /\ x.tick \in Nat /\ count \in Nat
  BY DEF SampleInv, WTypeOK, Samples
<1>2. made[epoch + x.tick] <= count
  BY <1>1 DEF SampleInv, Grows
<1>3. QED  BY <1>1, <1>2 DEF Honest, Sample, Samples

LEMMA WReadTruth ==
  ASSUME SampleInv, ReadTruth PROVE SampleInv'
<1>1. thread.sample \in Samples /\ thread.sample.tick <= tick - epoch
  BY DEF ReadTruth, SampleInv, Reading
<1>2. QED  BY <1>1, TruthIsHonest, WAdopt DEF ReadTruth, gameVars

(* The environment asks for the world, and reads the tick of its answer.   *)
LEMMA WAsks ==
  ASSUME SampleInv, Resync \/ Observe PROVE SampleInv'
<1>1. /\ UNCHANGED <<tick, epoch, count, made, begun, window, samples, first, reading, mixed>>
      /\ \E p \in {"observed", "looking"} : thread' = At(p, Sample(tick - epoch, 0), 0)
  BY DEF Resync, Observe, gameVars
<1>2. tick - epoch \in Nat
  BY DEF SampleInv, WTypeOK
<1>3. Reading'
  BY <1>1, <1>2 DEF Reading, At, Sample, Samples, Phases
<1>4. WTypeOK' /\ HonestWindow'
  BY <1>1 DEF SampleInv, WTypeOK, HonestWindow, Honest
<1>5. QED  BY <1>1, <1>3, <1>4, GameStays DEF SampleInv

LEMMA WReset ==
  ASSUME SampleInv, EnvReset PROVE SampleInv'
<1>1. /\ tick \in Nat /\ tick' = tick /\ epoch' = tick /\ begun' = begun + 1 /\ begun < MaxBegun
      /\ window' = << >> /\ thread' = At("opened", Sample(0, 0), 0)
      /\ UNCHANGED <<samples, first, reading, mixed>>
      /\ WindowSamples \in Nat /\ MaxTick \in Nat /\ MaxBegun \in Nat
  BY DEF EnvReset, SampleInv, WTypeOK, Parameters
<1>2. \/ UNCHANGED <<count, made>>
      \/ count' = 0 /\ made' = [t \in 0 .. MaxTick |-> 0]
  BY DEF EnvReset
<1>3. count' \in Nat /\ made' \in [0 .. MaxTick -> Nat]
  BY <1>2 DEF SampleInv, WTypeOK
<1>4. WTypeOK'
  BY <1>1, <1>3 DEF Parameters, SampleInv, WTypeOK
<1>5. Grows'
  <2>1. CASE UNCHANGED <<count, made>>
    BY <1>1, <2>1 DEF SampleInv, Grows
  <2>2. CASE count' = 0 /\ made' = [t \in 0 .. MaxTick |-> 0]
    <3>1. \A i \in 0 .. tick : made'[i] = 0
      BY <2>2, WindowTypes DEF SampleInv
    <3>2. QED  BY <1>1, <2>2, <3>1 DEF Grows
  <2>3. QED  BY <1>2, <2>1, <2>2
<1>6. Reading' /\ HonestWindow'
  BY <1>1 DEF Reading, HonestWindow, At, Sample, Samples, Phases
<1>7. QED  BY <1>4, <1>5, <1>6 DEF SampleInv

LEMMA WReadFirstTruth ==
  ASSUME SampleInv, ReadFirstTruth PROVE SampleInv'
<1> DEFINE x == Sample(thread.sample.tick, count)
<1>1. thread.sample \in Samples /\ thread.sample.tick <= tick - epoch
  BY DEF ReadFirstTruth, SampleInv, Reading
<1>2. x \in Samples /\ Honest(x)
  BY <1>1, TruthIsHonest
<1>3. /\ UNCHANGED <<tick, epoch, count, made, begun, reading>>
      /\ window' = Bounded(Recorded(window, x))
      /\ samples' = << >> /\ first' = -1 /\ mixed' = FALSE
      /\ thread' = At("fresh", x, 0)
  BY DEF ReadFirstTruth, ClearedMetrics, gameVars
<1> HIDE DEF x
<1>4. HonestWindow' /\ window' \in Seq(Samples) /\ Len(window') \in 1 .. WindowSamples
  BY <1>2, <1>3, HonestAdopted DEF SampleInv
<1>5. WTypeOK'
  <2>1. samples' \in Seq(Samples) /\ first' \in Nat \cup {-1}
    BY <1>3
  <2>2. mixed' \in BOOLEAN
    BY <1>3
  <2>3. Len(window') <= WindowSamples
    BY <1>4 DEF Parameters
  <2>4. QED  BY <1>3, <1>4, <2>1, <2>2, <2>3 DEF SampleInv, WTypeOK, Samples
<1>6. Reading'
  BY <1>2, <1>3 DEF Reading, At, Samples, Phases
<1>7. QED  BY <1>3, <1>4, <1>5, <1>6, GameStays DEF SampleInv

LEMMA WRecordFirst ==
  ASSUME SampleInv, RecordFirst PROVE SampleInv'
<1>1. /\ UNCHANGED <<tick, epoch, count, made, begun, window, reading, mixed>>
      /\ thread' = AtRest /\ Measure(thread.sample) /\ thread.sample \in Samples
  BY DEF RecordFirst, gameVars, SampleInv, Reading
<1>2. samples' \in Seq(Samples) /\ first' \in Nat \cup {-1}
  BY <1>1, MeasureOK DEF SampleInv
<1>3. WTypeOK' /\ HonestWindow'
  BY <1>1, <1>2 DEF SampleInv, WTypeOK, Samples, HonestWindow, Honest
<1>4. Reading'
  BY <1>1 DEF Reading, AtRest, At, None, Phases
<1>5. QED  BY <1>1, <1>3, <1>4, GameStays DEF SampleInv

(* The sampler's thread leaves the environment and its window alone.       *)
LEMMA WSampler ==
  ASSUME SampleInv, SamplerRead \/ SamplerRecord PROVE SampleInv'
<1>1. UNCHANGED <<tick, epoch, count, made, begun, thread, window>>
  BY DEF SamplerRead, SamplerRecord, gameVars
<1>2. Reading' /\ HonestWindow' /\ Grows'
  BY <1>1 DEF SampleInv, Reading, HonestWindow, Grows, Honest
<1>3. CASE SamplerRead
  <2>1. reading' \in [tick : Nat, count : Nat] /\ UNCHANGED <<samples, first, mixed>>
    BY <1>3 DEF SamplerRead, Sample, SampleInv, WTypeOK
  <2>2. WTypeOK'
    BY <1>1, <2>1 DEF SampleInv, WTypeOK
  <2>3. QED  BY <1>2, <2>2 DEF SampleInv
<1>4. CASE SamplerRecord
  <2>1. reading \in Samples /\ Measure(reading) /\ mixed' = TRUE /\ reading' = None
    BY <1>4 DEF SamplerRecord, SampleInv, WTypeOK, Samples
  <2>2. samples' \in Seq(Samples) /\ first' \in Nat \cup {-1}
    BY <2>1, MeasureOK DEF SampleInv
  <2>3. WTypeOK'
    BY <1>1, <2>1, <2>2 DEF SampleInv, WTypeOK, Samples
  <2>4. QED  BY <1>2, <2>3 DEF SampleInv
<1>5. QED  BY <1>3, <1>4

LEMMA WKept ==
  SampleInv /\ [WNext]_windowVars => SampleInv'
<1> SUFFICES ASSUME SampleInv, [WNext]_windowVars PROVE SampleInv'
  OBVIOUS
<1>1. CASE UNCHANGED windowVars
  BY <1>1 DEF windowVars, SampleInv, WTypeOK, Reading, Grows, HonestWindow, Honest
<1>2. CASE WNext
  BY <1>2, WTick, WStep, WAdoptSettled, WAsks, WReadTruth, WReset, WReadFirstTruth,
     WRecordFirst, WSampler DEF WNext
<1>3. QED  BY <1>1, <1>2

LEMMA WStarts ==
  WInit => SampleInv
<1> SUFFICES ASSUME WInit PROVE SampleInv
  OBVIOUS
<1>1. WTypeOK
  BY DEF WInit, WTypeOK, Parameters
<1>2. Reading /\ Grows /\ HonestWindow
  BY DEF WInit, Reading, Grows, HonestWindow, AtRest, At, None, Phases, Parameters
<1>3. QED  BY <1>1, <1>2 DEF SampleInv

-----------------------------------------------------------------------------
(* Where a window has elapsed its baseline is the last sample that is not  *)
(* younger than the cutoff, and there is a younger one.                    *)
LEMMA BaselineIs ==
  ASSUME NEW s \in Seq(Samples), Elapsed(s)
  PROVE  /\ Baseline(s) \in 1 .. Len(s) - 1
         /\ \A i \in 1 .. Baseline(s) : s[i].tick <= Cutoff(s)
         /\ s[Baseline(s) + 1].tick > Cutoff(s)
<1> DEFINE late == {i \in Nat : i \in 1 .. Len(s) /\ s[i].tick > Cutoff(s)}
<1>1. /\ \A i \in 1 .. Len(s) : s[i].tick \in Nat
      /\ OverTicks \in Nat \ {0} /\ Len(s) \in Nat /\ Len(s) >= 2
      /\ Cutoff(s) = s[Len(s)].tick - OverTicks
      /\ s[1].tick <= Cutoff(s)
  <2>1. \A i \in 1 .. Len(s) : s[i] \in Samples
    OBVIOUS
  <2>2. \A i \in 1 .. Len(s) : s[i].tick \in Nat
    BY <2>1 DEF Samples
  <2>3. OverTicks \in Nat \ {0} /\ Len(s) \in Nat
    BY DEF Parameters
  <2>4. Len(s) >= 2 /\ s[Len(s)].tick - s[1].tick >= OverTicks
    BY DEF Elapsed, Latest
  <2>5. Cutoff(s) = s[Len(s)].tick - OverTicks
    BY DEF Cutoff, Latest
  <2>6. s[Len(s)].tick \in Nat /\ s[1].tick \in Nat
    BY <2>2, <2>3, <2>4
  <2>7. QED  BY <2>2, <2>3, <2>4, <2>5, <2>6
<1>2. Len(s) \in late /\ late \subseteq Nat
  BY <1>1
<1>3. PICK k \in late : \A i \in late : i >= k
  <2>1. PICK k \in late : \A i \in late : ~ (<<i, k>> \in OpToRel(<, Nat))
    BY <1>2, NatLessThanWellFounded, WFMin
  <2>2. ASSUME NEW i \in late PROVE i >= k
    <3>1. i \in Nat /\ k \in Nat
      BY <1>2
    <3>2. ~ (i < k)
      BY <2>1, <3>1 DEF OpToRel
    <3>3. QED  BY <3>1, <3>2
  <2>3. QED  BY <2>2
<1>4. /\ k \in 1 .. Len(s) /\ s[k].tick > Cutoff(s)
      /\ k - 1 \in 1 .. Len(s) - 1
      /\ \A i \in 1 .. k - 1 : s[i].tick <= Cutoff(s)
      /\ s[(k - 1) + 1].tick > Cutoff(s)
  <2>1. k \in 1 .. Len(s) /\ s[k].tick > Cutoff(s) /\ k # 1
    BY <1>1
  <2>2. \A i \in 1 .. k - 1 : i \in 1 .. Len(s) /\ i \notin late
    BY <1>1, <1>3, <2>1
  <2>3. \A i \in 1 .. k - 1 : s[i].tick <= Cutoff(s)
    BY <1>1, <2>2
  <2>4. QED  BY <1>1, <2>1, <2>3
<1> HIDE DEF late
<1>5. k - 1 \in 1 .. Len(s) /\ IsBaseline(s, k - 1)
  BY <1>1, <1>4 DEF IsBaseline
<1>6. Baseline(s) \in 1 .. Len(s) /\ IsBaseline(s, Baseline(s))
  BY <1>5 DEF Baseline
<1>7. ASSUME NEW b \in 1 .. Len(s), IsBaseline(s, b) PROVE b = k - 1
  <2>1. \A i \in 1 .. b : s[i].tick <= Cutoff(s)
    BY <1>1, <1>7 DEF IsBaseline
  <2>2. b < k
    BY <1>1, <1>4, <2>1
  <2>3. b = Len(s) \/ s[b + 1].tick > Cutoff(s)
    BY <1>1, <1>7 DEF IsBaseline
  <2>4. ~ b + 1 \in 1 .. k - 1
    <3>1. ASSUME b + 1 \in 1 .. k - 1 PROVE FALSE
      <4>1. s[b + 1].tick <= Cutoff(s) /\ b # Len(s) /\ b + 1 \in 1 .. Len(s)
        BY <1>1, <1>4, <3>1
      <4>2. s[b + 1].tick \in Nat /\ Cutoff(s) \in Int
        BY <1>1, <4>1
      <4>3. QED  BY <2>3, <4>1, <4>2
    <3>2. QED  BY <3>1
  <2>5. QED  BY <1>1, <1>4, <2>2, <2>4
<1>8. Baseline(s) = k - 1
  BY <1>6, <1>7
<1>9. QED  BY <1>4, <1>8

(* A burst does not pass for a rate.                                       *)
LEMMA MetIsMade ==
  ASSUME SampleInv, Met(window)
  PROVE  MadeSince(Latest(window).tick) >= AtLeast
<1> DEFINE b == Baseline(window)
           n == Len(window)
           from == Latest(window).tick - OverTicks - MaxSampleGap + 1
<1>1. /\ window \in Seq(Samples)
      /\ tick \in Nat /\ epoch \in Nat /\ epoch <= tick /\ tick <= MaxTick /\ MaxTick \in Nat
      /\ made \in [0 .. MaxTick -> Nat] /\ count \in Nat
      /\ OverTicks \in Nat /\ MaxSampleGap \in Nat /\ AtLeast \in Nat
  BY WindowTypes DEF SampleInv, WTypeOK, Parameters
<1>0. /\ tick \in Nat /\ epoch \in Nat /\ epoch <= tick /\ tick <= MaxTick /\ MaxTick \in Nat
      /\ count \in Nat /\ OverTicks \in Nat /\ MaxSampleGap \in Nat /\ AtLeast \in Nat
  BY <1>1
<1>2. Elapsed(window) /\ Sampled(window) /\ Output(window) >= AtLeast
  BY DEF Met
<1>3. b \in 1 .. n - 1 /\ window[b + 1].tick > Cutoff(window)
  BY <1>1, <1>2, BaselineIs
<1>4. \A i \in 1 .. n : window[i] \in Samples /\ Honest(window[i])
  BY <1>1 DEF SampleInv, HonestWindow
<1>5. window[b + 1].tick - window[b].tick <= MaxSampleGap
  BY <1>2, <1>3 DEF Sampled
<1>6. window[n].count - window[b].count >= AtLeast
  BY <1>2 DEF Output, Latest
<1>7. from = window[n].tick - OverTicks - MaxSampleGap + 1
      /\ Cutoff(window) = window[n].tick - OverTicks
  BY DEF Latest, Cutoff
<1> HIDE DEF b, from
<1>8. n \in Nat /\ b \in 1 .. n /\ b + 1 \in 1 .. n /\ n \in 1 .. n
  BY <1>1, <1>3
<1>9. /\ window[b].tick \in Nat /\ window[b + 1].tick \in Nat /\ window[n].tick \in Nat
      /\ window[b].count \in Nat /\ window[n].count \in Nat
      /\ window[b].tick <= tick - epoch /\ made[epoch + window[b].tick] <= window[b].count
      /\ window[n].count <= count
  BY <1>4, <1>8 DEF Honest, Samples
<1>10. from <= window[b].tick /\ from \in Int
  <2> DEFINE B == window[b].tick  N == window[n].tick  C == window[b + 1].tick
  <2>1. B \in Nat /\ N \in Nat /\ C \in Nat
    BY <1>9
  <2>2. C > N - OverTicks /\ C - B <= MaxSampleGap /\ from = N - OverTicks - MaxSampleGap + 1
    BY <1>3, <1>5, <1>7
  <2> HIDE DEF B, N, C
  <2>3. from <= B /\ from \in Int
    BY <1>0, <2>1, <2>2
  <2>4. QED  BY <2>3 DEF B
<1>11. Entering(epoch + from) <= made[epoch + window[b].tick]
       /\ Entering(epoch + from) \in Nat
  <2> DEFINE t == IF epoch + from < epoch THEN epoch ELSE epoch + from
  <2>1. t \in 0 .. tick /\ epoch + window[b].tick \in 0 .. tick /\ t <= epoch + window[b].tick
    <3> DEFINE B == window[b].tick
    <3>1. B \in Nat /\ B <= tick - epoch /\ from <= B /\ from \in Int
      BY <1>9, <1>10
    <3> HIDE DEF B, from
    <3>2. t \in 0 .. tick /\ epoch + B \in 0 .. tick /\ t <= epoch + B
      BY <1>0, <3>1
    <3>3. QED  BY <3>2 DEF B
  <2>2. Entering(epoch + from) = made[t]
    <3>1. ~ epoch + from > tick
      BY <1>0, <1>9, <1>10
    <3>2. QED  BY <3>1 DEF Entering
  <2> HIDE DEF t
  <2>3. made[t] <= made[epoch + window[b].tick]
    BY <2>1 DEF SampleInv, Grows
  <2>4. made[t] \in Nat
    BY <1>1, <2>1
  <2>5. QED  BY <2>2, <2>3, <2>4
<1>12. made[epoch + window[b].tick] \in Nat
  <2>1. epoch + window[b].tick \in 0 .. MaxTick
    <3> DEFINE B == window[b].tick
    <3>1. B \in Nat /\ B <= tick - epoch
      BY <1>9
    <3> HIDE DEF B
    <3>2. epoch + B \in 0 .. MaxTick
      BY <1>0, <3>1
    <3>3. QED  BY <3>2 DEF B
  <2>2. QED  BY <1>1, <2>1
<1>13. MadeSince(Latest(window).tick) = count - Entering(epoch + from)
  <2>1. epoch + Latest(window).tick - OverTicks - MaxSampleGap + 1 = epoch + from
    <3>1. Latest(window).tick = window[n].tick
      BY DEF Latest
    <3>2. window[n].tick \in Nat
      BY <1>9
    <3>3. QED  BY <1>0, <1>7, <3>1, <3>2
  <2>2. QED  BY <2>1 DEF MadeSince
<1>14. QED
  <2> DEFINE E == Entering(epoch + from)  B == window[b].count  N == window[n].count
             M == made[epoch + window[b].tick]
  <2>1. E <= M /\ M <= B /\ N - B >= AtLeast /\ N <= count
    BY <1>6, <1>9, <1>11
  <2>2. E \in Nat /\ M \in Nat /\ B \in Nat /\ N \in Nat
    BY <1>9, <1>11, <1>12
  <2>3. MadeSince(Latest(window).tick) = count - E
    BY <1>13
  <2> HIDE DEF E, B, N, M
  <2>4. count - E >= AtLeast
    BY <1>0, <2>1, <2>2
  <2>5. QED  BY <2>3, <2>4

(* When SUSTAINED_OUTPUT is satisfied the world made at_least items in the *)
(* window, give or take one sample gap, for any window, any spacing of the *)
(* samples, whether or not the world runs on between requests (spec.py     *)
(* window_elapsed, window_sampled, window_output; env.py _record_window).  *)
THEOREM CriterionIsSound ==
  WSpec => []CriterionSound
<1>1. SampleInv => CriterionSound
  BY MetIsMade DEF CriterionSound
<1>2. WSpec => []SampleInv
  BY WStarts, WKept, PTL DEF WSpec
<1>3. QED  BY <1>1, <1>2, PTL

-----------------------------------------------------------------------------
(* The metric and the criterion.  What is adopted lies at least m ticks    *)
(* after what was adopted before, or replaces it; so a history that drops  *)
(* its earliest sample still spans the window.                             *)
Spacing(m) ==
  m \in Nat \ {0} /\ (m = 1 \/ (~ FreeRunning /\ \A n \in Lengths : n >= m))

HistorySpans(m) == Spacing(m) /\ OverTicks <= (WindowSamples - 1) * m

Spaced(s, m) ==
  \A i, j \in 1 .. Len(s) : i <= j => s[j].tick - s[i].tick >= (j - i) * m

(* The history of the criterion is the end of that of the metric.          *)
IsEndOf(w, s) ==
  \E d \in Nat :
    /\ Len(s) = Len(w) + d /\ \A i \in 1 .. Len(w) : w[i] = s[i + d]
    /\ d > 0 => Len(w) = WindowSamples

Passed(t) == t \in Nat /\ t <= tick - epoch /\ (~ FreeRunning => t = tick - epoch)

Follows(t, m) ==
  window # << >> /\ (t = Latest(window).tick \/ t >= Latest(window).tick + m)

(* What is recorded next follows what was recorded.                        *)
Ordered(m) ==
  /\ thread.phase \in {"settled", "observed", "looking", "fresh"} => Passed(thread.sample.tick)
  /\ thread.phase \in {"settled", "observed"} => Follows(thread.sample.tick, m)
  /\ thread.phase = "idle" /\ begun > 0 =>
       window # << >> /\ Passed(Latest(window).tick)
  /\ thread.phase = "running" =>
       window # << >> /\ thread.until > tick
       /\ thread.until - epoch >= Latest(window).tick + m
  /\ thread.phase \in {"opened", "looking"} \/ begun = 0 => window = << >>
  /\ begun = 0 => thread.phase = "idle" /\ samples = << >> /\ reading = None
  /\ thread.phase = "fresh" => window = << thread.sample >>

Copies(m) ==
  /\ ~ mixed /\ thread.phase \in {"idle", "running", "settled", "observed"} =>
       IsEndOf(window, samples) /\ Spaced(samples, m)
  /\ ~ mixed /\ thread.phase = "fresh" => samples = << >>

AgreeInv(m) == SampleInv /\ Ordered(m) /\ Copies(m)

(* Spacing by m ticks makes the ticks increase.                            *)
LEMMA SpacedIncreases ==
  ASSUME NEW s \in Seq(Samples), NEW m \in Nat \ {0}, Spaced(s, m)
  PROVE  \A i, j \in 1 .. Len(s) : i <= j => s[i].tick <= s[j].tick
<1> SUFFICES ASSUME NEW i \in 1 .. Len(s), NEW j \in 1 .. Len(s), i <= j
             PROVE  s[i].tick <= s[j].tick
  OBVIOUS
<1>1. s[j].tick - s[i].tick >= (j - i) * m
  BY DEF Spaced
<1>2. (j - i) * m >= 0
  <2>1. j - i \in Nat /\ m \in Nat
    OBVIOUS
  <2>2. QED  BY <2>1
<1>3. s[i] \in Samples /\ s[j] \in Samples
  OBVIOUS
<1>4. s[i].tick \in Nat /\ s[j].tick \in Nat
  BY <1>3 DEF Samples
<1>5. QED
  <2> DEFINE a == s[i].tick  b == s[j].tick  c == (j - i) * m
  <2>1. a \in Nat /\ b \in Nat /\ c \in Int /\ b - a >= c /\ c >= 0
    BY <1>1, <1>2, <1>4
  <2> HIDE DEF a, b, c
  <2>2. a <= b
    BY <2>1
  <2>3. QED  BY <2>2 DEF a, b

(* Of the same samples the two say the same, however many were dropped.    *)
LEMMA SameVerdict ==
  ASSUME NEW m \in Nat \ {0},
         NEW s \in Seq(Samples), NEW w \in Seq(Samples), w # << >>,
         IsEndOf(w, s), Spaced(s, m), Len(w) < WindowSamples \/ Elapsed(w)
  PROVE  Met(w) <=> (Sustained(s) /\ Latest(s).tick >= NotBefore)
<1>1. PICK d \in Nat :
        /\ Len(s) = Len(w) + d /\ \A i \in 1 .. Len(w) : w[i] = s[i + d]
        /\ d > 0 => Len(w) = WindowSamples
  BY DEF IsEndOf
<1>2. /\ Len(w) \in Nat \ {0} /\ OverTicks \in Nat \ {0} /\ WindowSamples \in Nat \ {0, 1}
  BY DEF Parameters
<1>3. \A i \in 1 .. Len(s) : s[i].tick \in Nat
  <2>1. \A i \in 1 .. Len(s) : s[i] \in Samples
    OBVIOUS
  <2>2. QED  BY <2>1 DEF Samples
<1>4. \A i, j \in 1 .. Len(s) : i <= j => s[i].tick <= s[j].tick
  BY <1>2, SpacedIncreases
<1>5. Latest(w) = Latest(s) /\ Cutoff(w) = Cutoff(s)
  <2>1. w[Len(w)] = s[Len(w) + d]
    BY <1>1, <1>2
  <2>2. QED  BY <1>1, <2>1 DEF Latest, Cutoff
<1>6. Elapsed(w) => Elapsed(s)
  <2> SUFFICES ASSUME Elapsed(w) PROVE Elapsed(s)
    OBVIOUS
  <2>1. Len(w) >= 2 /\ Latest(w).tick - w[1].tick >= OverTicks
    BY DEF Elapsed
  <2>2. w[1] = s[1 + d] /\ 1 + d \in 1 .. Len(s) /\ 1 \in 1 .. Len(s) /\ 1 <= 1 + d
        /\ Len(s) \in 1 .. Len(s)
    BY <1>1, <1>2, <2>1
  <2>3. s[1].tick <= s[1 + d].tick
    BY <1>4, <2>2
  <2> DEFINE a == s[1].tick  b == s[1 + d].tick  c == s[Len(s)].tick
  <2>4. a \in Nat /\ b \in Nat /\ c \in Nat /\ a <= b /\ c - b >= OverTicks
    BY <1>3, <1>5, <2>1, <2>2, <2>3 DEF Latest
  <2>5. Len(s) >= 2
    BY <1>1, <1>2, <2>1
  <2> HIDE DEF a, b, c
  <2>6. c - a >= OverTicks
    BY <1>2, <2>4
  <2>7. QED  BY <2>5, <2>6 DEF Elapsed, Latest, a, c
<1>7. Elapsed(s) => Elapsed(w)
  <2> SUFFICES ASSUME Elapsed(s) PROVE Elapsed(w)
    OBVIOUS
  <2>1. CASE d = 0
    <3>1. Len(w) = Len(s) /\ w[1] = s[1]
      BY <1>1, <1>2, <2>1
    <3>2. QED  BY <1>5, <3>1 DEF Elapsed
  <2>2. CASE d > 0
    BY <1>1, <1>2, <2>2
  <2>3. QED  BY <1>1, <2>1, <2>2
<1>8. ASSUME Elapsed(w), Elapsed(s)
      PROVE  (Sampled(w) <=> Sampled(s)) /\ Output(w) = Output(s)
  <2> DEFINE b == Baseline(w)  c == Baseline(s)
  <2>1. b \in 1 .. Len(w) - 1 /\ w[b].tick <= Cutoff(w) /\ w[b + 1].tick > Cutoff(w)
    <3>1. /\ b \in 1 .. Len(w) - 1
          /\ \A i \in 1 .. b : w[i].tick <= Cutoff(w)
          /\ w[b + 1].tick > Cutoff(w)
      BY <1>8, BaselineIs
    <3> HIDE DEF b
    <3>2. b \in 1 .. b
      BY <1>2, <3>1
    <3>3. QED  BY <3>1, <3>2
  <2>2. /\ c \in 1 .. Len(s) - 1
        /\ \A i \in 1 .. c : s[i].tick <= Cutoff(s)
        /\ s[c + 1].tick > Cutoff(s)
    BY <1>8, BaselineIs
  <2> HIDE DEF b, c
  <2>3. s[b + d].tick <= Cutoff(s) /\ s[b + d + 1].tick > Cutoff(s)
    <3>1. b \in 1 .. Len(w) /\ b + 1 \in 1 .. Len(w) /\ (b + 1) + d = b + d + 1
      BY <1>1, <1>2, <2>1
    <3>2. w[b] = s[b + d] /\ w[b + 1] = s[(b + 1) + d]
      BY <1>1, <3>1
    <3>3. QED  BY <1>5, <2>1, <3>1, <3>2
  <2>4. Cutoff(s) \in Int /\ b + d \in 1 .. Len(s) - 1 /\ c \in Nat /\ b \in Nat
    <3>1. Len(s) \in 1 .. Len(s) /\ b \in Nat /\ c \in Nat
      BY <1>1, <1>2, <2>1, <2>2
    <3>2. Cutoff(s) \in Int
      BY <1>2, <1>3, <3>1 DEF Cutoff, Latest
    <3>3. QED  BY <1>1, <1>2, <2>1, <3>1, <3>2
  <2>5. ~ b + d > c
    <3> SUFFICES ASSUME b + d > c PROVE FALSE
      OBVIOUS
    <3>1. c + 1 \in 1 .. Len(s) /\ b + d \in 1 .. Len(s) /\ c + 1 <= b + d
      BY <1>1, <1>2, <2>2, <2>4
    <3>2. s[c + 1].tick <= s[b + d].tick
      BY <1>4, <3>1
    <3>3. s[c + 1].tick \in Nat /\ s[b + d].tick \in Nat
      BY <1>3, <3>1
    <3>4. QED  BY <2>2, <2>3, <2>4, <3>2, <3>3
  <2>6. ~ b + d < c
    <3> SUFFICES ASSUME b + d < c PROVE FALSE
      OBVIOUS
    <3>1. b + d + 1 \in 1 .. c /\ b + d + 1 \in 1 .. Len(s)
      BY <1>1, <1>2, <2>2, <2>4
    <3>2. s[b + d + 1].tick <= Cutoff(s) /\ s[b + d + 1].tick \in Nat
      BY <1>3, <2>2, <3>1
    <3>3. QED  BY <2>3, <2>4, <3>2
  <2>7. c = b + d
    BY <1>1, <2>4, <2>5, <2>6
  <2>8. w[b] = s[c]
    BY <1>1, <1>2, <2>1, <2>7
  <2>9. Output(w) = Output(s)
    BY <1>5, <2>8 DEF Output, b, c
  <2>10. Sampled(s) => Sampled(w)
    <3> SUFFICES ASSUME Sampled(s), NEW i \in b .. Len(w) - 1
                 PROVE  b < Len(w) /\ w[i + 1].tick - w[i].tick <= MaxSampleGap
      BY <1>2, <2>1 DEF Sampled, b
    <3>1. /\ i \in 1 .. Len(w) /\ i + 1 \in 1 .. Len(w)
          /\ i + d \in c .. Len(s) - 1 /\ (i + 1) + d = (i + d) + 1
      BY <1>1, <1>2, <2>1, <2>4, <2>7
    <3>2. w[i] = s[i + d] /\ w[i + 1] = s[(i + d) + 1]
      BY <1>1, <3>1
    <3>3. s[(i + d) + 1].tick - s[i + d].tick <= MaxSampleGap
      BY <3>1 DEF Sampled, c
    <3>4. b < Len(w)
      BY <1>2, <2>1
    <3>5. QED  BY <3>2, <3>3, <3>4
  <2>11. Sampled(w) => Sampled(s)
    <3> SUFFICES ASSUME Sampled(w), NEW i \in c .. Len(s) - 1
                 PROVE  c < Len(s) /\ s[i + 1].tick - s[i].tick <= MaxSampleGap
      BY <1>1, <1>2, <2>2 DEF Sampled, c
    <3>1. /\ i - d \in b .. Len(w) - 1 /\ (i - d) + d = i /\ ((i - d) + 1) + d = i + 1
          /\ i - d \in 1 .. Len(w) /\ (i - d) + 1 \in 1 .. Len(w)
      BY <1>1, <1>2, <2>1, <2>4, <2>7
    <3>2. w[i - d] = s[i] /\ w[(i - d) + 1] = s[i + 1]
      BY <1>1, <3>1
    <3>3. w[(i - d) + 1].tick - w[i - d].tick <= MaxSampleGap
      BY <3>1 DEF Sampled, b
    <3>4. c < Len(s)
      BY <1>1, <1>2, <2>2
    <3>5. QED  BY <3>2, <3>3, <3>4
  <2>12. QED  BY <2>9, <2>10, <2>11
<1>9. QED
  BY <1>5, <1>6, <1>7, <1>8 DEF Met, Sustained

(* A full history of samples m ticks apart spans the window.               *)
LEMMA FullSpans ==
  ASSUME NEW m, HistorySpans(m),
         NEW s \in Seq(Samples), NEW w \in Seq(Samples), IsEndOf(w, s), Spaced(s, m),
         Len(w) >= WindowSamples, Len(w) <= WindowSamples
  PROVE  Elapsed(w)
<1>1. PICK d \in Nat : Len(s) = Len(w) + d /\ \A i \in 1 .. Len(w) : w[i] = s[i + d]
  BY DEF IsEndOf
<1>2. /\ WindowSamples \in Nat \ {0, 1} /\ Len(w) = WindowSamples /\ m \in Nat \ {0}
      /\ OverTicks \in Nat
  BY DEF Parameters, HistorySpans, Spacing
<1>3. /\ w[1] = s[1 + d] /\ w[Len(w)] = s[Len(s)]
      /\ 1 + d \in 1 .. Len(s) /\ Len(s) \in 1 .. Len(s) /\ 1 + d <= Len(s)
  BY <1>1, <1>2
<1>4. s[Len(s)].tick - s[1 + d].tick >= (Len(s) - (1 + d)) * m
  BY <1>3 DEF Spaced
<1>5. Len(s) - (1 + d) = WindowSamples - 1
  BY <1>1, <1>2
<1>6. s[Len(s)] \in Samples /\ s[1 + d] \in Samples
  BY <1>3
<1> DEFINE b == s[1 + d].tick  c == s[Len(s)].tick  p == (WindowSamples - 1) * m
<1>7. p \in Int
  <2>1. WindowSamples - 1 \in Int /\ m \in Int
    BY <1>2
  <2>2. QED  BY <2>1
<1>8. OverTicks <= p /\ b \in Nat /\ c \in Nat /\ c - b >= p
  BY <1>4, <1>5, <1>6 DEF HistorySpans, Samples
<1> HIDE DEF b, c, p
<1>9. c - b >= OverTicks
  BY <1>2, <1>7, <1>8
<1>10. QED
  BY <1>2, <1>3, <1>9 DEF Elapsed, Latest, b, c

(* One more sample, which follows the latest, keeps the spacing.           *)
LEMMA SpacedRecorded ==
  ASSUME NEW m \in Nat \ {0}, NEW s \in Seq(Samples), s # << >>, Spaced(s, m),
         NEW x \in Samples,
         x.tick = Latest(s).tick \/ x.tick >= Latest(s).tick + m
  PROVE  Spaced(Recorded(s, x), m)
<1> DEFINE k == Recorded(s, x)
<1>1. /\ k \in Seq(Samples) /\ Len(k) \in {Len(s), Len(s) + 1} /\ Len(k) > 0
      /\ Latest(k) = x
      /\ \A i \in 1 .. Len(k) - 1 : i \in 1 .. Len(s) /\ k[i] = s[i]
      /\ Len(k) = Len(s) <=> (s # << >> /\ Latest(s).tick = x.tick)
  BY RecordedIs
<1> HIDE DEF k
<1>2. Len(s) \in Nat \ {0} /\ k[Len(k)] = x /\ Latest(s) = s[Len(s)]
  BY <1>1 DEF Latest
<1>3. \A i \in 1 .. Len(s) : s[i].tick \in Nat
  <2>1. \A i \in 1 .. Len(s) : s[i] \in Samples
    OBVIOUS
  <2>2. QED  BY <2>1 DEF Samples
<1>4. x.tick \in Nat
  BY DEF Samples
<1> SUFFICES ASSUME NEW i \in 1 .. Len(k), NEW j \in 1 .. Len(k), i <= j
             PROVE  k[j].tick - k[i].tick >= (j - i) * m
  BY DEF Spaced, k
<1>5. CASE Len(k) = Len(s)
  <2>1. \A l \in 1 .. Len(s) : k[l].tick = s[l].tick
    <3> TAKE l \in 1 .. Len(s)
    <3>1. CASE l = Len(s)
      BY <1>1, <1>2, <1>5, <3>1
    <3>2. CASE l # Len(s)
      BY <1>1, <1>2, <1>5, <3>2
    <3>3. QED  BY <3>1, <3>2
  <2>2. s[j].tick - s[i].tick >= (j - i) * m
    BY <1>5 DEF Spaced
  <2>3. k[i].tick = s[i].tick /\ k[j].tick = s[j].tick
    BY <1>5, <2>1
  <2>4. QED  BY <2>2, <2>3
<1>6. CASE Len(k) = Len(s) + 1
  <2>1. CASE j # Len(k)
    <3>1. k[i] = s[i] /\ k[j] = s[j] /\ i \in 1 .. Len(s) /\ j \in 1 .. Len(s)
      BY <1>1, <1>2, <1>6, <2>1
    <3>2. QED  BY <3>1 DEF Spaced
  <2>2. CASE i = Len(k)
    <3>1. j = i /\ k[i].tick = x.tick
      BY <1>2, <1>6, <2>2
    <3>2. (j - i) * m = 0
      BY <3>1
    <3>3. QED  BY <1>4, <3>1, <3>2
  <2>3. CASE j = Len(k) /\ i # Len(k)
    <3> DEFINE n == Len(s)
    <3>1. i \in 1 .. n /\ n \in 1 .. n /\ i <= n /\ k[i] = s[i] /\ k[j] = x /\ j = n + 1
      BY <1>1, <1>2, <1>6, <2>3
    <3>2. s[n].tick - s[i].tick >= (n - i) * m
      BY <3>1 DEF Spaced
    <3>3. x.tick >= s[n].tick + m
      BY <1>1, <1>2, <1>6
    <3> DEFINE a == s[i].tick  b == s[n].tick  c == x.tick  p == (n - i) * m
    <3>4. (j - i) * m = p + m /\ p \in Int
      <4>1. n - i \in Nat /\ j - i = (n - i) + 1
        BY <3>1
      <4> DEFINE q == n - i
      <4> HIDE DEF q
      <4>2. q \in Nat /\ j - i = q + 1
        BY <4>1 DEF q
      <4>3. (q + 1) * m = q * m + m /\ q * m \in Int
        BY <4>2
      <4>4. QED  BY <4>2, <4>3 DEF q
    <3>5. a \in Nat /\ b \in Nat /\ c \in Nat /\ b - a >= p /\ c >= b + m
      BY <1>3, <1>4, <3>1, <3>2, <3>3
    <3> HIDE DEF a, b, c, p
    <3>6. c - a >= p + m
      BY <3>4, <3>5
    <3>7. QED  BY <3>1, <3>4, <3>6 DEF a, c
  <2>4. QED  BY <2>1, <2>2, <2>3
<1>7. QED  BY <1>1, <1>5, <1>6

(* Both lists take the sample alike, and what is dropped is dropped from a *)
(* full history.                                                           *)
LEMMA EndsRecorded ==
  ASSUME NEW s \in Seq(Samples), NEW w \in Seq(Samples), w # << >>,
         Len(w) <= WindowSamples, IsEndOf(w, s), NEW x \in Samples
  PROVE  IsEndOf(Bounded(Recorded(w, x)), Recorded(s, x))
<1> DEFINE k == Recorded(s, x)
           h == Recorded(w, x)
           v == Bounded(h)
<1>1. PICK d \in Nat :
        /\ Len(s) = Len(w) + d /\ \A i \in 1 .. Len(w) : w[i] = s[i + d]
        /\ d > 0 => Len(w) = WindowSamples
  BY DEF IsEndOf
<1>2. /\ Len(w) \in Nat \ {0} /\ WindowSamples \in Nat \ {0, 1} /\ s # << >>
      /\ Latest(w) = Latest(s)
  <2>1. Len(w) \in Nat \ {0} /\ WindowSamples \in Nat \ {0, 1} /\ s # << >>
    BY <1>1 DEF Parameters
  <2>2. w[Len(w)] = s[Len(w) + d]
    BY <1>1, <2>1
  <2>3. QED  BY <1>1, <2>1, <2>2 DEF Latest
<1>3. /\ k \in Seq(Samples) /\ Len(k) \in {Len(s), Len(s) + 1}
      /\ k[Len(k)] = x
      /\ \A i \in 1 .. Len(k) - 1 : i \in 1 .. Len(s) /\ k[i] = s[i]
      /\ Len(k) = Len(s) <=> Latest(s).tick = x.tick
  BY <1>2, RecordedIs DEF Latest
<1>4. /\ h \in Seq(Samples) /\ Len(h) \in {Len(w), Len(w) + 1} /\ Len(h) > 0
      /\ h[Len(h)] = x
      /\ \A i \in 1 .. Len(h) - 1 : i \in 1 .. Len(w) /\ h[i] = w[i]
      /\ Len(h) = Len(w) <=> Latest(w).tick = x.tick
  BY RecordedIs DEF Latest
<1> HIDE DEF k, h
<1>5. PICK e \in {0, 1} :
        /\ v \in Seq(Samples) /\ Len(v) = Len(h) - e
        /\ Len(v) > 0 /\ Len(v) <= WindowSamples
        /\ \A i \in 1 .. Len(v) : v[i] = h[i + e]
        /\ e = 1 => Len(v) = WindowSamples
  <2>1. Len(h) <= WindowSamples + 1
    BY <1>2, <1>4
  <2>2. QED  BY <1>4, <2>1, BoundedIs
<1> HIDE DEF v
<1>6. Len(k) = Len(h) + d
  BY <1>1, <1>2, <1>3, <1>4
<1>7. \A i \in 1 .. Len(h) : h[i] = k[i + d]
  <2> TAKE i \in 1 .. Len(h)
  <2>1. CASE i = Len(h)
    BY <1>3, <1>4, <1>6, <2>1
  <2>2. CASE i # Len(h)
    <3>1. i \in 1 .. Len(h) - 1 /\ i + d \in 1 .. Len(k) - 1
      BY <1>1, <1>4, <1>6, <2>2
    <3>2. h[i] = w[i] /\ i \in 1 .. Len(w) /\ k[i + d] = s[i + d]
      BY <1>3, <1>4, <3>1
    <3>3. QED  BY <1>1, <3>2
  <2>3. QED  BY <2>1, <2>2
<1>8. /\ e + d \in Nat /\ Len(k) = Len(v) + (e + d)
      /\ \A i \in 1 .. Len(v) : v[i] = k[i + (e + d)]
  <2>1. Len(k) = Len(v) + (e + d) /\ e + d \in Nat
    BY <1>1, <1>4, <1>5, <1>6
  <2> SUFFICES ASSUME NEW i \in 1 .. Len(v) PROVE v[i] = k[i + (e + d)]
    BY <2>1
  <2>2. i + e \in 1 .. Len(h) /\ (i + e) + d = i + (e + d)
    BY <1>1, <1>4, <1>5
  <2>3. QED  BY <1>5, <1>7, <2>2
<1>9. e + d > 0 => Len(v) = WindowSamples
  BY <1>1, <1>2, <1>4, <1>5
<1>10. QED  BY <1>8, <1>9 DEF IsEndOf, k, v, h

(* The steps that touch neither list nor what the environment holds.       *)
LEMMA CopiesStay ==
  ASSUME NEW m, Copies(m), UNCHANGED <<window, samples, mixed>>,
         thread'.phase \in {"idle", "running", "settled", "observed"} =>
           thread.phase \in {"idle", "running", "settled", "observed"},
         thread'.phase # "fresh"
  PROVE  Copies(m)'
BY DEF Copies, IsEndOf, Spaced

(* Both lists adopt the same sample.                                       *)
LEMMA AdoptAgrees ==
  ASSUME NEW m \in Nat, Spacing(m), AgreeInv(m),
         thread.phase \in {"settled", "observed"},
         NEW x \in Samples, x.tick = thread.sample.tick, Honest(x), Adopt(x), thread' = AtRest,
         UNCHANGED <<tick, epoch, count, made, begun, reading, mixed>>
  PROVE  Ordered(m)' /\ Copies(m)'
<1>1. /\ window' \in Seq(Samples) /\ Len(window') \in 1 .. WindowSamples
      /\ window'[Len(window')] = x
  BY HonestAdopted DEF Adopt, AgreeInv, SampleInv
<1>2. /\ window' = Bounded(Recorded(window, x)) /\ samples' = Recorded(samples, x)
  BY DEF Adopt, Measure
<1>3. Passed(x.tick) /\ Follows(x.tick, m) /\ begun # 0
  BY DEF AgreeInv, Ordered
<1>4. thread'.phase = "idle"
  BY DEF AtRest, At
<1>5. window' # << >> /\ Latest(window)' = x
  BY <1>1 DEF Latest
<1>6. Ordered(m)'
  BY <1>3, <1>4, <1>5 DEF Ordered, Passed
<1>7. ASSUME ~ mixed PROVE IsEndOf(window', samples') /\ Spaced(samples', m)
  <2>1. IsEndOf(window, samples) /\ Spaced(samples, m)
    BY <1>7 DEF AgreeInv, Copies
  <2>2. /\ window \in Seq(Samples) /\ samples \in Seq(Samples) /\ window # << >>
        /\ Len(window) <= WindowSamples /\ m \in Nat \ {0}
    BY <1>3, WindowTypes DEF AgreeInv, SampleInv, WTypeOK, Follows, Spacing
  <2>3. samples # << >> /\ Latest(samples) = Latest(window)
    <3>1. PICK d \in Nat :
            Len(samples) = Len(window) + d /\ \A i \in 1 .. Len(window) : window[i] = samples[i + d]
      BY <2>1 DEF IsEndOf
    <3>2. Len(window) \in 1 .. Len(window)
      BY <2>2
    <3>3. QED  BY <2>2, <3>1, <3>2 DEF Latest
  <2>4. IsEndOf(window', samples')
    BY <1>2, <2>1, <2>2, EndsRecorded
  <2>5. Spaced(samples', m)
    BY <1>2, <1>3, <2>1, <2>2, <2>3, SpacedRecorded DEF Follows
  <2>6. QED  BY <2>4, <2>5
<1>8. Copies(m)'
  BY <1>4, <1>7 DEF Copies, IsEndOf, Spaced
<1>9. QED  BY <1>6, <1>8

LEMMA AgreeAdoptSettled ==
  ASSUME NEW m \in Nat, Spacing(m), AgreeInv(m), AdoptSettled
  PROVE  Ordered(m)' /\ Copies(m)'
<1>1. thread.sample \in Samples /\ Honest(thread.sample)
  BY DEF AdoptSettled, AgreeInv, SampleInv, Reading
<1>2. QED  BY <1>1, AdoptAgrees DEF AdoptSettled, gameVars

LEMMA AgreeReadTruth ==
  ASSUME NEW m \in Nat, Spacing(m), AgreeInv(m), ReadTruth
  PROVE  Ordered(m)' /\ Copies(m)'
<1>1. thread.sample \in Samples /\ thread.sample.tick <= tick - epoch
  BY DEF ReadTruth, AgreeInv, SampleInv, Reading
<1> DEFINE x == Sample(thread.sample.tick, count)
<1>2. x \in Samples /\ Honest(x)
  BY <1>1, TruthIsHonest DEF AgreeInv
<1>3. x.tick = thread.sample.tick
  BY DEF Sample
<1>4. Adopt(x) /\ thread.phase = "observed" /\ thread' = AtRest
      /\ UNCHANGED <<tick, epoch, count, made, begun, reading, mixed>>
  BY DEF ReadTruth, gameVars
<1> HIDE DEF x
<1>5. QED  BY <1>2, <1>3, <1>4, AdoptAgrees

LEMMA AgreeTick ==
  ASSUME NEW m \in Nat, Spacing(m), AgreeInv(m), Tick
  PROVE  Ordered(m)' /\ Copies(m)'
<1>1. /\ tick' = tick + 1 /\ UNCHANGED <<epoch, window, samples, reading, begun, mixed>>
      /\ tick \in Nat /\ epoch \in Nat /\ epoch <= tick /\ m \in Nat \ {0}
  BY WindowTypes DEF Tick, AgreeInv, SampleInv, Spacing
<1>2. /\ thread.phase \in Phases /\ thread.until \in Nat
  BY DEF AgreeInv, SampleInv, Reading
<1>3. FreeRunning => \A t : Passed(t) => Passed(t)'
  BY <1>1 DEF Passed
<1>4. window # << >> => Latest(window).tick \in Nat
  <2>1. window # << >> => Len(window) \in 1 .. Len(window)
    BY WindowTypes DEF AgreeInv, SampleInv
  <2>2. window # << >> => Latest(window) \in Samples
    BY <2>1, WindowTypes DEF AgreeInv, SampleInv, Latest
  <2>3. QED  BY <2>2 DEF Samples
<1>5. CASE thread.phase = "running" /\ thread.until = tick + 1
  <2>1. thread' = At("settled", Sample(tick + 1 - epoch, count'), 0)
    BY <1>5 DEF Tick
  <2>2. /\ thread'.phase = "settled" /\ thread'.sample.tick = tick + 1 - epoch
    BY <2>1 DEF At, Sample
  <2>3. Passed(thread.sample.tick)'
    BY <1>1, <2>2 DEF Passed
  <2>4. window # << >> /\ tick + 1 - epoch >= Latest(window).tick + m /\ begun # 0
    <3>1. window # << >> /\ thread.until - epoch >= Latest(window).tick + m
      BY <1>5 DEF AgreeInv, Ordered
    <3>2. begun # 0
      BY <1>5 DEF AgreeInv, Ordered
    <3>3. thread.until - epoch = tick + 1 - epoch
      BY <1>1, <1>2, <1>5
    <3>4. QED  BY <3>1, <3>2, <3>3
  <2>5. Ordered(m)'
    <3>1. Follows(thread.sample.tick, m)'
      BY <1>1, <2>2, <2>4 DEF Follows, Latest
    <3>2. QED  BY <1>1, <2>2, <2>3, <2>4, <3>1 DEF Ordered, Passed, Follows
  <2>6. Copies(m)'
    BY <1>1, <1>5, <2>2, CopiesStay DEF AgreeInv
  <2>7. QED  BY <2>5, <2>6
<1>6. CASE thread.phase = "running" /\ thread.until # tick + 1
  <2>1. thread' = thread
    BY <1>6 DEF Tick
  <2>2. /\ window # << >> /\ thread.until > tick /\ begun # 0
        /\ thread.until - epoch >= Latest(window).tick + m
    BY <1>6 DEF AgreeInv, Ordered
  <2>3. thread.until > tick + 1
    BY <1>1, <1>2, <1>6, <2>2
  <2>4. Ordered(m)'
    BY <1>1, <1>6, <2>1, <2>2, <2>3 DEF Ordered, Latest
  <2>5. Copies(m)'
    BY <1>1, <1>6, <2>1, CopiesStay DEF AgreeInv
  <2>6. QED  BY <2>4, <2>5
<1>7. CASE thread.phase # "running"
  <2>1. thread' = thread /\ FreeRunning
    BY <1>7 DEF Tick
  <2>2. \A t : Passed(t) => Passed(t)'
    BY <1>3, <2>1
  <2>3. Ordered(m)'
    BY <1>1, <1>7, <2>1, <2>2 DEF AgreeInv, Ordered, Follows, Passed, Latest
  <2>4. Copies(m)'
    BY <1>1, <2>1 DEF AgreeInv, Copies, IsEndOf, Spaced
  <2>5. QED  BY <2>3, <2>4
<1>8. QED  BY <1>5, <1>6, <1>7

LEMMA AgreeStep ==
  ASSUME NEW m \in Nat, Spacing(m), AgreeInv(m), NEW n \in Lengths, Step(n)
  PROVE  Ordered(m)' /\ Copies(m)'
<1>1. /\ thread' = At("running", None, tick + n) /\ thread = AtRest /\ begun > 0
      /\ UNCHANGED <<tick, epoch, window, samples, reading, begun, mixed>>
      /\ tick \in Nat /\ epoch \in Nat /\ epoch <= tick
  BY WindowTypes DEF Step, AgreeInv, SampleInv
<1>2. /\ thread'.phase = "running" /\ thread'.until = tick + n /\ thread.phase = "idle"
  BY <1>1 DEF At, AtRest
<1>3. n \in Nat \ {0} /\ m \in Nat \ {0} /\ n >= m
  BY DEF Parameters, Spacing
<1>4. window # << >> /\ Passed(Latest(window).tick)
  BY <1>1, <1>2 DEF AgreeInv, Ordered
<1>5. begun \in Nat
  BY DEF AgreeInv, SampleInv, WTypeOK
<1>6. (tick + n) - epoch >= Latest(window).tick + m /\ tick + n > tick
  BY <1>1, <1>3, <1>4 DEF Passed
<1>7. Ordered(m)'
  BY <1>1, <1>2, <1>4, <1>5, <1>6 DEF Ordered, Latest
<1>8. Copies(m)'
  BY <1>1, <1>2, CopiesStay DEF AgreeInv
<1>9. QED  BY <1>7, <1>8

LEMMA AgreeResync ==
  ASSUME NEW m \in Nat, Spacing(m), AgreeInv(m), Resync
  PROVE  Ordered(m)' /\ Copies(m)'
<1>1. /\ thread' = At("observed", Sample(tick - epoch, 0), 0) /\ thread = AtRest /\ begun > 0
      /\ UNCHANGED <<tick, epoch, window, samples, reading, begun, mixed>>
      /\ tick \in Nat /\ epoch \in Nat /\ epoch <= tick
  BY WindowTypes DEF Resync, gameVars, AgreeInv, SampleInv
<1>2. /\ thread'.phase = "observed" /\ thread'.sample.tick = tick - epoch /\ thread.phase = "idle"
  BY <1>1 DEF At, AtRest, Sample
<1>3. window # << >> /\ Passed(Latest(window).tick) /\ begun \in Nat
  BY <1>1, <1>2 DEF AgreeInv, Ordered, SampleInv, WTypeOK
<1>4. Passed(tick - epoch)
  BY <1>1 DEF Passed
<1>5. Follows(tick - epoch, m)
  BY <1>1, <1>3 DEF Passed, Follows, Spacing
<1>6. Ordered(m)'
  BY <1>1, <1>2, <1>3, <1>4, <1>5 DEF Ordered, Passed, Follows, Latest
<1>7. Copies(m)'
  BY <1>1, <1>2, CopiesStay DEF AgreeInv
<1>8. QED  BY <1>6, <1>7

LEMMA AgreeReset ==
  ASSUME NEW m \in Nat, Spacing(m), AgreeInv(m), EnvReset \/ Observe
  PROVE  Ordered(m)' /\ Copies(m)'
<1>1. /\ UNCHANGED <<tick, samples, reading, mixed>> /\ window' = << >>
      /\ begun' # 0
      /\ \/ thread'.phase = "opened"
         \/ /\ thread'.phase = "looking" /\ epoch' = epoch
            /\ thread'.sample.tick = tick - epoch
  <2>1. CASE EnvReset
    BY <2>1 DEF EnvReset, At, AgreeInv, SampleInv, WTypeOK
  <2>2. CASE Observe
    BY <2>2 DEF Observe, At, Sample, gameVars, AgreeInv, Ordered
  <2>3. QED  BY <2>1, <2>2
<1>2. tick \in Nat /\ epoch \in Nat /\ epoch <= tick
  BY WindowTypes DEF AgreeInv, SampleInv
<1>3. thread'.phase = "looking" => Passed(thread.sample.tick)'
  BY <1>1, <1>2 DEF Passed
<1>4. Ordered(m)'
  BY <1>1, <1>3 DEF Ordered, Passed
<1>5. Copies(m)'
  BY <1>1 DEF Copies
<1>6. QED  BY <1>4, <1>5

LEMMA AgreeReadFirst ==
  ASSUME NEW m \in Nat, Spacing(m), AgreeInv(m), ReadFirstTruth
  PROVE  Ordered(m)' /\ Copies(m)'
<1> DEFINE x == Sample(thread.sample.tick, count)
<1>1. /\ UNCHANGED <<tick, epoch, begun, reading>>
      /\ window' = Bounded(Recorded(window, x)) /\ samples' = << >>
      /\ thread.phase = "looking" /\ thread' = At("fresh", x, 0)
  BY DEF ReadFirstTruth, ClearedMetrics, gameVars
<1>2. /\ thread'.phase = "fresh" /\ thread'.sample = x /\ x.tick = thread.sample.tick
  BY <1>1 DEF At, Sample
<1>3. window = << >> /\ begun # 0 /\ Passed(x.tick)
  BY <1>1, <1>2 DEF AgreeInv, Ordered
<1>4. window' = << x >>
  <2>1. Recorded(<< >>, x) = << x >>
    BY DEF Recorded
  <2>2. Len(<< x >>) = 1 /\ WindowSamples \in Nat \ {0, 1}
    BY DEF Parameters
  <2>3. Bounded(<< x >>) = << x >>
    BY <2>2 DEF Bounded
  <2>4. QED  BY <1>1, <1>3, <2>1, <2>3
<1> HIDE DEF x
<1>5. Ordered(m)'
  BY <1>1, <1>2, <1>3, <1>4 DEF Ordered, Passed
<1>6. Copies(m)'
  BY <1>1, <1>2 DEF Copies
<1>7. QED  BY <1>5, <1>6

LEMMA AgreeRecordFirst ==
  ASSUME NEW m \in Nat, Spacing(m), AgreeInv(m), RecordFirst
  PROVE  Ordered(m)' /\ Copies(m)'
<1>1. /\ UNCHANGED <<tick, epoch, begun, reading, window, mixed>>
      /\ samples' = Recorded(samples, thread.sample)
      /\ thread.phase = "fresh" /\ thread' = AtRest
  BY DEF RecordFirst, gameVars, Measure
<1>2. thread'.phase = "idle"
  BY <1>1 DEF AtRest, At
<1>3. window = << thread.sample >> /\ Passed(thread.sample.tick) /\ begun # 0
  BY <1>1 DEF AgreeInv, Ordered
<1>4. window' # << >> /\ Passed(Latest(window).tick)'
  BY <1>1, <1>3 DEF Passed, Latest
<1>5. Ordered(m)'
  BY <1>1, <1>2, <1>3, <1>4 DEF Ordered
<1>6. ASSUME ~ mixed PROVE IsEndOf(window', samples') /\ Spaced(samples', m)
  <2>1. samples = << >>
    BY <1>1, <1>6 DEF AgreeInv, Copies
  <2>2. samples' = << thread.sample >>
    BY <1>1, <2>1 DEF Recorded
  <2>3. window' = samples' /\ Len(samples') = 1
    BY <1>1, <1>3, <2>2
  <2>4. IsEndOf(window', samples')
    <3>1. /\ 0 \in Nat /\ Len(samples') = Len(window') + 0 /\ ~ 0 > 0
          /\ \A i \in 1 .. Len(window') : window'[i] = samples'[i + 0]
      BY <2>3
    <3>2. QED  BY <3>1 DEF IsEndOf
  <2>5. Spaced(samples', m)
    <3> SUFFICES ASSUME NEW i \in 1 .. Len(samples'), NEW j \in 1 .. Len(samples')
                 PROVE  samples'[j].tick - samples'[i].tick >= (j - i) * m
      BY DEF Spaced
    <3>1. i = 1 /\ j = 1
      BY <2>3
    <3>2. samples'[1].tick \in Nat
      <4>1. thread.sample \in Samples
        BY <1>1 DEF AgreeInv, SampleInv, Reading
      <4>2. samples'[1] = thread.sample
        BY <2>2
      <4>3. QED  BY <4>1, <4>2 DEF Samples
    <3>3. (j - i) * m = 0
      BY <3>1
    <3> DEFINE a == samples'[1].tick
    <3>4. a - a = 0
      BY <3>2
    <3>5. QED  BY <3>1, <3>3, <3>4
  <2>6. QED  BY <2>4, <2>5
<1>7. Copies(m)'
  BY <1>1, <1>2, <1>6 DEF Copies, IsEndOf, Spaced
<1>8. QED  BY <1>5, <1>7

LEMMA AgreeSampler ==
  ASSUME NEW m \in Nat, Spacing(m), AgreeInv(m),
         SamplerRead \/ SamplerRecord
  PROVE  Ordered(m)' /\ Copies(m)'
<1>1. UNCHANGED <<tick, epoch, begun, thread, window>> /\ begun # 0
  BY DEF SamplerRead, SamplerRecord, gameVars, AgreeInv, Ordered
<1>2. Ordered(m)'
  BY <1>1 DEF AgreeInv, Ordered, Passed, Follows, Latest
<1>3. CASE SamplerRead
  <2>1. UNCHANGED <<samples, mixed>>
    BY <1>3 DEF SamplerRead
  <2>2. QED  BY <1>1, <1>2, <2>1 DEF AgreeInv, Copies, IsEndOf, Spaced
<1>4. CASE SamplerRecord
  BY <1>2, <1>4 DEF SamplerRecord, Copies
<1>5. QED  BY <1>2, <1>3, <1>4

LEMMA AgreeKept ==
  ASSUME NEW m \in Nat, Spacing(m)
  PROVE  AgreeInv(m) /\ [WNext]_windowVars => AgreeInv(m)'
<1> SUFFICES ASSUME AgreeInv(m), [WNext]_windowVars PROVE AgreeInv(m)'
  OBVIOUS
<1>1. SampleInv'
  BY WKept DEF AgreeInv
<1>2. Ordered(m)' /\ Copies(m)'
  <2>1. CASE UNCHANGED windowVars
    BY <2>1 DEF windowVars, AgreeInv, Ordered, Copies, Passed, Follows, Latest, IsEndOf, Spaced
  <2>2. CASE WNext
    BY <2>2, AgreeTick, AgreeStep, AgreeAdoptSettled, AgreeResync, AgreeReadTruth, AgreeReset,
       AgreeReadFirst, AgreeRecordFirst, AgreeSampler DEF WNext
  <2>3. QED  BY <2>1, <2>2
<1>3. QED  BY <1>1, <1>2 DEF AgreeInv

LEMMA AgreeStarts ==
  ASSUME NEW m \in Nat, Spacing(m) PROVE WInit => AgreeInv(m)
<1> SUFFICES ASSUME WInit PROVE AgreeInv(m)
  OBVIOUS
<1>1. thread.phase = "idle" /\ begun = 0 /\ samples = << >> /\ window = << >> /\ reading = None
  BY DEF WInit, AtRest, At
<1>2. IsEndOf(window, samples) /\ Spaced(samples, m)
  <2>1. 0 \in Nat /\ Len(samples) = Len(window) + 0 /\ \A i \in 1 .. Len(window) : window[i] = samples[i + 0]
    BY <1>1
  <2>2. IsEndOf(window, samples)
    BY <2>1 DEF IsEndOf
  <2>3. QED  BY <1>1, <2>2 DEF Spaced
<1>3. QED  BY <1>1, <1>2, WStarts DEF AgreeInv, Ordered, Copies

(* A step that judges: both lists take a sample of the same truth.         *)
Judged == window' # window /\ samples' # samples /\ ~ mixed' /\ samples' # << >>

Agreed == Met(window)' <=> (Sustained(samples) /\ Latest(samples).tick >= NotBefore)'

LEMMA JudgedAlike ==
  ASSUME NEW m \in Nat, Spacing(m), AgreeInv(m), AgreeInv(m)', WNext, Judged
  PROVE  /\ window' \in Seq(Samples) /\ samples' \in Seq(Samples) /\ Len(window') <= WindowSamples
         /\ IsEndOf(window', samples') /\ Spaced(samples', m)
         /\ Len(window') < WindowSamples \/ Elapsed(window') => Agreed
<1>1. AdoptSettled \/ ReadTruth
  BY DEF Judged, WNext, Tick, Step, Resync, EnvReset, Observe, ReadFirstTruth,
     ClearedMetrics, RecordFirst, SamplerRead, SamplerRecord, gameVars
<1>2. thread'.phase = "idle" /\ begun' # 0
  <2>1. thread' = AtRest /\ begun' = begun /\ thread.phase \in {"settled", "observed"}
    BY <1>1 DEF AdoptSettled, ReadTruth, gameVars
  <2>2. QED  BY <2>1 DEF AtRest, At, AgreeInv, Ordered
<1>3. /\ begun' \in Nat /\ window' \in Seq(Samples) /\ samples' \in Seq(Samples)
      /\ Len(window') <= WindowSamples
  BY DEF AgreeInv, SampleInv, WTypeOK, Samples
<1>4. window' # << >> /\ IsEndOf(window', samples') /\ Spaced(samples', m)
  BY <1>2, <1>3 DEF Judged, AgreeInv, Ordered, Copies, IsEndOf, Spaced
<1>5. ASSUME Len(window') < WindowSamples \/ Elapsed(window') PROVE Agreed
  <2>1. Met(window') <=> (Sustained(samples') /\ Latest(samples').tick >= NotBefore)
    BY <1>3, <1>4, <1>5, SameVerdict DEF Spacing
  <2>2. QED
    BY <2>1 DEF Agreed, Met, Sustained, Latest, Elapsed, Sampled, Output,
       Baseline, IsBaseline, Cutoff
<1>6. QED  BY <1>3, <1>4, <1>5

(* The metric and the criterion agree, of the same samples, on what        *)
(* sustained means, unless the environment's history is full and does not  *)
(* span the window (production.py:46; env.py _record_window,               *)
(* WINDOW_SAMPLES; spec.py evaluate).                                      *)
THEOREM VerdictsAgree ==
  WSpec => [][Judged => Agreed \/ (Len(window) = WindowSamples /\ ~ Elapsed(window))']_windowVars
<1>0. 1 \in Nat /\ Spacing(1)
  BY DEF Spacing
<1>1. AgreeInv(1) /\ AgreeInv(1)' /\ [WNext]_windowVars =>
        [Judged => Agreed \/ (Len(window) = WindowSamples /\ ~ Elapsed(window))']_windowVars
  <2> SUFFICES ASSUME AgreeInv(1), AgreeInv(1)', WNext, Judged
               PROVE  Agreed \/ (Len(window) = WindowSamples /\ ~ Elapsed(window))'
    OBVIOUS
  <2>1. /\ window' \in Seq(Samples) /\ Len(window') <= WindowSamples
        /\ Len(window') < WindowSamples \/ Elapsed(window') => Agreed
    BY <1>0, JudgedAlike
  <2>2. Len(window') < WindowSamples \/ Len(window') = WindowSamples
    BY <2>1 DEF Parameters
  <2>3. Elapsed(window') <=> Elapsed(window)'
    BY DEF Elapsed, Latest
  <2>4. QED  BY <2>1, <2>2, <2>3
<1>2. WInit => AgreeInv(1)
  BY <1>0, AgreeStarts
<1>3. AgreeInv(1) /\ [WNext]_windowVars => AgreeInv(1)'
  BY <1>0, AgreeKept
<1>4. QED  BY <1>1, <1>2, <1>3, PTL DEF WSpec

(* So they always agree where a full history spans the window: WindowSamples *)
(* samples that lie m ticks apart are enough, m being 1 in a world that      *)
(* runs on between requests and the shortest interval in one that does not   *)
(* (production.py:46).                                                       *)
THEOREM VerdictsAlwaysAgree ==
  ASSUME NEW m \in Nat, HistorySpans(m) PROVE WSpec => MetricsAgree
<1>0. Spacing(m)
  BY DEF HistorySpans
<1>1. AgreeInv(m) /\ AgreeInv(m)' /\ [WNext]_windowVars =>
        [(window' # window /\ samples' # samples /\ ~ mixed' /\ samples' # << >>) =>
           (Met(window)' <=> (Sustained(samples) /\ Latest(samples).tick >= NotBefore)')]_windowVars
  <2> SUFFICES ASSUME AgreeInv(m), AgreeInv(m)', WNext, Judged PROVE Agreed
    BY DEF Judged, Agreed
  <2>1. /\ window' \in Seq(Samples) /\ samples' \in Seq(Samples) /\ Len(window') <= WindowSamples
        /\ IsEndOf(window', samples') /\ Spaced(samples', m)
        /\ Len(window') < WindowSamples \/ Elapsed(window') => Agreed
    BY <1>0, JudgedAlike
  <2>2. Len(window') < WindowSamples \/ Elapsed(window')
    <3>1. Len(window') >= WindowSamples => Elapsed(window')
      BY <2>1, FullSpans
    <3>2. Len(window') \in Nat /\ WindowSamples \in Nat
      BY <2>1 DEF Parameters
    <3>3. QED  BY <3>1, <3>2
  <2>3. QED  BY <2>1, <2>2
<1>2. WInit => AgreeInv(m)
  BY <1>0, AgreeStarts
<1>3. AgreeInv(m) /\ [WNext]_windowVars => AgreeInv(m)'
  BY <1>0, AgreeKept
<1>4. QED  BY <1>1, <1>2, <1>3, PTL DEF WSpec, MetricsAgree
=============================================================================
