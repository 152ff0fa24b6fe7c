--------------------------- MODULE AdmissionProofs ---------------------------
(***************************************************************************)
(* Theorems about Admission, for every set of attempts, capabilities and    *)
(* clients, and every choice of the timings and limits.                     *)
(*                                                                         *)
(* A job is bound to its capability until its admission lapses: a commit    *)
(* finds the binding or comes after it.  And a slot is its holder's until   *)
(* it expires, because two holders of one capability never hold at once.    *)
(***************************************************************************)
EXTENDS Admission, FiniteSetTheorems, TLAPS

Results == {"none", "unknown", "conflict", "rate-limited", "refused", "expired",
            "refused-before", "window-elapsed", "in-flight", "at-capacity", "unavailable"}

\* Only an acceptance names a job.
Answers ==
    [status : {"accepted"}, job : Attempts] \cup [status : Results, job : {None}]

Edge == [at : Steps, deadline : Int, admittedAt : Int, try : {1, 2}, answer : Answers]

Past == [knew : Attempts \cup {None}, held : Int, refusedUntil : Int, committedAt : Int,
         lapsesAt : Int]

Call == [attempt : Attempts, try : {1, 2}, stage : {"preflight", "commit"}, deadline : Int,
         admittedAt : Int]

\* A table of the Durable Object, by capability.
Table(rows) == UNION {[S -> rows] : S \in SUBSET Capabilities}

TypeOK ==
    /\ now \in Nat
    /\ admissions \in Table([job : Attempts, expiresAt : Int])
    /\ reservations \in Table(Int) /\ refusals \in Table(Int)
    /\ edge \in [Attempts -> Edge]
    /\ calls \in SUBSET Call
    /\ past \in [Attempts -> Past]

\* What was committed is remembered until it lapses, on the clock that leads most.
Bound(a) ==
    Committed(a) /\ now + MAX_LEAD < past[a].lapsesAt =>
        /\ CapabilityOf[a] \in DOMAIN admissions
        /\ admissions[CapabilityOf[a]] = [job |-> a, expiresAt |-> past[a].lapsesAt]

\* The later of two commits of one capability came after the binding of the earlier.
Apart(a, b) ==
    a # b /\ SameCapability(a, b) /\ Committed(a) /\ Committed(b) =>
        \/ past[a].committedAt + MAX_LEAD >= past[b].lapsesAt
        \/ past[b].committedAt + MAX_LEAD >= past[a].lapsesAt

\* Who holds a slot.
Holds(a) == edge[a].at \in Holding /\ now < past[a].held

HasSlot(a) ==
    Holds(a) => /\ CapabilityOf[a] \in DOMAIN reservations
                /\ reservations[CapabilityOf[a]] = past[a].held

Inv ==
    /\ TypeOK
    /\ \A a \in Attempts : Bound(a) /\ HasSlot(a)
    /\ \A a, b \in Attempts : Apart(a, b)
    /\ \A a, b \in Attempts : a # b /\ SameCapability(a, b) /\ Holds(a) => ~Holds(b)

-----------------------------------------------------------------------------
(* Tables.                                                                 *)

\* What the constants are.
LEMMA Constants ==
    /\ MAX_LEAD \in Nat /\ MAX_AGE \in Nat /\ TTL \in Nat /\ ADMISSION_TIMEOUT \in Nat
    /\ EDGE_SKEW \in Nat /\ NODE_SKEW \in Nat
    /\ \A a \in Attempts : CapabilityOf[a] \in Capabilities
BY AdmissionAssumption

\* The smaller of two clock readings.
LEMMA MinOfTwo ==
    ASSUME NEW m \in Int, NEW n \in Int
    PROVE  Min({m, n}) \in {m, n}
<1>1. \E x \in {m, n} : \A y \in {m, n} : x <= y
  BY SMT
<1>. QED
  BY <1>1 DEF Min

\* A table keeps its type when rows go,
LEMMA FewerRows ==
    ASSUME NEW rows, NEW table \in Table(rows), NEW S \in SUBSET DOMAIN table
    PROVE  /\ [x \in S |-> table[x]] \in Table(rows)
           /\ DOMAIN [x \in S |-> table[x]] = S
           /\ \A x \in S : [y \in S |-> table[y]][x] = table[x]
<1>1. PICK T \in SUBSET Capabilities : table \in [T -> rows]
  BY DEF Table
<1>2. [x \in S |-> table[x]] \in [S -> rows] /\ S \in SUBSET Capabilities
  BY <1>1
<1>. QED
  BY <1>2 DEF Table

\* or one is put in.
LEMMA OneMoreRow ==
    ASSUME NEW rows, NEW table \in Table(rows), NEW c \in Capabilities, NEW row \in rows
    PROVE  Put(table, c, row) \in Table(rows)
<1>1. PICK T \in SUBSET Capabilities : table \in [T -> rows]
  BY DEF Table
<1>2. Put(table, c, row) \in [T \cup {c} -> rows] /\ T \cup {c} \in SUBSET Capabilities
  BY <1>1 DEF Put
<1>. QED
  BY <1>2 DEF Table

\* What is remembered of the admissions,
LEMMA RememberedRows ==
    ASSUME TypeOK
    PROVE  /\ Remembered \in Table([job : Attempts, expiresAt : Int])
           /\ DOMAIN Remembered = {c \in DOMAIN admissions : admissions[c].expiresAt > now}
           /\ \A c \in DOMAIN Remembered : Remembered[c] = admissions[c]
<1> DEFINE S == {c \in DOMAIN admissions : admissions[c].expiresAt > now}
<1>1. Remembered = [c \in S |-> admissions[c]]
  BY DEF Remembered, RestrictValues, Restrict
<1>. QED
  BY <1>1, FewerRows DEF TypeOK

\* on a clock that may lead,
LEMMA RememberedAtRows ==
    ASSUME TypeOK, NEW at \in Int
    PROVE  /\ RememberedAt(at) \in Table([job : Attempts, expiresAt : Int])
           /\ DOMAIN RememberedAt(at) = {c \in DOMAIN Remembered : admissions[c].expiresAt > at}
           /\ \A c \in DOMAIN RememberedAt(at) : RememberedAt(at)[c] = admissions[c]
<1> DEFINE S == {c \in DOMAIN Remembered : Remembered[c].expiresAt > at}
<1>1. RememberedAt(at) = [c \in S |-> Remembered[c]]
  BY DEF RememberedAt, RestrictValues, Restrict
<1>. QED
  BY <1>1, FewerRows, RememberedRows

\* and of the slots and refusals.
LEMMA UnexpiredRows ==
    ASSUME NEW table \in Table(Int)
    PROVE  /\ Unexpired(table) \in Table(Int)
           /\ DOMAIN Unexpired(table) = {c \in DOMAIN table : table[c] > now}
           /\ \A c \in DOMAIN Unexpired(table) : Unexpired(table)[c] = table[c]
<1> DEFINE S == {c \in DOMAIN table : table[c] > now}
<1>1. Unexpired(table) = [c \in S |-> table[c]]
  BY DEF Unexpired, RestrictValues, Restrict
<1>. QED
  BY <1>1, FewerRows

\* A row of a table is of the table's kind.
LEMMA RowsOf ==
    ASSUME NEW rows, NEW table \in Table(rows)
    PROVE  DOMAIN table \in SUBSET Capabilities /\ \A c \in DOMAIN table : table[c] \in rows
BY DEF Table

-----------------------------------------------------------------------------
(* Steps.                                                                  *)

\* The edge isolates move, and none of them takes a slot.
EdgeMoves ==
    /\ edge' \in [Attempts -> Edge]
    /\ \A a \in Attempts : edge'[a].at \in Holding => edge[a].at \in Holding

\* Only what lapsed on the clock that leads most is forgotten.
AdmissionsKept ==
    /\ admissions' \in Table([job : Attempts, expiresAt : Int])
    /\ \A c \in DOMAIN admissions :
         admissions[c].expiresAt > now + MAX_LEAD =>
             c \in DOMAIN admissions' /\ admissions'[c] = admissions[c]

\* Nothing was committed, and nobody's slot is another one.
SamePast ==
    /\ past' \in [Attempts -> Past]
    /\ \A a \in Attempts : /\ past'[a].committedAt = past[a].committedAt
                           /\ past'[a].lapsesAt = past[a].lapsesAt
                           /\ past'[a].held = past[a].held

\* A step that commits nothing and forgets only what lapsed keeps every binding.
LEMMA BindingsAfter ==
    ASSUME Inv, now' = now, AdmissionsKept,
           \A a \in Attempts : /\ past'[a].committedAt = past[a].committedAt
                               /\ past'[a].lapsesAt = past[a].lapsesAt
    PROVE  /\ \A a \in Attempts : Bound(a)'
           /\ \A a, b \in Attempts : Apart(a, b)'
<1>1. ASSUME NEW a \in Attempts, Committed(a), now + MAX_LEAD < past[a].lapsesAt
      PROVE  /\ CapabilityOf[a] \in DOMAIN admissions'
             /\ admissions'[CapabilityOf[a]] = [job |-> a, expiresAt |-> past[a].lapsesAt]
  <2>1. /\ CapabilityOf[a] \in DOMAIN admissions
        /\ admissions[CapabilityOf[a]] = [job |-> a, expiresAt |-> past[a].lapsesAt]
    BY <1>1 DEF Inv, Bound
  <2>2. admissions[CapabilityOf[a]].expiresAt > now + MAX_LEAD
    <3>1. past[a].lapsesAt \in Int /\ now \in Int /\ MAX_LEAD \in Int
      BY Constants DEF Inv, TypeOK, Past
    <3>. QED
      BY <1>1, <2>1, <3>1
  <2>. QED
    BY <2>1, <2>2 DEF AdmissionsKept
<1>. QED
  BY <1>1 DEF Inv, Bound, Apart, Committed

\* A step that touches no slot takes none away from its holder.
LEMMA SlotsAfter ==
    ASSUME Inv, now' = now, EdgeMoves, reservations' = reservations,
           \A a \in Attempts : past'[a].held = past[a].held
    PROVE  /\ \A a \in Attempts : HasSlot(a)'
           /\ \A a, b \in Attempts : a # b /\ SameCapability(a, b) /\ Holds(a)' => ~Holds(b)'
<1>1. \A a \in Attempts : Holds(a)' => Holds(a)
  BY DEF EdgeMoves, Holds
<1>. QED
  BY <1>1 DEF Inv, HasSlot

\* A step that takes no time, commits nothing, and leaves the slots alone.
LEMMA QuietKeeps ==
    ASSUME Inv, now' = now, AdmissionsKept, SamePast, EdgeMoves,
           reservations' = reservations, refusals' \in Table(Int), calls' \in SUBSET Call
    PROVE  Inv'
<1>1. TypeOK'
  BY DEF Inv, TypeOK, AdmissionsKept, SamePast, EdgeMoves
<1>2. /\ \A a \in Attempts : Bound(a)'
      /\ \A a, b \in Attempts : Apart(a, b)'
  BY BindingsAfter DEF SamePast
<1>3. /\ \A a \in Attempts : HasSlot(a)'
      /\ \A a, b \in Attempts : a # b /\ SameCapability(a, b) /\ Holds(a)' => ~Holds(b)'
  BY SlotsAfter DEF SamePast
<1>. QED
  BY <1>1, <1>2, <1>3 DEF Inv, SameCapability

\* The admissions as they are, or without the expired ones.
LEMMA StillKept ==
    ASSUME TypeOK, admissions' \in {admissions, Remembered}
    PROVE  AdmissionsKept
<1>1. CASE admissions' = admissions
  BY <1>1 DEF AdmissionsKept, TypeOK
<1>2. CASE admissions' = Remembered
  <2>0. \A c \in DOMAIN admissions : admissions[c] \in [job : Attempts, expiresAt : Int]
    BY RowsOf DEF TypeOK
  <2>1. \A c \in DOMAIN admissions : admissions[c].expiresAt \in Int
    BY <2>0
  <2>2. \A c \in DOMAIN admissions : admissions[c].expiresAt > now + MAX_LEAD => admissions[c].expiresAt > now
    BY <2>1, Constants DEF TypeOK
  <2>. QED
    BY <1>2, <2>2, RememberedRows DEF AdmissionsKept
<1>. QED
  BY <1>1, <1>2

\* An unchanged history has committed nothing.
LEMMA SamePastNow ==
    ASSUME TypeOK, past' = past
    PROVE  SamePast
BY DEF TypeOK, SamePast

\* An isolate goes on, or decides its answer.
LEMMA GoMoves ==
    ASSUME TypeOK, NEW a \in Attempts, NEW step \in Steps, Go(a, step),
           step \in Holding => edge[a].at \in Holding
    PROVE  EdgeMoves
<1>1. [edge[a] EXCEPT !.at = step] \in Edge /\ [edge[a] EXCEPT !.at = step].at = step
  BY DEF TypeOK, Edge
<1>. QED
  BY <1>1 DEF Go, TypeOK, EdgeMoves

\* Deciding an answer moves the isolate on, and gives no slot.
LEMMA DecideMoves ==
    ASSUME TypeOK, NEW a \in Attempts, NEW answer \in Answers, NEW step \in Steps,
           Decide(a, answer, step), step \in Holding => edge[a].at \in Holding
    PROVE  EdgeMoves
<1> DEFINE told == IF edge[a].answer.status = "none" THEN answer ELSE edge[a].answer
           e == Resting(step, edge[a].try, told)
<1>1. told \in Answers /\ edge[a].try \in {1, 2}
  BY DEF TypeOK, Edge
<1>2. edge' = [edge EXCEPT ![a] = e]
  BY DEF Decide
<1> HIDE DEF told
<1>3. e \in Edge /\ e.at = step
  BY <1>1 DEF Resting, Edge
<1> HIDE DEF e
<1>. QED
  BY <1>2, <1>3 DEF TypeOK, EdgeMoves

\* The answers that are given.
LEMMA AnswersGiven ==
    /\ \A status \in Results : /\ Answer(status) \in Answers
                               /\ Answer(status).status = status /\ Answer(status).job = None
    /\ \A a \in Attempts : /\ Accepted(a) \in Answers
                           /\ Accepted(a).status = "accepted" /\ Accepted(a).job = a
BY DEF Answer, Accepted, Answers, Results

\* Only an admission that is there names a job.
LEMMA BoundJobs ==
    ASSUME TypeOK, NEW a \in Attempts, Found(a)
    PROVE  /\ BoundJob(a) \in Attempts
           /\ CapabilityOf[a] \in DOMAIN admissions /\ admissions[CapabilityOf[a]].expiresAt > now
<1>1. Remembered[CapabilityOf[a]] \in [job : Attempts, expiresAt : Int]
  BY RememberedRows, RowsOf DEF Found
<1>. QED
  BY <1>1, RememberedRows DEF Found, BoundJob

-----------------------------------------------------------------------------
(* What an isolate does.                                                   *)

\* Arriving stamps a deadline and takes nothing.
LEMMA ArriveKeeps ==
    ASSUME Inv, NEW a \in Attempts, Arrive(a)
    PROVE  Inv'
<1>1. TypeOK /\ now' = now /\ UNCHANGED <<tables, calls>>
  BY DEF Inv, Arrive
<1>2. PICK deadline \in (now + ADMISSION_TIMEOUT - EDGE_SKEW)..(now + ADMISSION_TIMEOUT + EDGE_SKEW) :
         edge' = [edge EXCEPT ![a] = [edge[a] EXCEPT !.at = "find", !.deadline = deadline]]
  BY DEF Arrive
<1>3. deadline \in Int
  BY <1>1, <1>2, Constants DEF TypeOK
<1>4. /\ [edge[a] EXCEPT !.at = "find", !.deadline = deadline] \in Edge
      /\ [edge[a] EXCEPT !.at = "find", !.deadline = deadline].at = "find"
  BY <1>1, <1>3 DEF TypeOK, Edge, Steps
<1>5. EdgeMoves
  BY <1>1, <1>2, <1>4 DEF TypeOK, EdgeMoves, Holding
<1> DEFINE job == IF Found(a) THEN BoundJob(a) ELSE None
<1>6. job \in Attempts \cup {None}
  BY <1>1, BoundJobs
<1>7. past' = [past EXCEPT ![a] = [past[a] EXCEPT !.knew = job]]
  BY DEF Arrive
<1> HIDE DEF job
<1>8. SamePast
  BY <1>1, <1>6, <1>7 DEF TypeOK, Past, SamePast
<1>. QED
  BY <1>1, <1>5, <1>8, StillKept, QuietKeeps DEF tables, TypeOK

\* The lookup before the gate deletes only expired admissions.
LEMMA FindCommittedKeeps ==
    ASSUME Inv, NEW a \in Attempts, FindCommitted(a)
    PROVE  Inv'
<1>1. /\ TypeOK /\ now' = now /\ UNCHANGED <<reservations, refusals, calls, past>>
      /\ admissions' = Remembered
  BY DEF Inv, FindCommitted
<1>2. {"done", "reserve"} \subseteq Steps \ Holding /\ "conflict" \in Results
  BY DEF Steps, Holding, Results
<1>3. CASE Found(a) /\ Decide(a, Accepted(BoundJob(a)), "done")
  <2>1. EdgeMoves
    BY <1>1, <1>2, <1>3, BoundJobs, AnswersGiven, DecideMoves
  <2>. QED
    BY <1>1, <2>1, StillKept, SamePastNow, QuietKeeps DEF TypeOK
<1>4. CASE Decide(a, Answer("conflict"), "done")
  <2>1. EdgeMoves
    BY <1>1, <1>2, <1>4, AnswersGiven, DecideMoves
  <2>. QED
    BY <1>1, <2>1, StillKept, SamePastNow, QuietKeeps DEF TypeOK
<1>5. CASE Go(a, "reserve")
  <2>1. EdgeMoves
    BY <1>1, <1>2, <1>5, GoMoves
  <2>. QED
    BY <1>1, <2>1, StillKept, SamePastNow, QuietKeeps DEF TypeOK
<1>. QED
  BY <1>3, <1>4, <1>5 DEF FindCommitted

\* A step of an isolate that only goes on, or decides an answer.
LEMMA OnlyMoves ==
    ASSUME Inv, EdgeMoves, UNCHANGED <<now, reservations, refusals, calls>>,
           admissions' \in {admissions, Remembered}, SamePast
    PROVE  Inv'
BY StillKept, QuietKeeps DEF Inv, TypeOK

\* The gate sweeps quota counters only.
LEMMA GateKeeps ==
    ASSUME Inv, NEW a \in Attempts, Gate(a) \/ GateFails(a)
    PROVE  Inv'
<1>1. TypeOK /\ UNCHANGED <<now, reservations, refusals, calls>> /\ admissions' = admissions /\ SamePast
  BY SamePastNow DEF Inv, Gate, GateFails, tables
<1>2. /\ {"prepare", "release"} \subseteq Steps /\ edge[a].at \in Holding
      /\ {"rate-limited", "unavailable", "refused"} \subseteq Results
  BY DEF Gate, GateFails, At, Steps, Holding, Results
<1>3. \/ Go(a, "prepare")
      \/ \E status \in {"rate-limited", "unavailable", "refused"} : Decide(a, Answer(status), "release")
  BY DEF Gate, GateFails
<1>4. EdgeMoves
  BY <1>1, <1>2, <1>3, AnswersGiven, GoMoves, DecideMoves
<1>. QED
  BY <1>1, <1>4, OnlyMoves

\* Preparation stamps a job, or leaves a verdict to be recorded.
LEMMA PrepareKeeps ==
    ASSUME Inv, NEW a \in Attempts, Prepare(a)
    PROVE  Inv'
<1>1. TypeOK /\ UNCHANGED <<now, reservations, refusals, calls>> /\ admissions' = admissions
  BY DEF Inv, Prepare, tables
<1>2. /\ {"commit", "refuse", "release"} \subseteq Steps \cap Holding /\ edge[a].at \in Holding
      /\ {"rate-limited", "unavailable"} \subseteq Results
  BY DEF Prepare, At, Steps, Holding, Results
<1>3. ASSUME \E admittedAt \in (now - NODE_SKEW)..(now + NODE_SKEW) :
               edge' = [edge EXCEPT ![a].at = "commit", ![a].admittedAt = admittedAt]
      PROVE  EdgeMoves
  <2>1. PICK admittedAt \in (now - NODE_SKEW)..(now + NODE_SKEW) :
          edge' = [edge EXCEPT ![a] = [edge[a] EXCEPT !.at = "commit", !.admittedAt = admittedAt]]
    BY <1>3
  <2>2. admittedAt \in Int
    BY <1>1, <2>1, Constants DEF TypeOK
  <2>3. [edge[a] EXCEPT !.at = "commit", !.admittedAt = admittedAt] \in Edge
    BY <1>1, <1>2, <2>2 DEF TypeOK, Edge
  <2>. QED
    BY <1>1, <1>2, <2>1, <2>3 DEF TypeOK, EdgeMoves
<1>4. EdgeMoves
  <2>1. CASE Go(a, "refuse")
    BY <1>1, <1>2, <2>1, GoMoves
  <2>2. CASE \E status \in {"unavailable", "rate-limited"} : Decide(a, Answer(status), "release")
    BY <1>1, <1>2, <2>2, AnswersGiven, DecideMoves
  <2>. QED
    BY <1>3, <2>1, <2>2 DEF Prepare
<1>5. SamePast
  <2>1. CASE past' = past
    BY <1>1, <2>1, SamePastNow
  <2>2. CASE past' = [past EXCEPT ![a].refusedUntil = past[a].held]
    BY <1>1, <2>2 DEF TypeOK, Past, SamePast
  <2>. QED
    BY <2>1, <2>2 DEF Prepare
<1>. QED
  BY <1>1, <1>4, <1>5, OnlyMoves

\* Steps in which the isolate moves on and at most admissions are swept.
LEMMA MovesOn ==
    ASSUME Inv, NEW a \in Attempts, SendCommit(a) \/ LoseCall(a) \/ ReadBack(a) \/ Crash(a)
    PROVE  Inv'
<1>1. /\ TypeOK /\ UNCHANGED <<now, reservations, refusals>> /\ SamePast
      /\ admissions' \in {admissions, Remembered}
  BY SamePastNow DEF Inv, SendCommit, LoseCall, ReadBack, Crash, tables
<1>2. /\ {"await", "readback", "release", "commit", "done"} \subseteq Steps
      /\ "done" \notin Holding /\ "unavailable" \in Results
  BY DEF Steps, Holding, Results
<1>3. CASE SendCommit(a)
  <2> DEFINE call == [attempt |-> a, try |-> edge[a].try, stage |-> "preflight",
                      deadline |-> edge[a].deadline, admittedAt |-> edge[a].admittedAt]
  <2>1. call \in Call
    BY <1>1 DEF TypeOK, Edge, Call
  <2>2. calls' \in SUBSET Call
    BY <1>1, <1>3, <2>1 DEF SendCommit, TypeOK
  <2>3. EdgeMoves
    BY <1>1, <1>2, <1>3, GoMoves DEF SendCommit, At, Holding
  <2>. QED
    BY <1>1, <2>2, <2>3, StillKept, QuietKeeps DEF TypeOK
<1>4. CASE LoseCall(a)
  <2>1. EdgeMoves
    BY <1>1, <1>2, <1>4, GoMoves DEF LoseCall, At, Holding
  <2>. QED
    BY <1>1, <1>4, <2>1, OnlyMoves DEF LoseCall
<1>5. CASE ReadBack(a)
  <2>0. edge[a].at \in Holding
    BY <1>5 DEF ReadBack, At, Holding
  <2>4. EdgeMoves
    <3>1. CASE Found(a) /\ Decide(a, Accepted(BoundJob(a)), "release")
      BY <1>1, <1>2, <2>0, <3>1, BoundJobs, AnswersGiven, DecideMoves
    <3>2. CASE Decide(a, Answer("unavailable"), "release")
      BY <1>1, <1>2, <2>0, <3>2, AnswersGiven, DecideMoves
    <3>3. CASE edge' = [edge EXCEPT ![a].at = "commit", ![a].try = 2]
      <4>1. [edge[a] EXCEPT !.at = "commit", !.try = 2] \in Edge
        BY <1>1, <1>2 DEF TypeOK, Edge
      <4>. QED
        BY <1>1, <2>0, <3>3, <4>1 DEF TypeOK, EdgeMoves
    <3>. QED
      BY <1>5, <3>1, <3>2, <3>3 DEF ReadBack
  <2>. QED
    BY <1>1, <1>5, <2>4, OnlyMoves DEF ReadBack
<1>6. CASE Crash(a)
  <2>1. EdgeMoves
    BY <1>1, <1>2, <1>6, AnswersGiven, DecideMoves DEF Crash
  <2>. QED
    BY <1>1, <1>6, <2>1, OnlyMoves DEF Crash
<1>. QED
  BY <1>3, <1>4, <1>5, <1>6

\* Giving up at the deadline leaves the slot to be released.
LEMMA AbortKeeps ==
    ASSUME Inv, NEW a \in Attempts, Abort(a)
    PROVE  Inv'
<1>1. TypeOK /\ UNCHANGED <<now, reservations, refusals, calls>> /\ admissions' = admissions /\ SamePast
  BY SamePastNow DEF Inv, Abort, tables
<1>2. Answer("unavailable") \in Answers /\ {"release", "done"} \subseteq Steps /\ "done" \notin Holding
  BY AnswersGiven DEF Results, Steps, Holding
<1>3. CASE edge' = [edge EXCEPT ![a].answer = Answer("unavailable")]
  <2>1. /\ [edge[a] EXCEPT !.answer = Answer("unavailable")] \in Edge
        /\ [edge[a] EXCEPT !.answer = Answer("unavailable")].at = edge[a].at
    BY <1>1, <1>2 DEF TypeOK, Edge
  <2>. QED
    BY <1>1, <1>3, <2>1, OnlyMoves DEF TypeOK, EdgeMoves
<1>4. CASE Decide(a, Answer("unavailable"), IF edge[a].at \in Holding THEN "release" ELSE "done")
  <2>1. EdgeMoves
    BY <1>1, <1>2, <1>4, DecideMoves
  <2>. QED
    BY <1>1, <2>1, OnlyMoves
<1>. QED
  BY <1>3, <1>4 DEF Abort

-----------------------------------------------------------------------------
(* Refusals and slots.                                                     *)

\* A refusal is recorded in a table of its own.
LEMMA RecordRefusalKeeps ==
    ASSUME Inv, NEW a \in Attempts, RecordRefusal(a)
    PROVE  Inv'
<1> DEFINE c == CapabilityOf[a]
           kept == Unexpired(refusals)
           until == Max({Clamped(edge[a].deadline)} \union {kept[x] : x \in DOMAIN kept \intersect {c}})
<1>1. /\ TypeOK /\ UNCHANGED <<now, reservations, calls>> /\ admissions' = admissions
      /\ c \in Capabilities
  BY Constants DEF Inv, RecordRefusal
<1>2. kept \in Table(Int)
  BY <1>1, UnexpiredRows DEF TypeOK
<1>3. Clamped(edge[a].deadline) \in Int
  <2>1. edge[a].deadline \in Int /\ now + ADMISSION_TIMEOUT \in Int
    BY <1>1, Constants DEF TypeOK, Edge
  <2>. QED
    BY <2>1, MinOfTwo DEF Clamped
<1>4. until \in Int
  <2> DEFINE m == Clamped(edge[a].deadline)
             rows == {kept[x] : x \in DOMAIN kept \intersect {c}}
  <2>1. \A n \in rows : n \in Int
    BY <1>2, RowsOf
  <2>2. \A n, k \in rows : n = k
    OBVIOUS
  <2> HIDE DEF rows
  <2>3. \E x \in {m} \cup rows : \A y \in {m} \cup rows : x >= y
    BY <1>3, <2>1, <2>2
  <2>4. Max({m} \cup rows) \in {m} \cup rows
    BY <2>3 DEF Max
  <2>. QED
    BY <1>3, <2>1, <2>4 DEF rows
<1> HIDE DEF until, kept, c
<1>5. refusals' \in {Put(kept, c, until), kept, refusals}
  BY DEF RecordRefusal, until, kept, c
<1>6. refusals' \in Table(Int)
  <2>1. Put(kept, c, until) \in Table(Int)
    BY <1>1, <1>2, <1>4, OneMoreRow
  <2>2. refusals \in Table(Int)
    BY <1>1 DEF TypeOK
  <2>. QED
    BY <1>2, <1>5, <2>1, <2>2
<1>7. past' \in {[past EXCEPT ![a] = [past[a] EXCEPT !.refusedUntil = until]],
                 [past EXCEPT ![a] = [past[a] EXCEPT !.refusedUntil = 0]]}
  BY DEF RecordRefusal, until, kept, c
<1>8. SamePast
  <2>1. /\ [past[a] EXCEPT !.refusedUntil = until] \in Past
        /\ [past[a] EXCEPT !.refusedUntil = 0] \in Past
    BY <1>1, <1>4 DEF TypeOK, Past
  <2>. QED
    BY <1>1, <1>7, <2>1 DEF TypeOK, Past, SamePast
<1>9. EdgeMoves
  BY <1>1, AnswersGiven, DecideMoves DEF RecordRefusal, At, Results, Steps, Holding
<1>. QED
  BY <1>1, <1>6, <1>8, <1>9, StillKept, QuietKeeps DEF TypeOK

\* A slot is taken only when nobody holds it.
LEMMA ReserveKeeps ==
    ASSUME Inv, NEW a \in Attempts, Reserve(a)
    PROVE  Inv'
<1> DEFINE c == CapabilityOf[a]
           expiry == Clamped(edge[a].deadline)
           live == Unexpired(reservations)
<1>1. /\ TypeOK /\ UNCHANGED <<now, calls>> /\ admissions' = admissions
      /\ c \in Capabilities /\ edge[a].at = "reserve"
  BY Constants DEF Inv, Reserve, At
<1>2. /\ live \in Table(Int) /\ DOMAIN live = {x \in DOMAIN reservations : reservations[x] > now}
      /\ \A x \in DOMAIN live : live[x] = reservations[x]
  BY <1>1, UnexpiredRows DEF TypeOK
<1>3. expiry \in Int
  <2>1. edge[a].deadline \in Int /\ now + ADMISSION_TIMEOUT \in Int
    BY <1>1, Constants DEF TypeOK, Edge
  <2>. QED
    BY <2>1, MinOfTwo DEF Clamped
<1>4. refusals' \in Table(Int)
  BY <1>1, UnexpiredRows DEF Reserve, TypeOK
<1>5. {"gate", "done"} \subseteq Steps /\ "done" \notin Holding /\ "reserve" \notin Holding
  BY DEF Steps, Holding
<1>6. SlotStatus(a) \in Results \cup {"reserved"} /\ "unavailable" \in Results
  <2>1. SlotStatus(a) \in {"refused-before", "window-elapsed", "in-flight", "at-capacity", "reserved"}
    BY DEF SlotStatus
  <2>. QED
    BY <2>1 DEF Results
<1>7. \/ /\ SlotStatus(a) = "reserved"
         /\ reservations' = Put(live, c, expiry)
         /\ Go(a, "gate") \/ Decide(a, Answer("unavailable"), "done")
         /\ past' = [past EXCEPT ![a] = [past[a] EXCEPT !.held = expiry]]
      \/ /\ SlotStatus(a) # "reserved"
         /\ reservations' \in {reservations, live}
         /\ Decide(a, Answer(SlotStatus(a)), "done")
         /\ past' = past
  BY DEF Reserve
<1>8. SlotStatus(a) = "reserved" => c \notin DOMAIN live
  BY DEF SlotStatus
<1> HIDE DEF expiry, live, c
<1>9. /\ edge' \in [Attempts -> Edge]
      /\ \A b \in Attempts \ {a} : edge'[b] = edge[b]
      /\ edge'[a].at \in Holding => SlotStatus(a) = "reserved"
  <2>1. CASE Go(a, "gate") /\ SlotStatus(a) = "reserved"
    <3>1. [edge[a] EXCEPT !.at = "gate"] \in Edge
      BY <1>1, <1>5 DEF TypeOK, Edge
    <3>. QED
      BY <1>1, <2>1, <3>1 DEF Go, TypeOK
  <2>2. ASSUME NEW answer \in Answers, Decide(a, answer, "done")
        PROVE  /\ edge' \in [Attempts -> Edge]
               /\ \A b \in Attempts \ {a} : edge'[b] = edge[b]
               /\ edge'[a].at = "done"
    <3> DEFINE told == IF edge[a].answer.status = "none" THEN answer ELSE edge[a].answer
               e == Resting("done", edge[a].try, told)
    <3>1. told \in Answers /\ edge[a].try \in {1, 2}
      BY <1>1 DEF TypeOK, Edge
    <3>2. edge' = [edge EXCEPT ![a] = e]
      BY <2>2 DEF Decide
    <3> HIDE DEF told
    <3>3. e \in Edge /\ e.at = "done"
      BY <1>5, <3>1 DEF Resting, Edge
    <3> HIDE DEF e
    <3>. QED
      BY <1>1, <3>2, <3>3 DEF TypeOK
  <2>. QED
    BY <1>5, <1>6, <1>7, <2>1, <2>2, AnswersGiven
<1>10. /\ past' \in [Attempts -> Past]
       /\ \A b \in Attempts : /\ past'[b].committedAt = past[b].committedAt
                              /\ past'[b].lapsesAt = past[b].lapsesAt
       /\ \A b \in Attempts \ {a} : past'[b].held = past[b].held
       /\ SlotStatus(a) = "reserved" => past'[a].held = expiry
  <2>1. [past[a] EXCEPT !.held = expiry] \in Past
    BY <1>1, <1>3 DEF TypeOK, Past
  <2>. QED
    BY <1>1, <1>7, <2>1 DEF TypeOK, Past
<1>11. /\ reservations' \in Table(Int)
       /\ \A x \in DOMAIN reservations : reservations[x] > now =>
            x \in DOMAIN reservations' /\ reservations'[x] = reservations[x]
       /\ SlotStatus(a) = "reserved" => c \in DOMAIN reservations' /\ reservations'[c] = expiry
  <2>1. CASE SlotStatus(a) = "reserved"
    <3>1. reservations' = Put(live, c, expiry) /\ c \notin DOMAIN live
      BY <1>7, <1>8, <2>1
    <3>0. live \in Table(Int) /\ c \in Capabilities /\ expiry \in Int
      BY <1>1, <1>2, <1>3
    <3>2. /\ Put(live, c, expiry) \in Table(Int)
          /\ DOMAIN Put(live, c, expiry) = DOMAIN live \cup {c}
          /\ Put(live, c, expiry)[c] = expiry
          /\ \A x \in DOMAIN live \ {c} : Put(live, c, expiry)[x] = live[x]
      <4>1. Put(live, c, expiry) \in Table(Int)
        BY <3>0, OneMoreRow
      <4>. QED
        BY <4>1 DEF Put
    <3>. QED
      BY <1>2, <3>1, <3>2
  <2>2. CASE SlotStatus(a) # "reserved"
    <3>1. reservations \in Table(Int)
      BY <1>1 DEF TypeOK
    <3>. QED
      BY <1>2, <1>7, <2>2, <3>1
  <2>. QED
    BY <2>1, <2>2
<1>12. \A b \in Attempts \ {a} :
         /\ Holds(b)' => Holds(b)
         /\ Holds(b) => /\ CapabilityOf[b] \in DOMAIN reservations
                        /\ reservations[CapabilityOf[b]] = past[b].held
                        /\ reservations[CapabilityOf[b]] > now
  <2> TAKE b \in Attempts \ {a}
  <2>1. past[b].held \in Int /\ now \in Int
    BY <1>1 DEF TypeOK, Past
  <2>. QED
    BY <1>1, <1>9, <1>10, <2>1 DEF Inv, HasSlot, Holds
<1>13. ASSUME NEW b \in Attempts
       PROVE  HasSlot(b)'
  <2>1. CASE b = a
    BY <1>9, <1>10, <1>11, <2>1 DEF HasSlot, Holds, c
  <2>2. CASE b # a
    BY <1>10, <1>11, <1>12, <2>2 DEF HasSlot
  <2>. QED
    BY <2>1, <2>2
<1>14. ASSUME NEW b \in Attempts \ {a}, SameCapability(a, b), Holds(a)'
       PROVE  ~Holds(b)'
  <2>1. SlotStatus(a) = "reserved" /\ c = CapabilityOf[b]
    BY <1>9, <1>14 DEF Holds, SameCapability, c
  <2>. QED
    BY <1>2, <1>8, <1>12, <2>1
<1>15. \A b, d \in Attempts : b # d /\ SameCapability(b, d) /\ Holds(b)' => ~Holds(d)'
  <2>1. \A b, d \in Attempts : SameCapability(b, d) => SameCapability(d, b)
    BY DEF SameCapability
  <2>. QED
    BY <1>12, <1>14, <2>1 DEF Inv
<1>16. TypeOK'
  BY <1>1, <1>4, <1>9, <1>10, <1>11 DEF TypeOK
<1>17. AdmissionsKept
  BY <1>1, StillKept
<1>. QED
  BY <1>1, <1>10, <1>13, <1>15, <1>16, <1>17, BindingsAfter DEF Inv, SameCapability

\* A late release finds a row that is not its own.
LEMMA ReleaseKeeps ==
    ASSUME Inv, NEW a \in Attempts, Release(a)
    PROVE  Inv'
<1>1. /\ TypeOK /\ UNCHANGED <<now, calls, past, refusals>> /\ admissions' = admissions
      /\ edge[a].at = "release"
  BY DEF Inv, Release, At
<1>2. "done" \in Steps /\ "done" \notin Holding /\ "release" \in Holding /\ Go(a, "done")
  BY DEF Steps, Holding, Release
<1>3. EdgeMoves /\ edge'[a].at = "done"
  <2>1. [edge[a] EXCEPT !.at = "done"] \in Edge /\ [edge[a] EXCEPT !.at = "done"].at = "done"
    BY <1>1, <1>2 DEF TypeOK, Edge
  <2>. QED
    BY <1>1, <1>2, <2>1 DEF Go, TypeOK, EdgeMoves
<1> DEFINE S == {x \in DOMAIN reservations : x # CapabilityOf[a] \/ reservations[x] # past[a].held}
<1>4. reservations' = [x \in S |-> reservations[x]] \/ reservations' = reservations
  BY DEF Release
<1>5. /\ reservations' \in Table(Int)
      /\ \A x \in S : x \in DOMAIN reservations' /\ reservations'[x] = reservations[x]
  BY <1>1, <1>4, FewerRows DEF TypeOK
<1>6. ASSUME NEW b \in Attempts, Holds(b)'
      PROVE  /\ b # a /\ Holds(b)
             /\ CapabilityOf[b] \in DOMAIN reservations'
             /\ reservations'[CapabilityOf[b]] = past[b].held
  <2>1. b # a /\ Holds(b)
    BY <1>1, <1>2, <1>3, <1>6 DEF Holds, EdgeMoves
  <2>2. CapabilityOf[b] \in DOMAIN reservations /\ reservations[CapabilityOf[b]] = past[b].held
    BY <2>1 DEF Inv, HasSlot
  <2>3. CapabilityOf[b] = CapabilityOf[a] => past[b].held # past[a].held
    BY <1>1, <1>2, <2>1 DEF Inv, Holds, SameCapability
  <2>. QED
    BY <1>5, <2>1, <2>2, <2>3
<1>7. /\ \A b \in Attempts : HasSlot(b)'
      /\ \A b, d \in Attempts : b # d /\ SameCapability(b, d) /\ Holds(b)' => ~Holds(d)'
  BY <1>1, <1>6 DEF Inv, HasSlot
<1>8. AdmissionsKept
  BY <1>1, StillKept
<1>9. TypeOK'
  BY <1>1, <1>3, <1>5 DEF TypeOK, EdgeMoves
<1>. QED
  BY <1>1, <1>7, <1>8, <1>9, BindingsAfter DEF Inv, SameCapability

-----------------------------------------------------------------------------
(* What the Durable Object does.                                           *)

\* The caller of a call that ends hears of it, or has left.
LEMMA FinishMoves ==
    ASSUME TypeOK, NEW call \in calls, NEW answer \in Answers, Finish(call, answer)
    PROVE  EdgeMoves /\ calls' \in SUBSET Call
<1>1. call.attempt \in Attempts /\ calls' \in SUBSET Call
  BY DEF TypeOK, Call, Finish
<1>2. CASE edge' = edge
  BY <1>1, <1>2 DEF TypeOK, EdgeMoves
<1>3. ASSUME NEW heard \in Answers, At(call.attempt, "await"), Conclude(call.attempt, heard)
      PROVE  EdgeMoves
  <2>1. {"readback", "release"} \subseteq Steps /\ edge[call.attempt].at \in Holding
    BY <1>3 DEF At, Steps, Holding
  <2>2. CASE Go(call.attempt, "readback")
    BY <1>1, <2>1, <2>2, GoMoves
  <2>3. CASE Decide(call.attempt, IF heard.status \in {"refused", "expired"} THEN Answer("unavailable") ELSE heard, "release")
    <3>1. (IF heard.status \in {"refused", "expired"} THEN Answer("unavailable") ELSE heard) \in Answers
      BY AnswersGiven DEF Results
    <3>. QED
      BY <1>1, <2>1, <2>3, <3>1, DecideMoves
  <2>. QED
    BY <1>3, <2>2, <2>3 DEF Conclude
<1>4. Answer("unknown") \in Answers
  BY AnswersGiven DEF Results
<1>. QED
  BY <1>1, <1>2, <1>3, <1>4 DEF Finish

\* What the transactions find is an answer; "none" means that nothing is bound.
LEMMA StandingFound ==
    ASSUME TypeOK, NEW call \in calls
    PROVE  /\ Standing(call) \in Answers
           /\ Standing(call).status = "none" => ~Found(call.attempt)
<1>1. call.attempt \in Attempts
  BY DEF TypeOK, Call
<1>2. Found(call.attempt) => Accepted(BoundJob(call.attempt)) \in Answers /\ Accepted(BoundJob(call.attempt)).status = "accepted"
  BY <1>1, BoundJobs, AnswersGiven
<1>3. /\ \A status \in {"expired", "conflict", "none"} :
           Answer(status) \in Answers /\ Answer(status).status = status
  BY AnswersGiven DEF Results
<1>4. \/ Standing(call) = Answer("expired")
      \/ Standing(call) = Answer("conflict")
      \/ Found(call.attempt) /\ Standing(call) = Accepted(BoundJob(call.attempt))
      \/ Standing(call) = Answer("none") /\ ~Found(call.attempt)
  BY DEF Standing
<1>. QED
  BY <1>2, <1>3, <1>4

\* The first transaction commits nothing.
LEMMA PreflightKeeps ==
    ASSUME Inv, NEW call \in calls, Preflight(call)
    PROVE  Inv'
<1>1. TypeOK /\ UNCHANGED <<now, reservations, refusals>> /\ SamePast
  BY SamePastNow DEF Inv, Preflight
<1>2. admissions' \in {admissions, Remembered}
  BY DEF Preflight
<1>3. EdgeMoves /\ calls' \in SUBSET Call
  <2>1. CASE \E answer \in Answers : Finish(call, answer)
    BY <1>1, <2>1, FinishMoves
  <2>2. CASE calls' = (calls \ {call}) \union {[call EXCEPT !.stage = "commit"]} /\ UNCHANGED edge
    <3>1. [call EXCEPT !.stage = "commit"] \in Call
      BY <1>1 DEF TypeOK, Call
    <3>. QED
      BY <1>1, <2>2, <3>1 DEF TypeOK, EdgeMoves
  <2>3. Standing(call) \in Answers /\ Answer("refused") \in Answers /\ Answer("rate-limited") \in Answers
    BY <1>1, StandingFound, AnswersGiven DEF Results
  <2>. QED
    BY <2>1, <2>2, <2>3 DEF Preflight
<1>. QED
  BY <1>1, <1>2, <1>3, StillKept, QuietKeeps DEF TypeOK

\* A call that dies changes no table.
LEMMA CallDiesKeeps ==
    ASSUME Inv, NEW call \in calls, CallDies(call)
    PROVE  Inv'
<1>1. TypeOK /\ UNCHANGED <<now, reservations, refusals>> /\ SamePast /\ admissions' = admissions
  BY SamePastNow DEF Inv, CallDies, tables
<1>2. EdgeMoves /\ calls' \in SUBSET Call
  BY <1>1, FinishMoves, AnswersGiven DEF CallDies, Results
<1>. QED
  BY <1>1, <1>2, StillKept, QuietKeeps DEF TypeOK

\* A job is committed when no job of its capability is bound any more.
LEMMA CommitAdmissionKeeps ==
    ASSUME Inv, NEW call \in calls, CommitAdmission(call)
    PROVE  Inv'
<1> DEFINE a == call.attempt
           c == CapabilityOf[a]
           at == call.admittedAt
           kept == RememberedAt(at)
           row == [job |-> a, expiresAt |-> at + TTL]
<1>1. TypeOK /\ UNCHANGED <<now, reservations, refusals>>
  BY DEF Inv, CommitAdmission
<1>2. a \in Attempts /\ at \in Int /\ c \in Capabilities /\ now \in Nat /\ at + TTL \in Int
  BY <1>1, Constants DEF TypeOK, Call
<1>3. ASSUME NEW answer \in Answers, Finish(call, answer), admissions' \in {admissions, Remembered},
             past' = past
      PROVE  Inv'
  <2>1. EdgeMoves /\ calls' \in SUBSET Call
    BY <1>1, <1>3, FinishMoves
  <2>. QED
    BY <1>1, <1>3, <2>1, SamePastNow, StillKept, QuietKeeps DEF TypeOK
<1>4. ASSUME Standing(call).status = "none", WithinSkew(call), admissions' = Put(kept, c, row),
             past' = [past EXCEPT ![a].committedAt = now, ![a].lapsesAt = at + TTL],
             Finish(call, Accepted(a))
      PROVE  Inv'
  <2>1. EdgeMoves /\ calls' \in SUBSET Call
    BY <1>1, <1>2, <1>4, FinishMoves, AnswersGiven
  <2>2. /\ past' \in [Attempts -> Past]
        /\ past'[a].committedAt = now /\ past'[a].lapsesAt = at + TTL
        /\ \A b \in Attempts \ {a} : past'[b] = past[b]
        /\ \A b \in Attempts : past'[b].held = past[b].held
    <3> DEFINE p == [past[a] EXCEPT !.committedAt = now, !.lapsesAt = at + TTL]
    <3>0. past[a] \in Past /\ now \in Int /\ at + TTL \in Int
      BY <1>1, <1>2 DEF TypeOK
    <3>1. /\ p \in Past /\ p.committedAt = now /\ p.lapsesAt = at + TTL
          /\ p.held = past[a].held
      BY <3>0 DEF Past
    <3>2. past' = [past EXCEPT ![a] = p]
      BY <1>4
    <3> HIDE DEF p
    <3>. QED
      BY <1>1, <1>2, <3>1, <3>2 DEF TypeOK
  <2>3. /\ \A b \in Attempts : HasSlot(b)'
        /\ \A b, d \in Attempts : b # d /\ SameCapability(b, d) /\ Holds(b)' => ~Holds(d)'
    BY <1>1, <2>1, <2>2, SlotsAfter
  <2>4. row \in [job : Attempts, expiresAt : Int]
    BY <1>2
  <2>5. /\ kept \in Table([job : Attempts, expiresAt : Int])
        /\ DOMAIN kept = {x \in DOMAIN Remembered : admissions[x].expiresAt > at}
        /\ \A x \in DOMAIN kept : kept[x] = admissions[x]
        /\ DOMAIN Remembered = {x \in DOMAIN admissions : admissions[x].expiresAt > now}
    BY <1>1, <1>2, RememberedRows, RememberedAtRows
  <2> HIDE DEF kept, row
  <2>6. /\ admissions' \in Table([job : Attempts, expiresAt : Int])
        /\ c \in DOMAIN admissions' /\ admissions'[c] = row
        /\ \A x \in DOMAIN kept \ {c} : x \in DOMAIN admissions' /\ admissions'[x] = admissions[x]
    <3> DEFINE rows == [job : Attempts, expiresAt : Int]
    <3>0. kept \in Table(rows) /\ c \in Capabilities /\ row \in rows
      BY <1>2, <2>4, <2>5
    <3> HIDE DEF rows, c
    <3>1. /\ Put(kept, c, row) \in Table(rows)
          /\ DOMAIN Put(kept, c, row) = DOMAIN kept \cup {c}
          /\ Put(kept, c, row)[c] = row
          /\ \A x \in DOMAIN kept \ {c} : Put(kept, c, row)[x] = kept[x]
      <4>1. Put(kept, c, row) \in Table(rows)
        BY <3>0, OneMoreRow
      <4>. QED
        BY <4>1 DEF Put
    <3>. QED
      BY <1>4, <2>5, <3>1 DEF rows, c
  <2>7. TypeOK'
    BY <1>1, <2>1, <2>2, <2>6 DEF TypeOK, EdgeMoves
  <2>8. ASSUME NEW b \in Attempts, Committed(b), now + MAX_LEAD < past[b].lapsesAt
        PROVE  /\ CapabilityOf[b] \in DOMAIN kept /\ CapabilityOf[b] # c
               /\ admissions[CapabilityOf[b]] = [job |-> b, expiresAt |-> past[b].lapsesAt]
    <3>1. /\ CapabilityOf[b] \in DOMAIN admissions
          /\ admissions[CapabilityOf[b]] = [job |-> b, expiresAt |-> past[b].lapsesAt]
      BY <2>8 DEF Inv, Bound
    <3>2. past[b].lapsesAt \in Int /\ MAX_LEAD \in Nat
      BY <1>1, Constants DEF TypeOK, Past
    <3>3. past[b].lapsesAt > now /\ past[b].lapsesAt > at
      BY <1>2, <1>4, <2>8, <3>2 DEF WithinSkew
    <3>4. CapabilityOf[b] \in DOMAIN Remembered /\ CapabilityOf[b] \in DOMAIN kept
      BY <2>5, <3>1, <3>3
    <3>5. c \notin DOMAIN Remembered
      BY <1>1, <1>4, StandingFound DEF Found
    <3>. QED
      BY <3>1, <3>4, <3>5
  <2>9. ASSUME NEW b \in Attempts
        PROVE  Bound(b)'
    <3>1. CASE b = a
      BY <2>2, <2>6, <3>1 DEF Bound, row
    <3>2. CASE b # a
      BY <1>1, <2>2, <2>6, <2>8, <3>2 DEF Bound, Committed
    <3>. QED
      BY <3>1, <3>2
  <2>10. ASSUME NEW b \in Attempts \ {a}, SameCapability(a, b), Committed(b)
         PROVE  now + MAX_LEAD >= past[b].lapsesAt
    <3>1. ~(now + MAX_LEAD < past[b].lapsesAt)
      BY <2>8, <2>10 DEF SameCapability
    <3>2. past[b].lapsesAt \in Int /\ now + MAX_LEAD \in Int
      BY <1>1, <1>2, Constants DEF TypeOK, Past
    <3>. QED
      BY <3>1, <3>2
  <2>11. ASSUME NEW b \in Attempts, NEW d \in Attempts
         PROVE  Apart(b, d)'
    <3>1. CASE b = a
      BY <2>2, <2>10, <3>1 DEF Apart, Committed, SameCapability
    <3>2. CASE d = a
      BY <2>2, <2>10, <3>2 DEF Apart, Committed, SameCapability
    <3>3. CASE b # a /\ d # a
      BY <2>2, <3>3 DEF Inv, Apart, Committed, SameCapability
    <3>. QED
      BY <3>1, <3>2, <3>3
  <2>. QED
    BY <2>3, <2>7, <2>9, <2>11 DEF Inv, SameCapability
<1>5. Standing(call) \in Answers /\ Answer("refused") \in Answers /\ Answer("rate-limited") \in Answers
  BY <1>1, StandingFound, AnswersGiven DEF Results
<1> HIDE DEF kept, row
<1>. QED
  BY <1>3, <1>4, <1>5 DEF CommitAdmission, kept, row

\* Time passing frees slots and lapses bindings, and makes neither.
LEMMA TickKeeps ==
    ASSUME Inv, Tick
    PROVE  Inv'
<1>1. /\ TypeOK /\ now \in Nat /\ now' = now + 1
      /\ UNCHANGED <<admissions, reservations, refusals, edge, calls, past>>
  BY DEF Inv, TypeOK, Tick, tables
<1>2. TypeOK'
  BY <1>1 DEF TypeOK
<1>3. ASSUME NEW a \in Attempts
      PROVE  /\ now' + MAX_LEAD < past[a].lapsesAt => now + MAX_LEAD < past[a].lapsesAt
             /\ now' < past[a].held => now < past[a].held
  <2>1. past[a].lapsesAt \in Int /\ past[a].held \in Int
    BY <1>1 DEF TypeOK, Past
  <2>. QED
    BY <1>1, <2>1, Constants
<1>4. \A a \in Attempts : Holds(a)' => Holds(a)
  BY <1>1, <1>3 DEF Holds
<1>5. \A a \in Attempts : Bound(a)' /\ HasSlot(a)'
  BY <1>1, <1>3, <1>4 DEF Inv, Bound, HasSlot, Committed
<1>. QED
  BY <1>1, <1>2, <1>4, <1>5 DEF Inv, Apart, Committed, SameCapability

-----------------------------------------------------------------------------
(* The theorems.                                                           *)

\* Nothing is bound and no slot is held at first.
LEMMA InvInit == Init => Inv
<1> SUFFICES ASSUME Init
             PROVE  Inv
  OBVIOUS
<1>1. /\ now \in Nat /\ calls \in SUBSET Call
  BY DEF Init
<1>2. \A rows : <<>> \in Table(rows)
  <2> TAKE rows
  <2>1. <<>> \in [{} -> rows]
    OBVIOUS
  <2>. QED
    BY <2>1 DEF Table
<1>3. admissions = <<>> /\ reservations = <<>> /\ refusals = <<>>
  BY DEF Init
<1>4. edge \in [Attempts -> Edge] /\ \A a \in Attempts : edge[a].at = "idle"
  <2>1. Answer("none") \in Answers /\ "idle" \in Steps
    BY AnswersGiven DEF Results, Steps
  <2>2. Resting("idle", 1, Answer("none")) \in Edge /\ Resting("idle", 1, Answer("none")).at = "idle"
    BY <2>1 DEF Resting, Edge
  <2>. QED
    BY <2>2 DEF Init
<1>5. past \in [Attempts -> Past] /\ \A a \in Attempts : ~Committed(a)
  <2> DEFINE p == [knew |-> None, held |-> 0, refusedUntil |-> 0, committedAt |-> -1, lapsesAt |-> 0]
  <2>1. p \in Past /\ ~(p.committedAt >= 0)
    BY DEF Past
  <2>2. past = [a \in Attempts |-> p]
    BY DEF Init
  <2> HIDE DEF p
  <2>. QED
    BY <2>1, <2>2 DEF Committed
<1>6. TypeOK
  BY <1>1, <1>2, <1>3, <1>4, <1>5 DEF TypeOK
<1>7. \A a \in Attempts : ~Holds(a)
  BY <1>4 DEF Holds, Holding
<1>. QED
  BY <1>5, <1>6, <1>7 DEF Inv, Bound, HasSlot, Apart

\* Every step keeps the invariant.
LEMMA InvNext == Inv /\ [Next]_vars => Inv'
<1> SUFFICES ASSUME Inv, [Next]_vars
             PROVE  Inv'
  OBVIOUS
<1>1. CASE Tick
  BY <1>1, TickKeeps
<1>2. ASSUME NEW a \in Attempts,
             \/ Arrive(a) \/ FindCommitted(a) \/ Reserve(a) \/ Gate(a) \/ GateFails(a)
             \/ Prepare(a) \/ RecordRefusal(a) \/ SendCommit(a) \/ LoseCall(a) \/ ReadBack(a)
             \/ Release(a) \/ Abort(a) \/ Crash(a)
      PROVE  Inv'
  BY <1>2, ArriveKeeps, FindCommittedKeeps, ReserveKeeps, GateKeeps, PrepareKeeps,
     RecordRefusalKeeps, MovesOn, ReleaseKeeps, AbortKeeps
<1>3. ASSUME NEW call \in calls, Preflight(call) \/ CommitAdmission(call) \/ CallDies(call)
      PROVE  Inv'
  BY <1>3, PreflightKeeps, CommitAdmissionKeeps, CallDiesKeeps
<1>4. CASE UNCHANGED vars
  BY <1>4 DEF vars, tables, Inv, TypeOK, Bound, HasSlot, Apart, Holds, Committed, SameCapability
<1>. QED
  BY <1>1, <1>2, <1>3, <1>4 DEF Next

\* The tables of the Durable Object keep what the isolates rely on: a committed
\* admission is remembered until it lapses (findScanAdmission and
\* recordScanAdmission delete nothing younger), and a preparation slot of a live
\* holder is there with the holder's own expiry.
THEOREM AdmissionInvariant == Spec => []Inv
BY InvInit, InvNext, PTL DEF Spec

\* However a capability is replayed, its jobs are committed further apart than an
\* admission is remembered: commitIdempotentScanAdmission looks for a committed
\* admission in the transaction that records another.
THEOREM JobsAreApart == Spec => []OneJobPerCapability
<1>1. Inv => OneJobPerCapability
  BY DEF Inv, Apart, OneJobPerCapability
<1>. QED
  BY <1>1, AdmissionInvariant, PTL

\* Nobody but time takes a preparation slot from its holder: the release of
\* releaseDurablePreparation is fenced by the expiry that was handed out.
THEOREM SlotsAreKept == Spec => []HolderKeepsSlot
<1>1. Inv => HolderKeepsSlot
  BY DEF Inv, HasSlot, Holds, HolderKeepsSlot
<1>. QED
  BY <1>1, AdmissionInvariant, PTL

-----------------------------------------------------------------------------
(* The refinement: admissions are the bindings that were promised.         *)

Binding(c) ==
    IF c \in DOMAIN admissions
    THEN [job |-> admissions[c].job, until |-> admissions[c].expiresAt]
    ELSE [job |-> None, until |-> 0]

Bindings == [c \in Capabilities |-> Binding(c)]

Told == [a \in Attempts |-> edge[a].answer.job]

\* What a lookup forgets has lapsed.
LEMMA Forgetting ==
    ASSUME TypeOK, admissions' \in {admissions, Remembered}
    PROVE  \E lapsed \in SUBSET Promise!Lapsed : Bindings' = Promise!Forgotten(lapsed)
<1>1. CASE admissions' = admissions
  <2>1. Bindings' = Promise!Forgotten({})
    BY <1>1 DEF Bindings, Binding, Promise!Forgotten
  <2>. QED
    BY <2>1
<1>2. CASE admissions' = Remembered
  <2> DEFINE lapsed == Capabilities \ DOMAIN Remembered
  <2>1. ASSUME NEW c \in lapsed
        PROVE  c \in Promise!Lapsed
    <3>1. CASE c \notin DOMAIN admissions
      <4>1. 0 <= now + MAX_LEAD
        BY Constants DEF TypeOK
      <4>. QED
        BY <3>1, <4>1 DEF Promise!Lapsed
    <3>2. CASE c \in DOMAIN admissions
      <4>1. admissions[c] \in [job : Attempts, expiresAt : Int]
        BY <3>2, RowsOf DEF TypeOK
      <4>2. ~(admissions[c].expiresAt > now)
        BY <3>2, RememberedRows
      <4>3. admissions[c].expiresAt <= now + MAX_LEAD
        BY <4>1, <4>2, Constants DEF TypeOK
      <4>. QED
        BY <3>2, <4>3 DEF Promise!Lapsed
    <3>. QED
      BY <3>1, <3>2
  <2>2. Bindings' = Promise!Forgotten(lapsed)
    <3> SUFFICES ASSUME NEW c \in Capabilities
                 PROVE  Bindings'[c] = Promise!Forgotten(lapsed)[c]
      BY DEF Bindings, Promise!Forgotten
    <3>1. CASE c \in DOMAIN Remembered
      BY <1>2, <3>1, RememberedRows DEF Bindings, Binding, Promise!Forgotten
    <3>2. CASE c \notin DOMAIN Remembered
      BY <1>2, <3>2 DEF Bindings, Binding, Promise!Forgotten, Promise!Unbound
    <3>. QED
      BY <3>1, <3>2
  <2>. QED
    BY <2>1, <2>2
<1>. QED
  BY <1>1, <1>2

\* A lookup that tells an attempt its job.
TellsBound(a) ==
    /\ Found(a) /\ Matches(a) /\ admissions' = Remembered
    /\ Told[a] = None /\ Told' = [Told EXCEPT ![a] = BoundJob(a)]

\* A lookup is a step of the promise.
LEMMA Looks ==
    ASSUME TypeOK, now' = now, admissions' \in {admissions, Remembered},
           Told' = Told \/ \E a \in Attempts : TellsBound(a)
    PROVE  Promise!Serve
<1>1. \E lapsed \in SUBSET Promise!Lapsed : Bindings' = Promise!Forgotten(lapsed)
  BY Forgetting
<1>2. ASSUME NEW a \in Attempts, TellsBound(a)
      PROVE  Promise!Tell(a)
  <2>1. CapabilityOf[a] \in DOMAIN admissions' /\ CapabilityOf[a] \in Capabilities
    BY <1>2, Constants DEF TellsBound, Found
  <2>2. Bindings'[CapabilityOf[a]].job = BoundJob(a)
    BY <1>2, <2>1 DEF TellsBound, Bindings, Binding, BoundJob
  <2>3. BoundJob(a) # None
    BY <1>2, BoundJobs, AdmissionAssumption DEF TellsBound
  <2>4. CommitmentOf[BoundJob(a)] = CommitmentOf[a]
    BY <1>2 DEF TellsBound, Matches
  <2>. QED
    BY <1>2, <2>2, <2>3, <2>4 DEF Promise!Tell, TellsBound, Bindings, Binding, Told
<1>3. Told' = Told \/ \E a \in Attempts : Promise!Tell(a)
  BY <1>2
<1>. QED
  BY <1>1, <1>3 DEF Promise!Serve, Bindings, Binding, Told

\* An attempt learns a job only from the first answer that it is given.
LEMMA GoTells ==
    ASSUME TypeOK, NEW a \in Attempts, NEW step, Go(a, step)
    PROVE  Told' = Told
<1>1. [edge[a] EXCEPT !.at = step].answer = edge[a].answer
  BY DEF TypeOK, Edge
<1>. QED
  BY <1>1 DEF Go, TypeOK, Told

Learns(a, answer) ==
    /\ answer.status = "accepted" /\ Told[a] = None
    /\ Told' = [Told EXCEPT ![a] = answer.job]

\* A decided answer tells its job, if no other was told before.
LEMMA DecideTells ==
    ASSUME TypeOK, NEW a \in Attempts, NEW answer \in Answers, NEW step, Decide(a, answer, step)
    PROVE  Told' = Told \/ Learns(a, answer)
<1> DEFINE told == IF edge[a].answer.status = "none" THEN answer ELSE edge[a].answer
           e == Resting(step, edge[a].try, told)
<1>1. edge' = [edge EXCEPT ![a] = e]
  BY DEF Decide
<1>2. e.answer = told
  BY DEF Resting
<1> HIDE DEF e
<1>3. edge'[a].answer = told /\ \A b \in Attempts \ {a} : edge'[b] = edge[b]
  BY <1>1, <1>2 DEF TypeOK
<1>4. edge[a].answer \in Answers
  BY DEF TypeOK, Edge
<1>5. CASE edge[a].answer.status = "none" /\ answer.status = "accepted"
  <2>1. edge[a].answer.job = None /\ told = answer
    BY <1>4, <1>5 DEF Answers, Results
  <2>. QED
    BY <1>3, <1>5, <2>1 DEF Learns, Told
<1>6. CASE edge[a].answer.status = "none" /\ answer.status # "accepted"
  <2>1. edge[a].answer.job = None /\ answer.job = None /\ told = answer
    BY <1>4, <1>6 DEF Answers, Results
  <2>. QED
    BY <1>3, <2>1 DEF Told
<1>7. CASE edge[a].answer.status # "none"
  BY <1>3, <1>7 DEF Told
<1>. QED
  BY <1>5, <1>6, <1>7

\* A call tells its caller at most the job of its result.
LEMMA FinishTells ==
    ASSUME TypeOK, NEW call \in calls, NEW answer \in Answers, Finish(call, answer)
    PROVE  Told' = Told \/ Learns(call.attempt, answer)
<1>1. call.attempt \in Attempts
  BY DEF TypeOK, Call
<1>2. CASE edge' = edge
  BY <1>2 DEF Told
<1>3. ASSUME NEW heard \in Answers, Conclude(call.attempt, heard)
      PROVE  Told' = Told \/ Learns(call.attempt, heard)
  <2>1. CASE Go(call.attempt, "readback")
    BY <1>1, <2>1, GoTells
  <2>2. CASE /\ heard.status \in {"refused", "expired"}
             /\ Decide(call.attempt, Answer("unavailable"), "release")
    <3>1. Answer("unavailable") \in Answers /\ Answer("unavailable").status # "accepted"
      BY AnswersGiven DEF Results
    <3>. QED
      BY <1>1, <2>2, <3>1, DecideTells DEF Learns
  <2>3. CASE Decide(call.attempt, heard, "release")
    BY <1>1, <2>3, DecideTells
  <2>. QED
    BY <1>3, <2>1, <2>2, <2>3 DEF Conclude
<1>4. Answer("unknown") \in Answers /\ Answer("unknown").status # "accepted"
  BY AnswersGiven DEF Results
<1>. QED
  BY <1>2, <1>3, <1>4 DEF Finish, Learns

\* What an isolate does is no promise, or tells one that was made.
LEMMA IsolateServes ==
    ASSUME Inv, NEW a \in Attempts,
           \/ Arrive(a) \/ FindCommitted(a) \/ Reserve(a) \/ Gate(a) \/ GateFails(a)
           \/ Prepare(a) \/ RecordRefusal(a) \/ SendCommit(a) \/ LoseCall(a) \/ ReadBack(a)
           \/ Release(a) \/ Abort(a) \/ Crash(a)
    PROVE  Promise!Serve
<1>1. TypeOK /\ now' = now
  BY DEF Inv, Arrive, FindCommitted, Reserve, Gate, GateFails, Prepare, RecordRefusal, SendCommit,
         LoseCall, ReadBack, Release, Abort, Crash
<1>2. admissions' \in {admissions, Remembered}
  BY DEF Arrive, FindCommitted, Reserve, Gate, GateFails, Prepare, RecordRefusal, SendCommit,
         LoseCall, ReadBack, Release, Abort, Crash, tables
<1>3. ASSUME NEW step, Go(a, step)
      PROVE  Told' = Told
  BY <1>1, <1>3, GoTells
<1>4. ASSUME NEW status \in Results, NEW step, Decide(a, Answer(status), step)
      PROVE  Told' = Told
  <2>1. Answer(status) \in Answers /\ Answer(status).status # "accepted"
    BY AnswersGiven DEF Results
  <2>. QED
    BY <1>1, <1>4, <2>1, DecideTells DEF Learns
<1>5. ASSUME NEW step, Found(a), Matches(a), admissions' = Remembered,
             Decide(a, Accepted(BoundJob(a)), step)
      PROVE  Told' = Told \/ TellsBound(a)
  <2>1. /\ Accepted(BoundJob(a)) \in Answers /\ Accepted(BoundJob(a)).job = BoundJob(a)
    BY <1>1, <1>5, BoundJobs, AnswersGiven
  <2>. QED
    BY <1>1, <1>5, <2>1, DecideTells DEF Learns, TellsBound
<1>6. {"conflict", "rate-limited", "unavailable", "refused"} \subseteq Results
  BY DEF Results
<1>7. CASE Arrive(a)
  <2>1. PICK deadline : edge' = [edge EXCEPT ![a] = [edge[a] EXCEPT !.at = "find", !.deadline = deadline]]
    BY <1>7 DEF Arrive
  <2>2. [edge[a] EXCEPT !.at = "find", !.deadline = deadline].answer = edge[a].answer
    BY <1>1 DEF TypeOK, Edge
  <2>3. Told' = Told
    BY <1>1, <2>1, <2>2 DEF TypeOK, Told
  <2>. QED
    BY <1>1, <1>2, <2>3, Looks
<1>8. CASE FindCommitted(a)
  <2>1. Told' = Told \/ TellsBound(a)
    BY <1>3, <1>4, <1>5, <1>6, <1>8 DEF FindCommitted
  <2>. QED
    BY <1>1, <1>2, <2>1, Looks
<1>9. CASE Reserve(a)
  <2>1. SlotStatus(a) \in Results \cup {"reserved"}
    <3>1. SlotStatus(a) \in {"refused-before", "window-elapsed", "in-flight", "at-capacity", "reserved"}
      BY DEF SlotStatus
    <3>. QED
      BY <3>1 DEF Results
  <2>2. Told' = Told
    BY <1>3, <1>4, <1>6, <1>9, <2>1 DEF Reserve
  <2>. QED
    BY <1>1, <1>2, <2>2, Looks
<1>10. CASE Gate(a) \/ GateFails(a) \/ RecordRefusal(a) \/ SendCommit(a) \/ LoseCall(a) \/ Release(a)
            \/ Crash(a)
  <2>1. Told' = Told
    BY <1>3, <1>4, <1>6, <1>10 DEF Gate, GateFails, RecordRefusal, SendCommit, LoseCall, Release, Crash
  <2>. QED
    BY <1>1, <1>2, <2>1, Looks
<1>11. CASE Prepare(a)
  <2>1. ASSUME NEW admittedAt,
               edge' = [edge EXCEPT ![a] = [edge[a] EXCEPT !.at = "commit", !.admittedAt = admittedAt]]
        PROVE  Told' = Told
    <3>1. [edge[a] EXCEPT !.at = "commit", !.admittedAt = admittedAt].answer = edge[a].answer
      BY <1>1 DEF TypeOK, Edge
    <3>. QED
      BY <1>1, <2>1, <3>1 DEF TypeOK, Told
  <2>2. Told' = Told
    BY <1>3, <1>4, <1>6, <1>11, <2>1 DEF Prepare
  <2>. QED
    BY <1>1, <1>2, <2>2, Looks
<1>12. CASE ReadBack(a)
  <2>1. CASE edge' = [edge EXCEPT ![a] = [edge[a] EXCEPT !.at = "commit", !.try = 2]]
    <3>1. [edge[a] EXCEPT !.at = "commit", !.try = 2].answer = edge[a].answer
      BY <1>1 DEF TypeOK, Edge
    <3>2. Told' = Told
      BY <1>1, <2>1, <3>1 DEF TypeOK, Told
    <3>. QED
      BY <1>1, <1>2, <3>2, Looks
  <2>2. CASE Decide(a, Answer("unavailable"), "release")
    BY <1>1, <1>2, <1>4, <1>6, <2>2, Looks
  <2>3. CASE /\ Found(a) /\ Matches(a) /\ admissions' = Remembered
             /\ Decide(a, Accepted(BoundJob(a)), "release")
    BY <1>1, <1>2, <1>5, <2>3, Looks
  <2>. QED
    BY <1>12, <2>1, <2>2, <2>3 DEF ReadBack
<1>13. CASE Abort(a)
  <2>1. CASE edge' = [edge EXCEPT ![a] = [edge[a] EXCEPT !.answer = Answer("unavailable")]]
             /\ edge[a].answer.status = "none"
    <3>1. edge[a].answer.job = None
      BY <1>1, <2>1 DEF TypeOK, Edge, Answers, Results
    <3>2. [edge[a] EXCEPT !.answer = Answer("unavailable")].answer.job = None
      BY <1>1, <1>6, AnswersGiven DEF TypeOK, Edge
    <3>3. Told' = Told
      BY <1>1, <2>1, <3>1, <3>2 DEF TypeOK, Told
    <3>. QED
      BY <1>1, <1>2, <3>3, Looks
  <2>2. CASE \E step : Decide(a, Answer("unavailable"), step)
    BY <1>1, <1>2, <1>4, <1>6, <2>2, Looks
  <2>. QED
    BY <1>13, <2>1, <2>2 DEF Abort
<1>. QED
  BY <1>7, <1>8, <1>9, <1>10, <1>11, <1>12, <1>13

\* An acceptance that a transaction finds is of the job that is bound.
LEMMA StandingTells ==
    ASSUME TypeOK, NEW call \in calls, Standing(call).status = "accepted"
    PROVE  /\ Found(call.attempt) /\ Matches(call.attempt)
           /\ Standing(call) = Accepted(BoundJob(call.attempt))
<1>1. \A status \in {"expired", "conflict", "none"} : Answer(status).status # "accepted"
  BY AnswersGiven DEF Results
<1>. QED
  BY <1>1 DEF Standing

\* A transaction that commits nothing tells at most the job that is bound.
LEMMA TransactionTells ==
    ASSUME TypeOK, now' = now, NEW call \in calls,
           \/ /\ admissions' = IF Standing(call).status = "accepted" THEN Remembered ELSE admissions
              /\ Finish(call, Standing(call))
           \/ /\ admissions' \in {admissions, Remembered}
              /\ edge' = edge \/ \E status \in {"refused", "rate-limited", "unknown"} :
                                   Finish(call, Answer(status))
    PROVE  Promise!Serve
<1> DEFINE a == call.attempt
<1>1. a \in Attempts
  BY DEF TypeOK, Call
<1>2. CASE /\ admissions' = IF Standing(call).status = "accepted" THEN Remembered ELSE admissions
           /\ Finish(call, Standing(call))
  <2>1. Told' = Told \/ Learns(a, Standing(call))
    BY <1>2, StandingFound, FinishTells
  <2>2. CASE Told' = Told
    BY <1>2, <2>2, Looks
  <2>3. CASE Learns(a, Standing(call))
    <3>1. Standing(call).status = "accepted"
      BY <2>3 DEF Learns
    <3>2. Found(a) /\ Matches(a) /\ Standing(call).job = BoundJob(a)
      BY <1>1, <3>1, StandingTells, BoundJobs, AnswersGiven
    <3>3. TellsBound(a)
      BY <1>2, <2>3, <3>1, <3>2 DEF Learns, TellsBound
    <3>. QED
      BY <1>1, <1>2, <3>1, <3>3, Looks
  <2>. QED
    BY <2>1, <2>2, <2>3
<1>3. ASSUME admissions' \in {admissions, Remembered}, edge' = edge
      PROVE  Promise!Serve
  <2>1. Told' = Told
    BY <1>3 DEF Told
  <2>. QED
    BY <1>3, <2>1, Looks
<1>4. ASSUME admissions' \in {admissions, Remembered},
             NEW status \in {"refused", "rate-limited", "unknown"}, Finish(call, Answer(status))
      PROVE  Promise!Serve
  <2>1. Answer(status) \in Answers /\ Answer(status).status # "accepted"
    BY AnswersGiven DEF Results
  <2>2. Told' = Told
    BY <1>4, <2>1, FinishTells DEF Learns
  <2>. QED
    BY <1>4, <2>2, Looks
<1>. QED
  BY <1>2, <1>3, <1>4

\* The binding that a commit makes is the promised one.
LEMMA Binds ==
    ASSUME TypeOK, now' = now, NEW call \in calls, WithinSkew(call),
           Standing(call).status = "none",
           admissions' = Put(RememberedAt(call.admittedAt), CapabilityOf[call.attempt],
                             [job |-> call.attempt, expiresAt |-> call.admittedAt + TTL]),
           Finish(call, Accepted(call.attempt))
    PROVE  Promise!Serve
<1> DEFINE a == call.attempt
           c == CapabilityOf[a]
           at == call.admittedAt
           kept == RememberedAt(at)
           row == [job |-> a, expiresAt |-> at + TTL]
           rows == [job : Attempts, expiresAt : Int]
           lapsed == Capabilities \ DOMAIN kept
<1>1. /\ a \in Attempts /\ at \in Int /\ c \in Capabilities /\ now \in Nat /\ at + TTL \in Int
      /\ MAX_LEAD \in Nat /\ MAX_AGE \in Nat
  BY Constants DEF TypeOK, Call
<1>2. /\ kept \in Table(rows)
      /\ DOMAIN kept = {x \in DOMAIN Remembered : admissions[x].expiresAt > at}
      /\ \A x \in DOMAIN kept : kept[x] = admissions[x]
      /\ DOMAIN Remembered = {x \in DOMAIN admissions : admissions[x].expiresAt > now}
  BY <1>1, RememberedRows, RememberedAtRows
<1>3. c \notin DOMAIN kept
  BY <1>2, StandingFound DEF Found
<1>4. at <= now + MAX_LEAD /\ at \in (now - MAX_AGE)..(now + MAX_LEAD)
  BY <1>1 DEF WithinSkew
<1>5. row \in rows
  BY <1>1
<1>6. /\ DOMAIN admissions' = DOMAIN kept \cup {c}
      /\ admissions'[c] = row
      /\ \A x \in DOMAIN kept \ {c} : admissions'[x] = admissions[x]
  <2>1. kept \in Table(rows) /\ c \in Capabilities /\ row \in rows /\ admissions' = Put(kept, c, row)
    BY <1>1, <1>2, <1>5
  <2> HIDE DEF kept, c, row, rows
  <2>2. /\ DOMAIN Put(kept, c, row) = DOMAIN kept \cup {c}
        /\ Put(kept, c, row)[c] = row
        /\ \A x \in DOMAIN kept \ {c} : Put(kept, c, row)[x] = kept[x]
    BY DEF Put
  <2>. QED
    BY <1>2, <2>1, <2>2
<1> HIDE DEF kept
<1>7. lapsed \in SUBSET Promise!Lapsed
  <2> SUFFICES ASSUME NEW x \in lapsed
               PROVE  x \in Promise!Lapsed
    OBVIOUS
  <2>1. CASE x \notin DOMAIN admissions
    <3>1. 0 <= now + MAX_LEAD
      BY <1>1
    <3>. QED
      BY <2>1, <3>1 DEF Promise!Lapsed
  <2>2. CASE x \in DOMAIN admissions
    <3>0. admissions[x] \in [job : Attempts, expiresAt : Int]
      BY <2>2, RowsOf DEF TypeOK
    <3>1. admissions[x].expiresAt \in Int
      BY <3>0
    <3>2. ~(admissions[x].expiresAt > now /\ admissions[x].expiresAt > at)
      BY <1>2, <2>2
    <3>3. admissions[x].expiresAt <= now + MAX_LEAD
      BY <1>1, <1>4, <3>1, <3>2
    <3>. QED
      BY <2>2, <3>3 DEF Promise!Lapsed
  <2>. QED
    BY <2>1, <2>2
<1>8. Promise!Forgotten(lapsed)[c] = Promise!Unbound
  BY <1>1, <1>3 DEF Promise!Forgotten
<1>9. Bindings' = [Promise!Forgotten(lapsed) EXCEPT ![c] = [job |-> a, until |-> at + TTL]]
  <2> DEFINE bound == [Promise!Forgotten(lapsed) EXCEPT ![c] = [job |-> a, until |-> at + TTL]]
  <2>1. bound \in [Capabilities -> {bound[x] : x \in Capabilities}]
    BY DEF Promise!Forgotten
  <2>2. ASSUME NEW x \in Capabilities
        PROVE  Bindings'[x] = bound[x]
    <3>1. CASE x = c
      BY <1>1, <1>6, <3>1 DEF Bindings, Binding, Promise!Forgotten
    <3>2. CASE x # c /\ x \in DOMAIN kept
      BY <1>2, <1>6, <3>2 DEF Bindings, Binding, Promise!Forgotten
    <3>3. CASE x # c /\ x \notin DOMAIN kept
      BY <1>6, <3>3 DEF Bindings, Binding, Promise!Forgotten, Promise!Unbound
    <3>. QED
      BY <3>1, <3>2, <3>3
  <2> HIDE DEF bound
  <2>. QED
    BY <2>1, <2>2 DEF Bindings, bound
<1>10. Told' = Told \/ Promise!Tell(a)
  <2>1. Told' = Told \/ Learns(a, Accepted(a))
    BY <1>1, AnswersGiven, FinishTells
  <2>2. CASE Learns(a, Accepted(a))
    <3>1. Told[a] = None /\ Told' = [Told EXCEPT ![a] = a]
      BY <1>1, <2>2, AnswersGiven DEF Learns
    <3>2. Bindings'[c].job = a /\ a # None
      BY <1>1, <1>6, AdmissionAssumption DEF Bindings, Binding
    <3>. QED
      BY <3>1, <3>2 DEF Promise!Tell, Bindings, Binding, Told
  <2>. QED
    BY <2>1, <2>2
<1>11. Promise!Bind(Promise!Forgotten(lapsed), a)
  BY <1>4, <1>8, <1>9 DEF Promise!Bind, Bindings, Binding
<1>. QED
  BY <1>1, <1>7, <1>10, <1>11 DEF Promise!Serve, Told

\* A call keeps the promise, whatever comes of it.
LEMMA CallServes ==
    ASSUME Inv, NEW call \in calls,
           Preflight(call) \/ CommitAdmission(call) \/ CallDies(call)
    PROVE  Promise!Serve
<1>1. TypeOK /\ now' = now
  BY DEF Inv, Preflight, CommitAdmission, CallDies
<1>2. CASE Preflight(call)
  BY <1>1, <1>2, TransactionTells DEF Preflight
<1>3. CASE CallDies(call)
  BY <1>1, <1>3, TransactionTells DEF CallDies, tables
<1>4. CASE CommitAdmission(call)
  BY <1>1, <1>4, TransactionTells, Binds DEF CommitAdmission
<1>. QED
  BY <1>2, <1>3, <1>4

\* Every step of an admission is a step of the promise.
LEMMA StepServes ==
    ASSUME Inv, [Next]_vars
    PROVE  [Promise!Next]_<<now, Bindings, Told>>
<1>1. CASE Tick
  BY <1>1 DEF Tick, tables, Promise!Next, Promise!Wait, Bindings, Binding, Told
<1>2. ASSUME NEW a \in Attempts,
             \/ Arrive(a) \/ FindCommitted(a) \/ Reserve(a) \/ Gate(a) \/ GateFails(a)
             \/ Prepare(a) \/ RecordRefusal(a) \/ SendCommit(a) \/ LoseCall(a) \/ ReadBack(a)
             \/ Release(a) \/ Abort(a) \/ Crash(a)
      PROVE  Promise!Serve
  BY <1>2, IsolateServes
<1>3. ASSUME NEW call \in calls, Preflight(call) \/ CommitAdmission(call) \/ CallDies(call)
      PROVE  Promise!Serve
  BY <1>3, CallServes
<1>4. CASE UNCHANGED vars
  BY <1>4 DEF vars, tables, Bindings, Binding, Told
<1>. QED
  BY <1>1, <1>2, <1>3, <1>4 DEF Next, Promise!Next

\* However often a capability is replayed, a holder is told only the job that is
\* bound to it at that moment: the transactions of admitDurablePreparation, the
\* lookup before the gate and the readback implement AdmissionPromise.
THEOREM AdmissionKeepsThePromise == Spec => KeepsThePromise
<1>1. Init => Promise!Init
  BY DEF Init, Promise!Init, Promise!Unbound, Resting, Answer
<1>2. Inv /\ [Next]_vars => [Promise!Next]_<<now, Bindings, Told>>
  BY StepServes
<1>3. Inv /\ [Next]_vars
        => [Promise!Next]_<<now,
              [c \in Capabilities |->
                 IF c \in DOMAIN admissions
                 THEN [job |-> admissions[c].job, until |-> admissions[c].expiresAt]
                 ELSE [job |-> None, until |-> 0]],
              [a \in Attempts |-> edge[a].answer.job]>>
  BY <1>2 DEF Bindings, Binding, Told
<1>. QED
  BY <1>1, <1>3, AdmissionInvariant, PTL DEF Spec, KeepsThePromise, Promise!Spec

-----------------------------------------------------------------------------
(***************************************************************************)
(* What a replay is told, and what a refusal costs its capability.          *)
(*                                                                         *)
(* A refusal bars the capability from the moment Node gives it: by the slot *)
(* of the refused attempt until it is recorded, and by the record after     *)
(* that.  A capability whose job was committed before an attempt arrived is *)
(* found by that attempt's first lookup, whatever happens later.            *)
(* An attempt that is told no has no call left that can commit: what was     *)
(* committed since its first lookup outlives all its calls.                 *)
(***************************************************************************)

\* A refusal that still holds, the row that records it, and the slot that stands in
\* for the record until there is one.
Blocks(a) == now < past[a].refusedUntil

Recorded(a) ==
    /\ CapabilityOf[a] \in DOMAIN refusals
    /\ refusals[CapabilityOf[a]] >= past[a].refusedUntil

Barred(a) ==
    /\ edge[a].at \in {"refuse", "done"}
    /\ CapabilityOf[a] \in DOMAIN reservations
    /\ reservations[CapabilityOf[a]] = past[a].refusedUntil

RefusalInv ==
    /\ \A a \in Attempts : Blocks(a) => Recorded(a) \/ Barred(a)
    /\ \A a, b \in Attempts :
         a # b /\ SameCapability(a, b) /\ Blocks(a) /\ Holds(b) => Recorded(a)

-----------------------------------------------------------------------------
(* How isolates move.                                                      *)

\* A step of the isolate of one attempt.
Moved(a) ==
    /\ \A b \in Attempts \ {a} : edge'[b] = edge[b]
    /\ edge'[a].at # "idle" /\ edge[a].at # "done"
    /\ edge[a].at = "refuse" => edge'[a].at \in {"refuse", "done"} \/ RecordRefusal(a)
    /\ edge'[a].at \in Holding => edge[a].at \in Holding \/ Reserve(a)
    /\ edge'[a].deadline \in {0, edge[a].deadline} \/ Arrive(a)

\* What becomes of an attempt that goes on, or is answered.
LEMMA GoesOn ==
    ASSUME TypeOK, NEW a \in Attempts, NEW step, Go(a, step)
    PROVE  /\ \A b \in Attempts \ {a} : edge'[b] = edge[b]
           /\ edge'[a].at = step /\ edge'[a].deadline = edge[a].deadline
           /\ edge'[a].answer = edge[a].answer /\ edge'[a].try = edge[a].try
<1> DEFINE e == [edge[a] EXCEPT !.at = step]
<1>1. e.at = step /\ e.deadline = edge[a].deadline /\ e.answer = edge[a].answer /\ e.try = edge[a].try
  BY DEF TypeOK, Edge
<1>2. edge' = [edge EXCEPT ![a] = e]
  BY DEF Go
<1> HIDE DEF e
<1>. QED
  BY <1>1, <1>2 DEF TypeOK

\* One that is answered has no deadline any more.
LEMMA IsAnswered ==
    ASSUME TypeOK, NEW a \in Attempts, NEW answer, NEW step, Decide(a, answer, step)
    PROVE  /\ \A b \in Attempts \ {a} : edge'[b] = edge[b]
           /\ edge'[a].at = step /\ edge'[a].deadline = 0 /\ edge'[a].try = edge[a].try
           /\ edge'[a].answer = IF edge[a].answer.status = "none" THEN answer ELSE edge[a].answer
<1> DEFINE told == IF edge[a].answer.status = "none" THEN answer ELSE edge[a].answer
           e == Resting(step, edge[a].try, told)
<1>1. edge' = [edge EXCEPT ![a] = e]
  BY DEF Decide
<1>2. e.at = step /\ e.deadline = 0 /\ e.answer = told /\ e.try = edge[a].try
  BY DEF Resting
<1> HIDE DEF e, told
<1>3. edge'[a] = e /\ \A b \in Attempts \ {a} : edge'[b] = edge[b]
  BY <1>1 DEF TypeOK
<1>. QED
  BY <1>2, <1>3 DEF told

\* Every isolate moves so.
LEMMA IsolateMoves ==
    ASSUME TypeOK, NEW a \in Attempts,
           \/ Arrive(a) \/ FindCommitted(a) \/ Reserve(a) \/ Gate(a) \/ GateFails(a)
           \/ Prepare(a) \/ RecordRefusal(a) \/ SendCommit(a) \/ LoseCall(a) \/ ReadBack(a)
           \/ Release(a) \/ Abort(a) \/ Crash(a)
    PROVE  Moved(a)
<1> DEFINE Others == \A b \in Attempts \ {a} : edge'[b] = edge[b]
<1>1. ASSUME NEW step, Go(a, step)
      PROVE  Others /\ edge'[a].at = step /\ edge'[a].deadline = edge[a].deadline
  BY <1>1, GoesOn
<1>2. ASSUME NEW answer, NEW step, Decide(a, answer, step)
      PROVE  Others /\ edge'[a].at = step /\ edge'[a].deadline = 0
  BY <1>2, IsAnswered
<1>3. ASSUME NEW e, edge' = [edge EXCEPT ![a] = e]
      PROVE  Others /\ edge'[a] = e
  BY <1>3 DEF TypeOK
<1>4. CASE Arrive(a)
  <2>1. PICK deadline : edge' = [edge EXCEPT ![a] = [edge[a] EXCEPT !.at = "find", !.deadline = deadline]]
    BY <1>4 DEF Arrive
  <2>2. [edge[a] EXCEPT !.at = "find", !.deadline = deadline].at = "find"
    BY DEF TypeOK, Edge
  <2>3. Others /\ edge'[a].at = "find"
    BY <1>3, <2>1, <2>2
  <2>. QED
    BY <1>4, <2>3 DEF Moved, Arrive, At, Holding
<1>5. CASE FindCommitted(a)
  <2>1. Others /\ edge'[a].at \in {"done", "reserve"} /\ edge'[a].deadline \in {0, edge[a].deadline}
    BY <1>1, <1>2, <1>5 DEF FindCommitted
  <2>. QED
    BY <1>5, <2>1 DEF Moved, FindCommitted, At, Holding
<1>6. CASE Reserve(a)
  <2>1. Others /\ edge'[a].at \in {"done", "gate"} /\ edge'[a].deadline \in {0, edge[a].deadline}
    BY <1>1, <1>2, <1>6 DEF Reserve
  <2>. QED
    BY <1>6, <2>1 DEF Moved, Reserve, At
<1>7. CASE Gate(a) \/ GateFails(a) \/ RecordRefusal(a) \/ SendCommit(a) \/ LoseCall(a)
  <2>1. /\ Others /\ edge'[a].at \in {"prepare", "release", "await", "readback"}
        /\ edge'[a].deadline \in {0, edge[a].deadline}
    BY <1>1, <1>2, <1>7 DEF Gate, GateFails, RecordRefusal, SendCommit, LoseCall
  <2>. QED
    BY <1>7, <2>1 DEF Moved, Gate, GateFails, RecordRefusal, SendCommit, LoseCall, At, Holding
<1>8. CASE Prepare(a)
  <2>1. ASSUME NEW at, edge' = [edge EXCEPT ![a] = [edge[a] EXCEPT !.at = "commit", !.admittedAt = at]]
        PROVE  Others /\ edge'[a].at = "commit" /\ edge'[a].deadline = edge[a].deadline
    <3>1. /\ [edge[a] EXCEPT !.at = "commit", !.admittedAt = at].at = "commit"
          /\ [edge[a] EXCEPT !.at = "commit", !.admittedAt = at].deadline = edge[a].deadline
      BY DEF TypeOK, Edge
    <3>. QED
      BY <1>3, <2>1, <3>1
  <2>2. /\ Others /\ edge'[a].at \in {"commit", "refuse", "release"}
        /\ edge'[a].deadline \in {0, edge[a].deadline}
    BY <1>1, <1>2, <1>8, <2>1 DEF Prepare
  <2>. QED
    BY <1>8, <2>2 DEF Moved, Prepare, At, Holding
<1>9. CASE ReadBack(a)
  <2>1. ASSUME edge' = [edge EXCEPT ![a] = [edge[a] EXCEPT !.at = "commit", !.try = 2]]
        PROVE  Others /\ edge'[a].at = "commit" /\ edge'[a].deadline = edge[a].deadline
    <3>1. /\ [edge[a] EXCEPT !.at = "commit", !.try = 2].at = "commit"
          /\ [edge[a] EXCEPT !.at = "commit", !.try = 2].deadline = edge[a].deadline
      BY DEF TypeOK, Edge
    <3>. QED
      BY <1>3, <2>1, <3>1
  <2>2. Others /\ edge'[a].at \in {"commit", "release"} /\ edge'[a].deadline \in {0, edge[a].deadline}
    BY <1>2, <1>9, <2>1 DEF ReadBack
  <2>. QED
    BY <1>9, <2>2 DEF Moved, ReadBack, At, Holding
<1>10. CASE Release(a) \/ Crash(a)
  <2>1. Others /\ edge'[a].at = "done" /\ edge'[a].deadline \in {0, edge[a].deadline}
    BY <1>1, <1>2, <1>10 DEF Release, Crash
  <2>2. edge[a].at # "done"
    BY <1>10 DEF Release, Crash, At
  <2>. QED
    BY <2>1, <2>2 DEF Moved, Holding
<1>11. CASE Abort(a)
  <2>1. edge[a].at \notin {"idle", "done"}
    BY <1>11 DEF Abort
  <2>2. CASE edge' = [edge EXCEPT ![a] = [edge[a] EXCEPT !.answer = Answer("unavailable")]]
    <3>1. /\ [edge[a] EXCEPT !.answer = Answer("unavailable")].at = edge[a].at
          /\ [edge[a] EXCEPT !.answer = Answer("unavailable")].deadline = edge[a].deadline
      BY DEF TypeOK, Edge
    <3>2. Others /\ edge'[a].at = edge[a].at /\ edge'[a].deadline = edge[a].deadline
      BY <1>3, <2>2, <3>1
    <3>. QED
      BY <2>1, <3>2 DEF Moved
  <2>3. CASE /\ edge[a].at # "refuse"
             /\ Decide(a, Answer("unavailable"), IF edge[a].at \in Holding THEN "release" ELSE "done")
    <3>1. Others /\ edge'[a].at = (IF edge[a].at \in Holding THEN "release" ELSE "done")
                 /\ edge'[a].deadline = 0
      BY <1>2, <2>3
    <3>. QED
      BY <2>1, <2>3, <3>1 DEF Moved, Holding
  <2>. QED
    BY <1>11, <2>2, <2>3 DEF Abort
<1>. QED
  BY <1>4, <1>5, <1>6, <1>7, <1>8, <1>9, <1>10, <1>11

\* A call that ends moves an isolate that waits for it, and no other.
LEMMA CallsMove ==
    ASSUME TypeOK, NEW call \in calls,
           Preflight(call) \/ CommitAdmission(call) \/ CallDies(call)
    PROVE  \/ edge' = edge
           \/ /\ call.attempt \in Attempts
              /\ edge[call.attempt].at = "await"
              /\ \A b \in Attempts \ {call.attempt} : edge'[b] = edge[b]
              /\ edge'[call.attempt].at \in {"readback", "release"}
              /\ edge'[call.attempt].deadline \in {0, edge[call.attempt].deadline}
<1> DEFINE a == call.attempt
<1>1. a \in Attempts
  BY DEF TypeOK, Call
<1>2. edge' = edge \/ \E answer : Finish(call, answer)
  BY DEF Preflight, CommitAdmission, CallDies
<1>3. edge' = edge \/ (At(a, "await") /\ \E answer : Conclude(a, answer))
  BY <1>2 DEF Finish
<1>4. ASSUME NEW answer, Conclude(a, answer)
      PROVE  /\ \A b \in Attempts \ {a} : edge'[b] = edge[b]
             /\ edge'[a].at \in {"readback", "release"}
             /\ edge'[a].deadline \in {0, edge[a].deadline}
  <2>1. Go(a, "readback") \/ \E told : Decide(a, told, "release")
    BY <1>4 DEF Conclude
  <2>. QED
    BY <1>1, <2>1, GoesOn, IsAnswered
<1>. QED
  BY <1>1, <1>3, <1>4 DEF At

-----------------------------------------------------------------------------
(* Refusals.                                                               *)

\* A refusal holds while nothing is done to the slots and the refusals.
LEMMA RefusalsStand ==
    ASSUME RefusalInv, UNCHANGED <<now, reservations, refusals>>,
           \A b \in Attempts : /\ past'[b].refusedUntil = past[b].refusedUntil
                               /\ Holds(b)' => Holds(b)
                               /\ edge[b].at \in {"refuse", "done"} =>
                                    edge'[b].at \in {"refuse", "done"}
    PROVE  RefusalInv'
<1>1. \A b \in Attempts : /\ Blocks(b)' <=> Blocks(b)
                          /\ Recorded(b)' <=> Recorded(b)
                          /\ Barred(b) => Barred(b)'
  BY DEF Blocks, Recorded, Barred
<1>2. \A a, b \in Attempts : SameCapability(a, b)' <=> SameCapability(a, b)
  BY DEF SameCapability
<1>. QED
  BY <1>1, <1>2 DEF RefusalInv

\* Steps of an isolate that do nothing to the slots and the refusals.
LEMMA QuietIsolates ==
    ASSUME Inv, RefusalInv, NEW a \in Attempts, Moved(a), ~Reserve(a), ~RecordRefusal(a),
           \/ Arrive(a) \/ FindCommitted(a) \/ Gate(a) \/ GateFails(a)
           \/ SendCommit(a) \/ LoseCall(a) \/ ReadBack(a) \/ Abort(a) \/ Crash(a)
    PROVE  RefusalInv'
<1>1. TypeOK /\ UNCHANGED <<now, reservations, refusals>>
  BY DEF Inv, Arrive, FindCommitted, Gate, GateFails, SendCommit, LoseCall, ReadBack, Abort, Crash,
         tables
<1>2. past' = past \/ \E job : past' = [past EXCEPT ![a] = [past[a] EXCEPT !.knew = job]]
  BY DEF Arrive, FindCommitted, Gate, GateFails, SendCommit, LoseCall, ReadBack, Abort, Crash
<1>3. \A b \in Attempts : past'[b].refusedUntil = past[b].refusedUntil /\ past'[b].held = past[b].held
  <2>1. \A job : LET p == [past[a] EXCEPT !.knew = job]
                 IN  p.refusedUntil = past[a].refusedUntil /\ p.held = past[a].held
    BY <1>1 DEF TypeOK, Past
  <2>2. past \in [Attempts -> Past]
    BY <1>1 DEF TypeOK
  <2>3. CASE past' = past
    BY <2>3
  <2>4. ASSUME NEW job, past' = [past EXCEPT ![a] = [past[a] EXCEPT !.knew = job]]
        PROVE  \A b \in Attempts : /\ past'[b].refusedUntil = past[b].refusedUntil
                                  /\ past'[b].held = past[b].held
    <3> DEFINE p == [past[a] EXCEPT !.knew = job]
    <3>1. p.refusedUntil = past[a].refusedUntil /\ p.held = past[a].held
      BY <2>1
    <3>2. past' = [past EXCEPT ![a] = p]
      BY <2>4
    <3>. HIDE DEF p
    <3>. QED
      BY <2>2, <3>1, <3>2
  <2>. QED
    BY <1>2, <2>3, <2>4
<1>4. \A b \in Attempts : /\ edge'[b].at \in Holding => edge[b].at \in Holding
                          /\ edge[b].at \in {"refuse", "done"} => edge'[b].at \in {"refuse", "done"}
  BY DEF Moved
<1>. QED
  BY <1>1, <1>3, <1>4, RefusalsStand DEF Holds

\* Calls do nothing to them either.
LEMMA QuietCalls ==
    ASSUME Inv, RefusalInv, NEW call \in calls,
           Preflight(call) \/ CommitAdmission(call) \/ CallDies(call)
    PROVE  RefusalInv'
<1> DEFINE a == call.attempt
<1>1. TypeOK /\ UNCHANGED <<now, reservations, refusals>> /\ a \in Attempts
  BY DEF Inv, TypeOK, Call, Preflight, CommitAdmission, CallDies, tables
<1>2. \/ past' = past
      \/ past' = [past EXCEPT ![a] = [past[a] EXCEPT !.committedAt = now, !.lapsesAt = call.admittedAt + TTL]]
  BY DEF Preflight, CommitAdmission, CallDies
<1>3. \A b \in Attempts : past'[b].refusedUntil = past[b].refusedUntil /\ past'[b].held = past[b].held
  <2> DEFINE p == [past[a] EXCEPT !.committedAt = now, !.lapsesAt = call.admittedAt + TTL]
  <2>1. p.refusedUntil = past[a].refusedUntil /\ p.held = past[a].held
    BY <1>1 DEF TypeOK, Past
  <2> HIDE DEF p
  <2>2. past' = past \/ past' = [past EXCEPT ![a] = p]
    BY <1>2 DEF p
  <2>. QED
    BY <1>1, <2>1, <2>2 DEF TypeOK
<1>4. \A b \in Attempts : /\ edge'[b].at \in Holding => edge[b].at \in Holding
                          /\ edge[b].at \in {"refuse", "done"} => edge'[b].at \in {"refuse", "done"}
  BY <1>1, CallsMove DEF Holding
<1>. QED
  BY <1>1, <1>3, <1>4, RefusalsStand DEF Holds

\* The slot of the attempt that was refused stands in for the record.
LEMMA PrepareRefuses ==
    ASSUME Inv, RefusalInv, NEW a \in Attempts, Moved(a), Prepare(a)
    PROVE  RefusalInv'
<1>1. TypeOK /\ UNCHANGED <<now, reservations, refusals>> /\ edge[a].at = "prepare"
  BY DEF Inv, Prepare, At, tables
<1>2. \A b \in Attempts : /\ edge'[b].at \in Holding => edge[b].at \in Holding
                          /\ edge[b].at \in {"refuse", "done"} => edge'[b].at \in {"refuse", "done"}
  BY <1>1 DEF Moved, Reserve, At
<1>3. CASE past' = past
  BY <1>1, <1>2, <1>3, RefusalsStand DEF Holds
<1>4. CASE Go(a, "refuse") /\ past' = [past EXCEPT ![a].refusedUntil = past[a].held]
  <2>1. edge'[a].at = "refuse"
    BY <1>1, <1>4, GoesOn
  <2>2. /\ past'[a].refusedUntil = past[a].held
        /\ \A b \in Attempts : past'[b].held = past[b].held
        /\ \A b \in Attempts \ {a} : past'[b].refusedUntil = past[b].refusedUntil
    BY <1>1, <1>4 DEF TypeOK, Past
  <2>3. \A b \in Attempts : Holds(b)' => Holds(b)
    BY <1>1, <1>2, <2>2 DEF Holds
  <2>4. Blocks(a)' => Holds(a)
    BY <1>1, <2>2 DEF Blocks, Holds, Holding
  <2>5. Blocks(a)' => Barred(a)'
    BY <1>1, <2>1, <2>2, <2>4 DEF Inv, HasSlot, Barred
  <2>6. \A b \in Attempts \ {a} : SameCapability(a, b) /\ Blocks(a)' => ~Holds(b)'
    BY <2>3, <2>4 DEF Inv
  <2>7. \A b \in Attempts \ {a} : /\ Blocks(b)' <=> Blocks(b)
                                  /\ Recorded(b)' <=> Recorded(b)
                                  /\ Barred(b) => Barred(b)'
    BY <1>1, <1>2, <2>2 DEF Blocks, Recorded, Barred
  <2>8. \A b, d \in Attempts : SameCapability(b, d)' <=> SameCapability(b, d)
    BY DEF SameCapability
  <2>. QED
    BY <2>3, <2>5, <2>6, <2>7, <2>8 DEF RefusalInv
<1>. QED
  BY <1>3, <1>4 DEF Prepare

\* A late release finds a row that is not its own.
LEMMA ReleaseRefuses ==
    ASSUME Inv, RefusalInv, NEW a \in Attempts, Moved(a), Release(a)
    PROVE  RefusalInv'
<1> DEFINE S == {x \in DOMAIN reservations : x # CapabilityOf[a] \/ reservations[x] # past[a].held}
<1>1. /\ TypeOK /\ UNCHANGED <<now, past, refusals>> /\ edge[a].at = "release"
      /\ "release" \in Holding
  BY DEF Inv, Release, At, Holding
<1>2. \A b \in Attempts : /\ edge'[b].at \in Holding => edge[b].at \in Holding
                          /\ edge[b].at \in {"refuse", "done"} => edge'[b].at \in {"refuse", "done"}
  BY <1>1 DEF Moved, Reserve, At
<1>3. \A x \in S : x \in DOMAIN reservations' /\ reservations'[x] = reservations[x]
  <2>1. reservations' = [x \in S |-> reservations[x]] \/ reservations' = reservations
    BY DEF Release
  <2>. QED
    BY <2>1
<1>4. \A b \in Attempts : /\ Blocks(b)' <=> Blocks(b)
                          /\ Recorded(b)' <=> Recorded(b)
                          /\ Holds(b)' => Holds(b)
  BY <1>1, <1>2 DEF Blocks, Recorded, Holds
<1>5. ASSUME NEW b \in Attempts, Blocks(b), ~Recorded(b)
      PROVE  Barred(b)'
  <2>1. Barred(b) /\ b # a
    BY <1>1, <1>5 DEF RefusalInv, Barred
  <2>2. SameCapability(b, a) => ~Holds(a)
    BY <1>5, <2>1 DEF RefusalInv
  <2>3. past[b].refusedUntil \in Int /\ past[a].held \in Int /\ now \in Int
    BY <1>1 DEF TypeOK, Past
  <2>4. SameCapability(b, a) => past[a].held # past[b].refusedUntil
    BY <1>1, <1>5, <2>2, <2>3 DEF Holds, Blocks
  <2>5. CapabilityOf[b] \in S
    BY <2>1, <2>4 DEF Barred, SameCapability
  <2>. QED
    BY <1>1, <1>2, <1>3, <2>1, <2>5 DEF Barred
<1>6. \A b, d \in Attempts : SameCapability(b, d)' <=> SameCapability(b, d)
  BY DEF SameCapability
<1>. QED
  BY <1>4, <1>5, <1>6 DEF RefusalInv

\* Time lets refusals end.
LEMMA TickRefuses ==
    ASSUME Inv, RefusalInv, Tick
    PROVE  RefusalInv'
<1>1. UNCHANGED <<reservations, refusals, past, edge>> /\ now' = now + 1 /\ TypeOK
  BY DEF Inv, Tick, tables
<1>2. \A b \in Attempts : past[b].refusedUntil \in Int /\ past[b].held \in Int /\ now \in Int
  BY <1>1 DEF TypeOK, Past
<1>3. \A b \in Attempts : /\ Blocks(b)' => Blocks(b)
                          /\ Recorded(b)' <=> Recorded(b)
                          /\ Barred(b)' <=> Barred(b)
                          /\ Holds(b)' => Holds(b)
  BY <1>1, <1>2 DEF Blocks, Recorded, Barred, Holds
<1>4. \A b, d \in Attempts : SameCapability(b, d)' <=> SameCapability(b, d)
  BY DEF SameCapability
<1>. QED
  BY <1>3, <1>4 DEF RefusalInv

\* A slot is given only to a capability that nobody's refusal bars.
LEMMA ReservedUnbarred ==
    ASSUME Inv, RefusalInv, NEW a \in Attempts, Reserve(a), SlotStatus(a) = "reserved",
           NEW b \in Attempts, SameCapability(a, b)
    PROVE  ~Blocks(b)
<1> SUFFICES ASSUME Blocks(b)
             PROVE  FALSE
  OBVIOUS
<1>1. TypeOK /\ CapabilityOf[b] = CapabilityOf[a] /\ a \in Attempts
  BY DEF Inv, SameCapability
<1>2. past[b].refusedUntil \in Int /\ now \in Int
  BY <1>1 DEF TypeOK, Past
<1>3. /\ CapabilityOf[a] \notin DOMAIN Unexpired(refusals)
      /\ CapabilityOf[a] \notin DOMAIN Unexpired(reservations)
  BY DEF SlotStatus
<1>4. ~Recorded(b)
  <2>1. Recorded(b) => refusals[CapabilityOf[b]] \in Int
    BY <1>1, RowsOf DEF TypeOK, Recorded
  <2>2. DOMAIN Unexpired(refusals) = {c \in DOMAIN refusals : refusals[c] > now}
    BY <1>1, UnexpiredRows DEF TypeOK
  <2>. QED
    BY <1>1, <1>2, <1>3, <2>1, <2>2 DEF Recorded, Blocks
<1>5. ~Barred(b)
  <2>1. DOMAIN Unexpired(reservations) = {c \in DOMAIN reservations : reservations[c] > now}
    BY <1>1, UnexpiredRows DEF TypeOK
  <2>. QED
    BY <1>1, <1>2, <1>3, <2>1 DEF Barred, Blocks
<1>. QED
  BY <1>4, <1>5 DEF RefusalInv

\* What reserving leaves of the slots and refusals.
LEMMA ReserveRefuses ==
    ASSUME Inv, RefusalInv, NEW a \in Attempts, Moved(a), Reserve(a)
    PROVE  RefusalInv'
<1> DEFINE c == CapabilityOf[a]
           live == Unexpired(reservations)
           expiry == Clamped(edge[a].deadline)
           taken == SlotStatus(a) = "reserved"
<1>1. TypeOK /\ now' = now /\ refusals' = Unexpired(refusals) /\ edge[a].at = "reserve"
  BY DEF Inv, Reserve, At
<1>2. /\ DOMAIN live = {x \in DOMAIN reservations : reservations[x] > now}
      /\ \A x \in DOMAIN live : live[x] = reservations[x]
      /\ DOMAIN refusals' = {x \in DOMAIN refusals : refusals[x] > now}
      /\ \A x \in DOMAIN refusals' : refusals'[x] = refusals[x]
  BY <1>1, UnexpiredRows DEF TypeOK
<1>3. \/ taken /\ reservations' = Put(live, c, expiry)
      \/ ~taken /\ reservations' \in {reservations, live} /\ past' = past
  BY DEF Reserve
<1>4. past' = past \/ past' = [past EXCEPT ![a] = [past[a] EXCEPT !.held = expiry]]
  BY DEF Reserve
<1>5. /\ \A b \in Attempts : past'[b].refusedUntil = past[b].refusedUntil
      /\ \A b \in Attempts \ {a} : past'[b].held = past[b].held
  <2>1. [past[a] EXCEPT !.held = expiry].refusedUntil = past[a].refusedUntil
    BY <1>1 DEF TypeOK, Past
  <2> HIDE DEF expiry
  <2>. QED
    BY <1>1, <1>4, <2>1 DEF TypeOK
<1>6. \A b \in Attempts : past[b].refusedUntil \in Int /\ now \in Int
  BY <1>1 DEF TypeOK, Past
<1>7. \A b \in Attempts : Blocks(b)' <=> Blocks(b)
  BY <1>1, <1>5 DEF Blocks
<1>8. ASSUME NEW b \in Attempts, Blocks(b), Recorded(b)
      PROVE  Recorded(b)'
  <2>1. refusals[CapabilityOf[b]] \in Int
    BY <1>1, <1>8, RowsOf DEF TypeOK, Recorded
  <2>. QED
    BY <1>2, <1>5, <1>6, <1>8, <2>1 DEF Recorded, Blocks
<1>9. \A x \in DOMAIN live : taken => x # c
  BY DEF SlotStatus
<1>10. \A x \in DOMAIN live : x \in DOMAIN reservations' /\ reservations'[x] = reservations[x]
  <2>1. CASE taken
    BY <1>2, <1>3, <1>9, <2>1 DEF Put
  <2>2. CASE ~taken
    BY <1>2, <1>3, <2>2
  <2>. QED
    BY <2>1, <2>2
<1>11. ASSUME NEW b \in Attempts, Blocks(b), Barred(b)
       PROVE  Barred(b)'
  <2>1. b # a /\ edge'[b] = edge[b] /\ CapabilityOf[b] \in DOMAIN live
    BY <1>1, <1>2, <1>6, <1>11 DEF Barred, Blocks, Moved
  <2>. QED
    BY <1>5, <1>10, <1>11, <2>1 DEF Barred
<1>12. ASSUME NEW b \in Attempts, NEW d \in Attempts, b # d, SameCapability(b, d), Blocks(b), Holds(d)'
       PROVE  Recorded(b)
  <2>1. CASE d = a
    <3>1. taken
      <4>1. ~taken => Decide(a, Answer(SlotStatus(a)), "done")
        BY DEF Reserve
      <4>2. ~taken => edge'[a].at = "done"
        BY <1>1, <4>1, IsAnswered
      <4>. QED
        BY <1>12, <2>1, <4>2 DEF Holds, Holding
    <3>. QED
      BY <1>12, <2>1, <3>1, ReservedUnbarred DEF SameCapability
  <2>2. CASE d # a
    BY <1>1, <1>5, <1>12, <2>2 DEF Holds, Moved, RefusalInv
  <2>. QED
    BY <2>1, <2>2
<1>13. \A b, d \in Attempts : SameCapability(b, d)' <=> SameCapability(b, d)
  BY DEF SameCapability
<1>. QED
  BY <1>7, <1>8, <1>11, <1>12, <1>13 DEF RefusalInv

\* The record takes over from the slot, and is never shortened by a later one.
LEMMA RecordRefuses ==
    ASSUME Inv, RefusalInv, NEW a \in Attempts, Moved(a), RecordRefusal(a)
    PROVE  RefusalInv'
<1> DEFINE c == CapabilityOf[a]
           kept == Unexpired(refusals)
           rows == {kept[x] : x \in DOMAIN kept \intersect {c}}
           m == Clamped(edge[a].deadline)
           until == Max({m} \union rows)
<1>1. TypeOK /\ UNCHANGED <<now, reservations>> /\ edge[a].at = "refuse" /\ c \in Capabilities
  BY Constants DEF Inv, RecordRefusal, At
<1>2. /\ kept \in Table(Int) /\ DOMAIN kept = {x \in DOMAIN refusals : refusals[x] > now}
      /\ \A x \in DOMAIN kept : kept[x] = refusals[x] /\ kept[x] \in Int
  <2>1. kept \in Table(Int)
    BY <1>1, UnexpiredRows DEF TypeOK
  <2>. QED
    BY <1>1, <2>1, UnexpiredRows, RowsOf DEF TypeOK
<1>3. m \in Int
  <2>1. edge[a].deadline \in Int /\ now + ADMISSION_TIMEOUT \in Int
    BY <1>1, Constants DEF TypeOK, Edge
  <2>. QED
    BY <2>1, MinOfTwo DEF Clamped
<1>4. until \in Int /\ (c \in DOMAIN kept => until >= kept[c])
  <2>1. \A n \in rows : n \in Int
    BY <1>2
  <2>2. \A n, k \in rows : n = k
    OBVIOUS
  <2>0. c \in DOMAIN kept => kept[c] \in rows
    OBVIOUS
  <2> HIDE DEF rows, m
  <2>3. \E x \in {m} \cup rows : \A y \in {m} \cup rows : x >= y
    BY <1>3, <2>1, <2>2
  <2>4. until \in {m} \cup rows /\ \A y \in {m} \cup rows : until >= y
    BY <2>3 DEF Max
  <2>. QED
    BY <1>3, <2>0, <2>1, <2>4
<1> HIDE DEF until, rows, m
<1>5. \/ /\ refusals' = Put(kept, c, until)
         /\ past' = [past EXCEPT ![a] = [past[a] EXCEPT !.refusedUntil = until]]
      \/ /\ refusals' \in {kept, refusals}
         /\ past' = [past EXCEPT ![a] = [past[a] EXCEPT !.refusedUntil = 0]]
  BY DEF RecordRefusal, until, rows, m
<1> HIDE DEF kept, c
<1>6. /\ \A b \in Attempts : past'[b].held = past[b].held
      /\ \A b \in Attempts \ {a} : past'[b].refusedUntil = past[b].refusedUntil
      /\ \/ past'[a].refusedUntil = 0
         \/ refusals' = Put(kept, c, until) /\ past'[a].refusedUntil = until
  <2>1. ASSUME NEW n, past' = [past EXCEPT ![a] = [past[a] EXCEPT !.refusedUntil = n]]
        PROVE  /\ past'[a].refusedUntil = n /\ past'[a].held = past[a].held
               /\ \A b \in Attempts \ {a} : past'[b] = past[b]
    <3> DEFINE p == [past[a] EXCEPT !.refusedUntil = n]
    <3>1. p.refusedUntil = n /\ p.held = past[a].held /\ past' = [past EXCEPT ![a] = p]
      BY <1>1, <2>1 DEF TypeOK, Past
    <3> HIDE DEF p
    <3>2. past'[a] = p /\ \A b \in Attempts \ {a} : past'[b] = past[b]
      BY <1>1, <3>1 DEF TypeOK
    <3>. QED
      BY <3>1, <3>2
  <2>2. CASE /\ refusals' = Put(kept, c, until)
             /\ past' = [past EXCEPT ![a] = [past[a] EXCEPT !.refusedUntil = until]]
    <3>1. /\ past'[a].refusedUntil = until /\ past'[a].held = past[a].held
          /\ \A b \in Attempts \ {a} : past'[b] = past[b]
      BY <2>1, <2>2
    <3>. QED
      BY <2>2, <3>1
  <2>3. CASE past' = [past EXCEPT ![a] = [past[a] EXCEPT !.refusedUntil = 0]]
    <3>1. /\ past'[a].refusedUntil = 0 /\ past'[a].held = past[a].held
          /\ \A b \in Attempts \ {a} : past'[b] = past[b]
      BY <2>1, <2>3
    <3>. QED
      BY <3>1
  <2>. QED
    BY <1>5, <2>2, <2>3
<1>7. \A b \in Attempts : past[b].refusedUntil \in Int /\ now \in Nat
  BY <1>1 DEF TypeOK, Past
<1>8. refusals' = Put(kept, c, until) =>
        /\ DOMAIN refusals' = DOMAIN kept \cup {c}
        /\ refusals'[c] = until
        /\ \A x \in DOMAIN kept \ {c} : refusals'[x] = kept[x]
  BY DEF Put
<1>9. Blocks(a)' => Recorded(a)'
  <2>1. past'[a].refusedUntil = 0 => ~Blocks(a)'
    BY <1>1, <1>7 DEF Blocks
  <2>2. CASE refusals' = Put(kept, c, until) /\ past'[a].refusedUntil = until
    BY <1>4, <1>8, <2>2 DEF Recorded, c
  <2>. QED
    BY <1>6, <2>1, <2>2
<1>10. ASSUME NEW b \in Attempts \ {a}, Blocks(b), Recorded(b)
       PROVE  Recorded(b)'
  <2> DEFINE k == CapabilityOf[b]
  <2>1. k \in DOMAIN kept /\ kept[k] = refusals[k] /\ kept[k] \in Int /\ kept[k] >= past[b].refusedUntil
    <3>1. refusals[k] \in Int
      BY <1>1, <1>10, RowsOf DEF TypeOK, Recorded
    <3>. QED
      BY <1>2, <1>7, <1>10, <3>1 DEF Recorded, Blocks
  <2>2. k \in DOMAIN refusals' /\ refusals'[k] >= kept[k]
    <3>1. CASE refusals' = Put(kept, c, until)
      <4>1. CASE k = c
        BY <1>4, <1>8, <2>1, <3>1, <4>1
      <4>2. CASE k # c
        BY <1>8, <2>1, <3>1, <4>2
      <4>. QED
        BY <4>1, <4>2
    <3>2. CASE refusals' = kept
      BY <2>1, <3>2
    <3>3. CASE refusals' = refusals
      BY <1>10, <2>1, <3>3 DEF Recorded
    <3>. QED
      BY <1>5, <3>1, <3>2, <3>3
  <2>3. refusals'[k] \in Int
    <3>1. CASE refusals' = Put(kept, c, until)
      BY <1>4, <1>8, <2>1, <3>1
    <3>2. CASE refusals' \in {kept, refusals}
      BY <2>1, <3>2
    <3>. QED
      BY <1>5, <3>1, <3>2
  <2>. QED
    BY <1>6, <1>7, <2>1, <2>2, <2>3 DEF Recorded
<1>11. \A b \in Attempts \ {a} : /\ Blocks(b)' <=> Blocks(b)
                                 /\ Barred(b) => Barred(b)'
  BY <1>1, <1>6 DEF Blocks, Barred, Moved
<1>12. \A b \in Attempts : Holds(b)' => Holds(b)
  BY <1>1, <1>6 DEF Holds, Moved, Reserve, At
<1>13. \A b, d \in Attempts : SameCapability(b, d)' <=> SameCapability(b, d)
  BY DEF SameCapability
<1>. QED
  BY <1>9, <1>10, <1>11, <1>12, <1>13 DEF RefusalInv

\* Nothing is refused at first.
LEMMA RefusalInit == Init => RefusalInv
BY DEF Init, RefusalInv, Blocks

\* Every step keeps refusals binding.
LEMMA RefusalNext == Inv /\ RefusalInv /\ [Next]_vars => RefusalInv'
<1> SUFFICES ASSUME Inv, RefusalInv, [Next]_vars
             PROVE  RefusalInv'
  OBVIOUS
<1>1. CASE Tick
  BY <1>1, TickRefuses
<1>2. ASSUME NEW a \in Attempts,
             \/ Arrive(a) \/ FindCommitted(a) \/ Reserve(a) \/ Gate(a) \/ GateFails(a)
             \/ Prepare(a) \/ RecordRefusal(a) \/ SendCommit(a) \/ LoseCall(a) \/ ReadBack(a)
             \/ Release(a) \/ Abort(a) \/ Crash(a)
      PROVE  RefusalInv'
  <2>1. Moved(a)
    BY <1>2, IsolateMoves DEF Inv
  <2>. QED
    BY <1>2, <2>1, QuietIsolates, ReserveRefuses, PrepareRefuses, RecordRefuses, ReleaseRefuses
<1>3. ASSUME NEW call \in calls, Preflight(call) \/ CommitAdmission(call) \/ CallDies(call)
      PROVE  RefusalInv'
  BY <1>3, QuietCalls
<1>4. CASE UNCHANGED vars
  BY <1>4 DEF vars, tables, RefusalInv, Blocks, Recorded, Barred, Holds, SameCapability
<1>. QED
  BY <1>1, <1>2, <1>3, <1>4 DEF Next

\* Once Node has refused a request, the capability buys no other preparation until the
\* refusal ends: reserveDurablePreparation finds the slot of the refused attempt, which
\* no late release frees, or what recordDurablePreparationRefusal left.
THEOREM RefusalsBind == Spec => RefusedIsNotPreparedAgain
<1> DEFINE Unbarred == \A b \in Attempts :
                         past'[b].held # past[b].held =>
                           \A a \in Attempts \ {b} : SameCapability(a, b) => now >= past[a].refusedUntil
<1>1. Inv /\ RefusalInv /\ [Next]_vars => [Unbarred]_vars
  <2> SUFFICES ASSUME Inv, RefusalInv, Next,
                      NEW b \in Attempts, past'[b].held # past[b].held,
                      NEW a \in Attempts \ {b}, SameCapability(a, b)
               PROVE  now >= past[a].refusedUntil
    BY DEF Unbarred
  <2>1. TypeOK /\ past[a].refusedUntil \in Int /\ now \in Int
    BY DEF Inv, TypeOK, Past
  <2>2. ASSUME NEW d \in Attempts, Reserve(d)
        PROVE  ~Blocks(a)
    <3>1. d = b /\ SlotStatus(d) = "reserved"
      BY <2>1, <2>2 DEF Reserve, TypeOK
    <3>. QED
      BY <2>2, <3>1, ReservedUnbarred DEF SameCapability
  <2>3. ASSUME NEW d \in Attempts, NEW p, past' = [past EXCEPT ![d] = p], p.held = past[d].held
        PROVE  FALSE
    BY <2>1, <2>3 DEF TypeOK
  <2>4. past' # past
    OBVIOUS
  <2>5. ~Tick
    BY <2>4 DEF Tick
  <2>6. ASSUME NEW d \in Attempts,
             \/ Arrive(d) \/ FindCommitted(d) \/ Gate(d) \/ GateFails(d)
             \/ Prepare(d) \/ RecordRefusal(d) \/ SendCommit(d) \/ LoseCall(d) \/ ReadBack(d)
             \/ Release(d) \/ Abort(d) \/ Crash(d)
        PROVE  FALSE
    <3>1. \/ \E job : past' = [past EXCEPT ![d] = [past[d] EXCEPT !.knew = job]]
          \/ \E until : past' = [past EXCEPT ![d] = [past[d] EXCEPT !.refusedUntil = until]]
      BY <2>4, <2>6 DEF Arrive, FindCommitted, Gate, GateFails, Prepare, RecordRefusal, SendCommit,
                        LoseCall, ReadBack, Release, Abort, Crash
    <3>2. \A x : /\ [past[d] EXCEPT !.knew = x].held = past[d].held
                 /\ [past[d] EXCEPT !.refusedUntil = x].held = past[d].held
      BY <2>1 DEF TypeOK, Past
    <3>. QED
      BY <2>3, <3>1, <3>2
  <2>7. ASSUME NEW call \in calls, Preflight(call) \/ CommitAdmission(call) \/ CallDies(call)
        PROVE  FALSE
    <3> DEFINE d == call.attempt
               p == [past[d] EXCEPT !.committedAt = now, !.lapsesAt = call.admittedAt + TTL]
    <3>1. d \in Attempts
      BY <2>1 DEF TypeOK, Call
    <3>2. past' = [past EXCEPT ![d] = p]
      BY <2>4, <2>7 DEF Preflight, CommitAdmission, CallDies
    <3>3. p.held = past[d].held
      BY <2>1, <3>1 DEF TypeOK, Past
    <3> HIDE DEF p
    <3>. QED
      BY <2>3, <3>1, <3>2, <3>3
  <2>8. ~Blocks(a)
    BY <2>2, <2>5, <2>6, <2>7 DEF Next
  <2>. QED
    BY <2>1, <2>8 DEF Blocks
<1>. QED
  BY <1>1, AdmissionInvariant, RefusalInit, RefusalNext, PTL DEF Spec, RefusedIsNotPreparedAgain

-----------------------------------------------------------------------------
(* Replays.                                                                *)

\* The rows of scan_admissions are of committed jobs.
RowsGood ==
    \A c \in DOMAIN admissions :
        Committed(admissions[c].job) /\ CapabilityOf[admissions[c].job] = c

\* No deadline is farther than an isolate may stamp it; who never arrived calls nobody.
Horizon == now + ADMISSION_TIMEOUT + EDGE_SKEW

InTime ==
    /\ \A a \in Attempts : edge[a].deadline <= Horizon
    /\ \A call \in calls : call.deadline <= Horizon /\ edge[call.attempt].at # "idle"

\* Whatever an attempt may still do is over before its admission is forgotten, so
\* that its job is committed once.
Spent(a) ==
    Committed(a) =>
        /\ edge[a].at # "idle" /\ MAX_LEAD <= past[a].lapsesAt
        /\ edge[a].deadline + MAX_LEAD <= past[a].lapsesAt
        /\ \A call \in calls : call.attempt = a => call.deadline + MAX_LEAD <= past[a].lapsesAt

\* What the capability of an attempt had when it arrived,
Knows(a) ==
    past[a].knew # None =>
        /\ edge[a].at # "idle"
        /\ Committed(past[a].knew) /\ SameCapability(past[a].knew, a)

\* and what the attempt may be told of it.
Reply(job, a) ==
    IF CommitmentOf[job] = CommitmentOf[a] THEN Accepted(job) ELSE Answer("conflict")

Replayed(a) ==
    /\ edge[a].at = "idle" => edge[a].answer = Answer("none")
    /\ past[a].knew # None /\ now + MAX_LEAD < past[past[a].knew].lapsesAt =>
         /\ edge[a].at \in {"find", "done"}
         /\ edge[a].answer \in {Answer("none"), Answer("unavailable"), Reply(past[a].knew, a)}

ReplayInv ==
    /\ RowsGood /\ InTime
    /\ \A a \in Attempts : Spent(a) /\ Knows(a) /\ Replayed(a)

\* Rows that are forgotten take nothing with them.
LEMMA RowsStay ==
    ASSUME TypeOK, RowsGood, admissions' \in {admissions, Remembered},
           \A a \in Attempts : Committed(a) => Committed(a)'
    PROVE  RowsGood'
<1>1. \A c \in DOMAIN admissions' : c \in DOMAIN admissions /\ admissions'[c] = admissions[c]
  BY RememberedRows
<1>2. \A c \in DOMAIN admissions : admissions[c].job \in Attempts
  <2>1. \A c \in DOMAIN admissions : admissions[c] \in [job : Attempts, expiresAt : Int]
    BY RowsOf DEF TypeOK
  <2>. QED
    BY <2>1
<1>. QED
  BY <1>1, <1>2 DEF RowsGood

\* A step of an isolate leaves what was committed, and stamps deadlines in time.
LEMMA IsolateLeaves ==
    ASSUME TypeOK, NEW a \in Attempts,
           \/ Arrive(a) \/ FindCommitted(a) \/ Reserve(a) \/ Gate(a) \/ GateFails(a)
           \/ Prepare(a) \/ RecordRefusal(a) \/ SendCommit(a) \/ LoseCall(a) \/ ReadBack(a)
           \/ Release(a) \/ Abort(a) \/ Crash(a)
    PROVE  /\ now' = now /\ admissions' \in {admissions, Remembered}
           /\ \A b \in Attempts : /\ past'[b].committedAt = past[b].committedAt
                                  /\ past'[b].lapsesAt = past[b].lapsesAt
           /\ \A b \in Attempts \ {a} : past'[b].knew = past[b].knew
           /\ past'[a].knew = past[a].knew \/ Arrive(a)
           /\ \A call \in calls' \ calls : call.attempt = a /\ call.deadline = edge[a].deadline
           /\ calls' # calls => edge[a].at = "commit"
<1>1. /\ now' = now /\ admissions' \in {admissions, Remembered}
  BY DEF Arrive, FindCommitted, Reserve, Gate, GateFails, Prepare, RecordRefusal, SendCommit,
         LoseCall, ReadBack, Release, Abort, Crash, tables
<1>2. \/ past' = past
      \/ Arrive(a) /\ \E x : past' = [past EXCEPT ![a] = [past[a] EXCEPT !.knew = x]]
      \/ \E x : past' = [past EXCEPT ![a] = [past[a] EXCEPT !.refusedUntil = x]]
      \/ \E x : past' = [past EXCEPT ![a] = [past[a] EXCEPT !.held = x]]
  BY DEF Arrive, FindCommitted, Reserve, Gate, GateFails, Prepare, RecordRefusal, SendCommit,
         LoseCall, ReadBack, Release, Abort, Crash
<1>3. ASSUME NEW p, past' = [past EXCEPT ![a] = p]
      PROVE  past'[a] = p /\ \A b \in Attempts \ {a} : past'[b] = past[b]
  BY <1>3 DEF TypeOK
<1>4. \A x : /\ LET p == [past[a] EXCEPT !.knew = x]
                IN  p.committedAt = past[a].committedAt /\ p.lapsesAt = past[a].lapsesAt
             /\ LET p == [past[a] EXCEPT !.refusedUntil = x]
                IN  /\ p.committedAt = past[a].committedAt /\ p.lapsesAt = past[a].lapsesAt
                    /\ p.knew = past[a].knew
             /\ LET p == [past[a] EXCEPT !.held = x]
                IN  /\ p.committedAt = past[a].committedAt /\ p.lapsesAt = past[a].lapsesAt
                    /\ p.knew = past[a].knew
  BY DEF TypeOK, Past
<1>5. /\ \A b \in Attempts : /\ past'[b].committedAt = past[b].committedAt
                             /\ past'[b].lapsesAt = past[b].lapsesAt
      /\ \A b \in Attempts \ {a} : past'[b].knew = past[b].knew
      /\ past'[a].knew = past[a].knew \/ Arrive(a)
  <2>1. CASE past' = past
    BY <2>1
  <2>2. CASE Arrive(a) /\ \E x : past' = [past EXCEPT ![a] = [past[a] EXCEPT !.knew = x]]
    BY <1>3, <1>4, <2>2
  <2>3. CASE \E x : past' = [past EXCEPT ![a] = [past[a] EXCEPT !.refusedUntil = x]]
    BY <1>3, <1>4, <2>3
  <2>4. CASE \E x : past' = [past EXCEPT ![a] = [past[a] EXCEPT !.held = x]]
    BY <1>3, <1>4, <2>4
  <2>. QED
    BY <1>2, <2>1, <2>2, <2>3, <2>4
<1>6. calls' = calls \/ SendCommit(a)
  BY DEF Arrive, FindCommitted, Reserve, Gate, GateFails, Prepare, RecordRefusal, SendCommit,
         LoseCall, ReadBack, Release, Abort, Crash
<1>. QED
  BY <1>1, <1>5, <1>6 DEF SendCommit, At

\* An attempt whose capability had a job when it arrived learns so at its first lookup.
LEMMA LookupReplies ==
    ASSUME Inv, NEW a \in Attempts, Knows(a), Replayed(a), FindCommitted(a),
           past[a].knew # None, now + MAX_LEAD < past[past[a].knew].lapsesAt
    PROVE  /\ edge'[a].at = "done"
           /\ edge'[a].answer \in {Answer("unavailable"), Reply(past[a].knew, a)}
<1> DEFINE job == past[a].knew
<1>1. TypeOK /\ job \in Attempts /\ edge[a].at = "find"
  BY DEF Inv, TypeOK, Past, FindCommitted, At
<1>2. /\ CapabilityOf[a] \in DOMAIN admissions
      /\ admissions[CapabilityOf[a]] = [job |-> job, expiresAt |-> past[job].lapsesAt]
  BY <1>1 DEF Knows, SameCapability, Inv, Bound
<1>3. past[job].lapsesAt > now
  <2>1. past[job].lapsesAt \in Int /\ now \in Nat /\ MAX_LEAD \in Nat
    BY <1>1, Constants DEF TypeOK, Past
  <2>. QED
    BY <2>1
<1>4. Found(a) /\ BoundJob(a) = job
  BY <1>1, <1>2, <1>3, RememberedRows DEF Found, BoundJob
<1>5. Decide(a, Reply(job, a), "done")
  BY <1>4 DEF FindCommitted, Matches, Reply
<1>6. /\ edge'[a].at = "done"
      /\ edge'[a].answer = IF edge[a].answer.status = "none" THEN Reply(job, a) ELSE edge[a].answer
  BY <1>1, <1>5, IsAnswered
<1>7. Answer("none").status = "none"
  BY DEF Answer
<1>. QED
  BY <1>6, <1>7 DEF Replayed

\* An isolate tells its attempt no more than that.
LEMMA IsolateReplies ==
    ASSUME Inv, NEW a \in Attempts, Moved(a), Knows(a), Replayed(a), Knows(a)',
           \/ Arrive(a) \/ FindCommitted(a) \/ Reserve(a) \/ Gate(a) \/ GateFails(a)
           \/ Prepare(a) \/ RecordRefusal(a) \/ SendCommit(a) \/ LoseCall(a) \/ ReadBack(a)
           \/ Release(a) \/ Abort(a) \/ Crash(a)
    PROVE  Replayed(a)'
<1> DEFINE job == past[a].knew
<1>1. TypeOK /\ now' = now /\ edge'[a].at # "idle" /\ edge[a].at # "done"
  BY IsolateLeaves DEF Inv, Moved
<1>2. CASE Arrive(a)
  <2>1. PICK deadline : edge' = [edge EXCEPT ![a] = [edge[a] EXCEPT !.at = "find", !.deadline = deadline]]
    BY <1>2 DEF Arrive
  <2>2. /\ [edge[a] EXCEPT !.at = "find", !.deadline = deadline].at = "find"
        /\ [edge[a] EXCEPT !.at = "find", !.deadline = deadline].answer = edge[a].answer
    BY <1>1 DEF TypeOK, Edge
  <2>3. edge'[a].at = "find" /\ edge'[a].answer = Answer("none")
    BY <1>1, <1>2, <2>1, <2>2 DEF TypeOK, Replayed, Arrive, At
  <2>. QED
    BY <2>3 DEF Replayed
<1>3. CASE ~Arrive(a) /\ past[a].knew # None /\ now + MAX_LEAD < past[job].lapsesAt
  <2>1. edge[a].at = "find"
    BY <1>1, <1>3 DEF Replayed
  <2>2. FindCommitted(a) \/ Abort(a) \/ Crash(a)
    BY <1>3, <2>1 DEF Reserve, Gate, GateFails, Prepare, RecordRefusal, SendCommit, LoseCall,
                      ReadBack, Release, At
  <2>3. /\ edge'[a].at = "done"
        /\ edge'[a].answer \in {Answer("none"), Answer("unavailable"), Reply(job, a)}
    <3>1. CASE FindCommitted(a)
      BY <1>3, <3>1, LookupReplies
    <3>2. CASE Abort(a) \/ Crash(a)
      <4>1. Decide(a, Answer("unavailable"), "done")
        BY <2>1, <3>2 DEF Abort, Crash, Holding
      <4>. QED
        BY <1>1, <1>3, <4>1, IsAnswered DEF Replayed
    <3>. QED
      BY <2>2, <3>1, <3>2
  <2>4. past'[a].knew = job
    BY <1>1, <1>3, IsolateLeaves
  <2>. QED
    BY <2>3, <2>4 DEF Replayed, Reply
<1>4. CASE ~Arrive(a) /\ ~(past[a].knew # None /\ now + MAX_LEAD < past[job].lapsesAt)
  <2>1. past'[a].knew = past[a].knew /\ past[a].knew \in Attempts \cup {None}
    BY <1>1, <1>4, IsolateLeaves DEF TypeOK, Past
  <2>2. \A b \in Attempts : past'[b].lapsesAt = past[b].lapsesAt
    BY <1>1, IsolateLeaves
  <2>. QED
    BY <1>1, <1>4, <2>1, <2>2 DEF Replayed
<1>. QED
  BY <1>2, <1>3, <1>4

\* What an isolate does keeps all that.
LEMMA IsolateReplays ==
    ASSUME Inv, ReplayInv, NEW a \in Attempts, Moved(a),
           \/ Arrive(a) \/ FindCommitted(a) \/ Reserve(a) \/ Gate(a) \/ GateFails(a)
           \/ Prepare(a) \/ RecordRefusal(a) \/ SendCommit(a) \/ LoseCall(a) \/ ReadBack(a)
           \/ Release(a) \/ Abort(a) \/ Crash(a)
    PROVE  ReplayInv'
<1>1. /\ TypeOK /\ now' = now /\ admissions' \in {admissions, Remembered}
      /\ \A b \in Attempts : /\ past'[b].committedAt = past[b].committedAt
                             /\ past'[b].lapsesAt = past[b].lapsesAt
      /\ \A b \in Attempts \ {a} : past'[b].knew = past[b].knew
      /\ past'[a].knew = past[a].knew \/ Arrive(a)
      /\ \A call \in calls' \ calls : call.attempt = a /\ call.deadline = edge[a].deadline
      /\ calls' # calls => edge[a].at = "commit"
  BY IsolateLeaves DEF Inv
<1>2. \A b \in Attempts : Committed(b)' <=> Committed(b)
  BY <1>1 DEF Committed
<1>3. RowsGood'
  BY <1>1, <1>2, RowsStay DEF ReplayInv
<1>4. /\ \A b \in Attempts : edge[b].deadline \in Int
      /\ \A call \in calls : call.attempt \in Attempts
      /\ now \in Nat /\ MAX_LEAD \in Nat /\ Horizon \in Nat /\ Horizon' = Horizon
      /\ \A b \in Attempts : past[b].lapsesAt \in Int
  BY <1>1, Constants DEF TypeOK, Edge, Call, Horizon, Past
<1>5. edge'[a].deadline \in {0, edge[a].deadline} \/ (Arrive(a) /\ edge'[a].deadline <= Horizon)
  <2>1. ASSUME Arrive(a)
        PROVE  edge'[a].deadline <= Horizon
    <3>1. PICK deadline \in (now + ADMISSION_TIMEOUT - EDGE_SKEW)..(now + ADMISSION_TIMEOUT + EDGE_SKEW) :
            edge' = [edge EXCEPT ![a] = [edge[a] EXCEPT !.at = "find", !.deadline = deadline]]
      BY <2>1 DEF Arrive
    <3>2. [edge[a] EXCEPT !.at = "find", !.deadline = deadline].deadline = deadline
      BY <1>1 DEF TypeOK, Edge
    <3>3. edge'[a].deadline = deadline
      BY <1>1, <3>1, <3>2 DEF TypeOK
    <3>4. deadline <= Horizon
      BY <1>4, <3>1, Constants DEF Horizon
    <3>. QED
      BY <3>3, <3>4
  <2>. QED
    BY <2>1 DEF Moved
<1>6. InTime'
  <2>1. \A b \in Attempts : edge'[b].deadline <= Horizon
    BY <1>4, <1>5 DEF Moved, ReplayInv, InTime
  <2>2. \A call \in calls' : call.deadline <= Horizon /\ edge'[call.attempt].at # "idle"
    BY <1>1, <1>4 DEF Moved, ReplayInv, InTime
  <2>. QED
    BY <1>4, <2>1, <2>2 DEF InTime
<1>7. \A b \in Attempts : Spent(b)'
  <2> SUFFICES ASSUME NEW b \in Attempts, Committed(b)
               PROVE  /\ edge'[b].at # "idle" /\ MAX_LEAD <= past[b].lapsesAt
                      /\ edge'[b].deadline + MAX_LEAD <= past[b].lapsesAt
                      /\ \A call \in calls' :
                           call.attempt = b => call.deadline + MAX_LEAD <= past[b].lapsesAt
    BY <1>1, <1>2 DEF Spent
  <2>1. /\ edge[b].at # "idle" /\ MAX_LEAD <= past[b].lapsesAt
        /\ edge[b].deadline + MAX_LEAD <= past[b].lapsesAt
        /\ \A call \in calls : call.attempt = b => call.deadline + MAX_LEAD <= past[b].lapsesAt
    BY DEF ReplayInv, Spent
  <2>2. edge'[b].at # "idle" /\ edge'[b].deadline \in {0, edge[b].deadline}
    BY <1>5, <2>1 DEF Moved, Arrive, At
  <2>. QED
    BY <1>1, <1>4, <2>1, <2>2
<1>8. \A b \in Attempts : Knows(b)'
  <2>1. ASSUME NEW b \in Attempts, past'[b].knew = past[b].knew
        PROVE  Knows(b)'
    <3>1. past[b].knew \in Attempts \cup {None}
      BY <1>1 DEF TypeOK, Past
    <3>. QED
      BY <1>2, <2>1, <3>1 DEF Knows, ReplayInv, Moved, SameCapability
  <2>2. ASSUME Arrive(a)
        PROVE  Knows(a)'
    <3>1. past' = [past EXCEPT ![a] = [past[a] EXCEPT !.knew = IF Found(a) THEN BoundJob(a) ELSE None]]
      BY <2>2 DEF Arrive
    <3>2. past'[a].knew = IF Found(a) THEN BoundJob(a) ELSE None
      BY <1>1, <3>1 DEF TypeOK, Past
    <3>3. Found(a) => /\ BoundJob(a) \in Attempts /\ Committed(BoundJob(a))
                      /\ CapabilityOf[BoundJob(a)] = CapabilityOf[a]
      <4>1. Found(a) => /\ BoundJob(a) \in Attempts /\ CapabilityOf[a] \in DOMAIN admissions
                        /\ BoundJob(a) = admissions[CapabilityOf[a]].job
        BY <1>1, BoundJobs, RememberedRows DEF Found, BoundJob
      <4>. QED
        BY <4>1 DEF ReplayInv, RowsGood
    <3>. QED
      BY <1>2, <3>2, <3>3 DEF Knows, Moved, SameCapability
  <2>. QED
    BY <1>1, <2>1, <2>2
<1>9. \A b \in Attempts : Replayed(b)'
  <2>1. ASSUME NEW b \in Attempts \ {a}
        PROVE  Replayed(b)'
    <3>1. past[b].knew \in Attempts \cup {None} /\ past'[b].knew = past[b].knew /\ edge'[b] = edge[b]
      BY <1>1 DEF TypeOK, Past, Moved
    <3>2. Replayed(b)
      BY DEF ReplayInv
    <3>. QED
      BY <1>1, <3>1, <3>2 DEF Replayed, Reply
  <2>2. Replayed(a)'
    BY <1>8, IsolateReplies DEF ReplayInv
  <2>. QED
    BY <2>1, <2>2
<1>. QED
  BY <1>3, <1>6, <1>7, <1>8, <1>9 DEF ReplayInv

\* The job of an attempt is committed once: a second call finds the first one's.
LEMMA CommitsOnce ==
    ASSUME Inv, ReplayInv, NEW call \in calls, Standing(call).status = "none"
    PROVE  ~Committed(call.attempt)
<1> SUFFICES ASSUME Committed(call.attempt)
             PROVE  FALSE
  OBVIOUS
<1> DEFINE a == call.attempt
<1>1. TypeOK /\ a \in Attempts /\ call.deadline \in Int /\ now \in Nat /\ MAX_LEAD \in Nat
      /\ past[a].lapsesAt \in Int
  BY Constants DEF Inv, TypeOK, Call, Past
<1>2. now < call.deadline
  <2>1. /\ Answer("expired").status # "none" /\ Answer("conflict").status # "none"
        /\ Accepted(BoundJob(a)).status # "none"
    BY DEF Answer, Accepted
  <2>2. ~(now >= call.deadline)
    BY <2>1 DEF Standing
  <2>. QED
    BY <1>1, <2>2
<1>3. call.deadline + MAX_LEAD <= past[a].lapsesAt
  BY <1>1 DEF ReplayInv, Spent
<1>4. now + MAX_LEAD < past[a].lapsesAt /\ now < past[a].lapsesAt
  BY <1>1, <1>2, <1>3
<1>5. /\ CapabilityOf[a] \in DOMAIN admissions
      /\ admissions[CapabilityOf[a]] = [job |-> a, expiresAt |-> past[a].lapsesAt]
  BY <1>1, <1>4 DEF Inv, Bound
<1>6. Found(a)
  BY <1>1, <1>4, <1>5, RememberedRows DEF Found
<1>. QED
  BY <1>1, <1>6, StandingFound

\* What a call leaves: at most it is taken up again in its second stage, and at
\* most it has committed.
Left(call) ==
    /\ now' = now
    /\ \A next \in calls' \ calls :
         next.attempt = call.attempt /\ next.deadline = call.deadline
    /\ \/ admissions' \in {admissions, Remembered} /\ past' = past
       \/ /\ Standing(call).status = "none" /\ WithinSkew(call)
          /\ admissions' = Put(RememberedAt(call.admittedAt), CapabilityOf[call.attempt],
                               [job |-> call.attempt, expiresAt |-> call.admittedAt + TTL])
          /\ past' = [past EXCEPT ![call.attempt].committedAt = now,
                                  ![call.attempt].lapsesAt = call.admittedAt + TTL]

\* Every call leaves so.
LEMMA CallsLeave ==
    ASSUME TypeOK, NEW call \in calls,
           Preflight(call) \/ CommitAdmission(call) \/ CallDies(call)
    PROVE  Left(call)
<1>1. now' = now
  BY DEF Preflight, CommitAdmission, CallDies
<1>2. /\ [call EXCEPT !.stage = "commit"].attempt = call.attempt
      /\ [call EXCEPT !.stage = "commit"].deadline = call.deadline
  BY DEF TypeOK, Call
<1>3. \/ calls' = calls \ {call}
      \/ calls' = (calls \ {call}) \union {[call EXCEPT !.stage = "commit"]}
  BY DEF Preflight, CommitAdmission, CallDies, Finish
<1>4. \A next \in calls' \ calls : next.attempt = call.attempt /\ next.deadline = call.deadline
  BY <1>2, <1>3
<1>5. CASE Preflight(call) \/ CallDies(call)
  BY <1>1, <1>4, <1>5 DEF Left, Preflight, CallDies, tables
<1>6. CASE CommitAdmission(call)
  BY <1>1, <1>4, <1>6 DEF Left, CommitAdmission
<1>. QED
  BY <1>5, <1>6

\* What a commit writes down of the attempt.
LEMMA Commits ==
    ASSUME Inv, ReplayInv, NEW call \in calls, WithinSkew(call), Standing(call).status = "none",
           admissions' = Put(RememberedAt(call.admittedAt), CapabilityOf[call.attempt],
                             [job |-> call.attempt, expiresAt |-> call.admittedAt + TTL]),
           past' = [past EXCEPT ![call.attempt].committedAt = now,
                                ![call.attempt].lapsesAt = call.admittedAt + TTL]
    PROVE  /\ RowsGood'
           /\ Committed(call.attempt)' /\ ~Committed(call.attempt)
           /\ past'[call.attempt].lapsesAt >= Horizon + MAX_LEAD
           /\ \A b \in Attempts \ {call.attempt} : past'[b] = past[b]
           /\ past'[call.attempt].knew = past[call.attempt].knew
<1> DEFINE a == call.attempt
           c == CapabilityOf[a]
           at == call.admittedAt
           kept == RememberedAt(at)
           row == [job |-> a, expiresAt |-> at + TTL]
           rows == [job : Attempts, expiresAt : Int]
<1>1. /\ TypeOK /\ a \in Attempts /\ at \in Int /\ c \in Capabilities /\ now \in Nat
      /\ TTL \in Nat /\ MAX_AGE \in Nat /\ MAX_LEAD \in Nat /\ Horizon \in Nat /\ at + TTL \in Int
  BY Constants DEF Inv, TypeOK, Call, Horizon
<1>2. ~Committed(a)
  BY CommitsOnce
<1>3. /\ past'[a].committedAt = now /\ past'[a].lapsesAt = at + TTL
      /\ past'[a].knew = past[a].knew
      /\ \A b \in Attempts \ {a} : past'[b] = past[b]
  <2> DEFINE p == [past[a] EXCEPT !.committedAt = now, !.lapsesAt = at + TTL]
  <2>1. p.committedAt = now /\ p.lapsesAt = at + TTL /\ p.knew = past[a].knew
    BY <1>1 DEF TypeOK, Past
  <2>2. past' = [past EXCEPT ![a] = p]
    OBVIOUS
  <2> HIDE DEF p
  <2>. QED
    BY <1>1, <2>1, <2>2 DEF TypeOK
<1>4. at + TTL >= Horizon + MAX_LEAD
  <2>1. at >= now - MAX_AGE
    BY <1>1 DEF WithinSkew
  <2>2. TTL >= ADMISSION_TIMEOUT + EDGE_SKEW + MAX_AGE + MAX_LEAD
    BY AdmissionAssumption
  <2>. QED
    BY <1>1, <2>1, <2>2, Constants DEF Horizon
<1>5. /\ DOMAIN admissions' = DOMAIN kept \cup {c} /\ admissions'[c] = row
      /\ \A x \in DOMAIN kept \ {c} : x \in DOMAIN admissions /\ admissions'[x] = admissions[x]
  <2>1. /\ kept \in Table(rows) /\ c \in Capabilities /\ row \in rows
        /\ admissions' = Put(kept, c, row)
        /\ \A x \in DOMAIN kept : x \in DOMAIN admissions /\ kept[x] = admissions[x]
    BY <1>1, RememberedRows, RememberedAtRows
  <2> HIDE DEF kept, c, row, rows
  <2>2. /\ DOMAIN Put(kept, c, row) = DOMAIN kept \cup {c}
        /\ Put(kept, c, row)[c] = row
        /\ \A x \in DOMAIN kept \ {c} : Put(kept, c, row)[x] = kept[x]
    BY DEF Put
  <2>. QED
    BY <2>1, <2>2
<1>6. \A x \in DOMAIN admissions : admissions[x].job \in Attempts
  <2>1. \A x \in DOMAIN admissions : admissions[x] \in rows
    BY <1>1, RowsOf DEF TypeOK
  <2>. QED
    BY <2>1
<1>7. \A b \in Attempts : Committed(b) \/ b = a => past'[b].committedAt >= 0
  <2>1. past'[a].committedAt >= 0
    BY <1>1, <1>3
  <2>2. \A b \in Attempts \ {a} : Committed(b) => past'[b].committedAt >= 0
    BY <1>3 DEF Committed
  <2>. QED
    BY <2>1, <2>2
<1>8. RowsGood'
  <2> SUFFICES ASSUME NEW x \in DOMAIN admissions'
               PROVE  /\ past'[admissions'[x].job].committedAt >= 0
                      /\ CapabilityOf[admissions'[x].job] = x
    BY DEF RowsGood, Committed
  <2> HIDE DEF kept
  <2>1. CASE x = c
    <3>1. admissions'[x].job = a
      BY <1>5, <2>1
    <3>. QED
      BY <1>1, <1>7, <2>1, <3>1
  <2>2. CASE x # c
    BY <1>5, <1>6, <1>7, <2>2 DEF ReplayInv, RowsGood
  <2>. QED
    BY <2>1, <2>2
<1>9. Committed(a)'
  BY <1>1, <1>7 DEF Committed
<1>. QED
  BY <1>1, <1>2, <1>3, <1>4, <1>8, <1>9

\* What the Durable Object does keeps all that.
LEMMA CallReplays ==
    ASSUME Inv, ReplayInv, NEW call \in calls,
           Preflight(call) \/ CommitAdmission(call) \/ CallDies(call)
    PROVE  ReplayInv'
<1> DEFINE a == call.attempt
<1>1. TypeOK /\ a \in Attempts /\ Left(call)
  BY CallsLeave DEF Inv, TypeOK, Call
<1>2. /\ \A b \in Attempts : edge[b].deadline \in Int
      /\ \A other \in calls : other.attempt \in Attempts /\ other.deadline \in Int
      /\ now \in Nat /\ MAX_LEAD \in Nat /\ Horizon \in Nat /\ Horizon' = Horizon
      /\ \A b \in Attempts : past[b].lapsesAt \in Int
  BY <1>1, Constants DEF TypeOK, Edge, Call, Horizon, Past, Left
<1>3. \A b \in Attempts :
        /\ edge'[b].at = "idle" <=> edge[b].at = "idle"
        /\ edge'[b].deadline \in {0, edge[b].deadline}
        /\ edge[b].at \in {"idle", "find", "done"} => edge'[b] = edge[b]
  BY <1>1, CallsMove
<1>4. \A other \in calls' : \E old \in calls :
        other.attempt = old.attempt /\ other.deadline = old.deadline
  BY <1>1 DEF Left
<1>5. InTime'
  <2>1. \A b \in Attempts : edge'[b].deadline <= Horizon
    BY <1>2, <1>3 DEF ReplayInv, InTime
  <2>2. \A other \in calls' : other.deadline <= Horizon /\ edge'[other.attempt].at # "idle"
    BY <1>2, <1>3, <1>4 DEF ReplayInv, InTime
  <2>. QED
    BY <1>2, <2>1, <2>2 DEF InTime
<1>6. ASSUME NEW b \in Attempts, Spent(b), past'[b] = past[b]
      PROVE  Spent(b)'
  <2> SUFFICES ASSUME Committed(b)
               PROVE  /\ edge'[b].at # "idle" /\ MAX_LEAD <= past[b].lapsesAt
                      /\ edge'[b].deadline + MAX_LEAD <= past[b].lapsesAt
                      /\ \A other \in calls' :
                           other.attempt = b => other.deadline + MAX_LEAD <= past[b].lapsesAt
    BY <1>6 DEF Spent, Committed
  <2>1. /\ edge[b].at # "idle" /\ MAX_LEAD <= past[b].lapsesAt
        /\ edge[b].deadline + MAX_LEAD <= past[b].lapsesAt
        /\ \A other \in calls : other.attempt = b => other.deadline + MAX_LEAD <= past[b].lapsesAt
    BY <1>6 DEF Spent
  <2>. QED
    BY <1>2, <1>3, <1>4, <2>1
<1>7. ASSUME NEW b \in Attempts, Replayed(b), past'[b].knew = past[b].knew,
             past[b].knew # None => past'[past[b].knew].lapsesAt = past[past[b].knew].lapsesAt
      PROVE  Replayed(b)'
  <2>1. now' = now
    BY <1>1 DEF Left
  <2>. QED
    BY <1>3, <1>7, <2>1 DEF Replayed, Reply
<1>8. ASSUME NEW b \in Attempts, Knows(b), past'[b].knew = past[b].knew,
             past[b].knew # None => Committed(past[b].knew)'
      PROVE  Knows(b)'
  BY <1>3, <1>8 DEF Knows, SameCapability
<1>9. CASE admissions' \in {admissions, Remembered} /\ past' = past
  <2>1. RowsGood'
    BY <1>1, <1>9, RowsStay DEF ReplayInv, Committed
  <2>2. \A b \in Attempts : Knows(b)'
    BY <1>8, <1>9 DEF ReplayInv, Knows, Committed
  <2>. QED
    BY <1>5, <1>6, <1>7, <1>9, <2>1, <2>2 DEF ReplayInv
<1>10. CASE /\ Standing(call).status = "none" /\ WithinSkew(call)
            /\ admissions' = Put(RememberedAt(call.admittedAt), CapabilityOf[call.attempt],
                                 [job |-> call.attempt, expiresAt |-> call.admittedAt + TTL])
            /\ past' = [past EXCEPT ![call.attempt].committedAt = now,
                                    ![call.attempt].lapsesAt = call.admittedAt + TTL]
  <2>1. /\ RowsGood' /\ Committed(a)' /\ ~Committed(a)
        /\ past'[a].lapsesAt >= Horizon + MAX_LEAD
        /\ \A b \in Attempts \ {a} : past'[b] = past[b]
        /\ past'[a].knew = past[a].knew
    BY <1>10, Commits
  <2>2. \A b \in Attempts : past[b].knew # None => past[b].knew \in Attempts \ {a}
    BY <1>1, <2>1 DEF TypeOK, Past, ReplayInv, Knows
  <2>3. \A b \in Attempts : Replayed(b)'
    BY <1>7, <2>1, <2>2 DEF ReplayInv
  <2>4. \A b \in Attempts : Knows(b)'
    BY <1>8, <2>1, <2>2 DEF ReplayInv, Knows, Committed
  <2>5. Spent(a)'
    <3>1. past'[a].lapsesAt \in Int
      <4>1. Inv'
        BY PreflightKeeps, CommitAdmissionKeeps, CallDiesKeeps
      <4>. QED
        BY <1>1, <4>1 DEF Inv, TypeOK, Past
    <3>2. edge'[a].at # "idle"
      BY <1>1, <1>3 DEF ReplayInv, InTime
    <3>3. edge'[a].deadline + MAX_LEAD <= past'[a].lapsesAt
      BY <1>1, <1>2, <1>3, <2>1, <3>1 DEF ReplayInv, InTime
    <3>4. \A other \in calls' : other.deadline + MAX_LEAD <= past'[a].lapsesAt
      BY <1>2, <1>4, <2>1, <3>1 DEF ReplayInv, InTime
    <3>5. MAX_LEAD <= past'[a].lapsesAt
      BY <1>2, <2>1, <3>1
    <3>. QED
      BY <3>2, <3>3, <3>4, <3>5 DEF Spent
  <2>. QED
    BY <1>5, <1>6, <2>1, <2>3, <2>4, <2>5 DEF ReplayInv
<1>. QED
  BY <1>1, <1>9, <1>10 DEF Left

\* As time passes less is remembered.
LEMMA TickReplays ==
    ASSUME Inv, ReplayInv, Tick
    PROVE  ReplayInv'
<1>1. TypeOK /\ UNCHANGED <<tables, edge, calls, past>> /\ now' = now + 1
  BY DEF Inv, Tick
<1>2. /\ \A b \in Attempts : edge[b].deadline \in Int
      /\ \A call \in calls : call.deadline \in Int
      /\ now \in Nat /\ MAX_LEAD \in Nat /\ Horizon \in Nat /\ Horizon' = Horizon + 1
      /\ \A b \in Attempts : past[b].lapsesAt \in Int /\ past[b].knew \in Attempts \cup {None}
  BY <1>1, Constants DEF TypeOK, Edge, Call, Horizon, Past
<1>3. RowsGood'
  BY <1>1 DEF ReplayInv, RowsGood, Committed, tables
<1>4. InTime'
  BY <1>1, <1>2 DEF ReplayInv, InTime
<1>5. \A b \in Attempts : Spent(b)' /\ Knows(b)'
  BY <1>1 DEF ReplayInv, Spent, Knows, Committed, SameCapability
<1>6. \A b \in Attempts : Replayed(b)'
  BY <1>1, <1>2 DEF ReplayInv, Replayed, Reply
<1>. QED
  BY <1>3, <1>4, <1>5, <1>6 DEF ReplayInv

\* Nobody knows of anything at first.
LEMMA ReplayInit == Init => ReplayInv
<1> SUFFICES ASSUME Init
             PROVE  ReplayInv
  OBVIOUS
<1>1. \A a \in Attempts :
        /\ edge[a].at = "idle" /\ edge[a].deadline = 0 /\ edge[a].answer = Answer("none")
        /\ past[a].knew = None /\ past[a].committedAt = -1
  BY DEF Init, Resting
<1>2. admissions = << >> /\ calls = {} /\ now = 0
  BY DEF Init
<1>3. RowsGood
  BY <1>2 DEF RowsGood
<1>4. 0 <= Horizon
  BY <1>2, Constants DEF Horizon
<1>5. InTime
  BY <1>1, <1>2, <1>4 DEF InTime
<1>6. \A a \in Attempts : Spent(a) /\ Knows(a) /\ Replayed(a)
  BY <1>1 DEF Spent, Knows, Replayed, Committed
<1>. QED
  BY <1>3, <1>5, <1>6 DEF ReplayInv

\* Every step keeps what replays rely on.
LEMMA ReplayNext == Inv /\ ReplayInv /\ [Next]_vars => ReplayInv'
<1> SUFFICES ASSUME Inv, ReplayInv, [Next]_vars
             PROVE  ReplayInv'
  OBVIOUS
<1>1. CASE Tick
  BY <1>1, TickReplays
<1>2. ASSUME NEW a \in Attempts,
             \/ Arrive(a) \/ FindCommitted(a) \/ Reserve(a) \/ Gate(a) \/ GateFails(a)
             \/ Prepare(a) \/ RecordRefusal(a) \/ SendCommit(a) \/ LoseCall(a) \/ ReadBack(a)
             \/ Release(a) \/ Abort(a) \/ Crash(a)
      PROVE  ReplayInv'
  <2>1. Moved(a)
    BY <1>2, IsolateMoves DEF Inv
  <2>. QED
    BY <1>2, <2>1, IsolateReplays
<1>3. ASSUME NEW call \in calls, Preflight(call) \/ CommitAdmission(call) \/ CallDies(call)
      PROVE  ReplayInv'
  BY <1>3, CallReplays
<1>4. CASE UNCHANGED vars
  BY <1>4 DEF vars, tables, ReplayInv, RowsGood, InTime, Horizon, Spent, Knows, Replayed, Reply,
              Committed, SameCapability
<1>. QED
  BY <1>1, <1>2, <1>3, <1>4 DEF Next

\* A holder whose job was committed before it asked again is told that job, or that the
\* answer is unknown: the lookup of findCommittedScanAdmission comes before any slot,
\* gate or quota, and an admission outlives whatever the attempt it is of may still do.
THEOREM ReplaysRecover == Spec => []CommittedReplayIsRecovered
<1>1. Inv /\ ReplayInv => CommittedReplayIsRecovered
  <2> SUFFICES ASSUME Inv, ReplayInv, NEW a \in Attempts, past[a].knew # None,
                      edge[a].answer.status # "none", now + MAX_LEAD < past[past[a].knew].lapsesAt
               PROVE  edge[a].answer \in {Answer("unavailable"), Reply(past[a].knew, a)}
    BY DEF CommittedReplayIsRecovered, Reply
  <2>1. Answer("none").status = "none"
    BY DEF Answer
  <2>. QED
    BY <2>1 DEF ReplayInv, Replayed
<1>. QED
  BY <1>1, AdmissionInvariant, ReplayInit, ReplayNext, PTL DEF Spec

-----------------------------------------------------------------------------
(* A definite no.                                                          *)

CallsOf(a) == {call \in calls : call.attempt = a}

\* Where an attempt has asked for no commit yet.
Early == {"idle", "find", "reserve", "gate", "prepare", "refuse"}

\* An attempt has one call for each of its tries.
CallsGood(a) ==
    /\ edge[a].at \in Early => edge[a].try = 1
    /\ edge[a].at \in Early \/ (edge[a].at = "commit" /\ edge[a].try = 1) =>
         CallsOf(a) = {} /\ ~Committed(a)
    /\ \A call \in CallsOf(a) :
         call.try <= edge[a].try /\ (edge[a].at = "commit" => call.try < edge[a].try)
    /\ \A call, other \in CallsOf(a) : call.try = other.try => call = other

\* A job that was committed after an attempt's first lookup outlives its calls.
Outlives(b, a) ==
    /\ edge[a].deadline + MAX_LEAD <= past[b].lapsesAt
    /\ \A call \in CallsOf(a) : call.deadline + MAX_LEAD <= past[b].lapsesAt

Names(a, b) ==
    LET c == CapabilityOf[a]
    IN c \in DOMAIN admissions /\ admissions[c].expiresAt > now /\ admissions[c].job = b

Dated(a, b) == edge[a].at \notin {"idle", "find"} /\ Names(a, b) => Outlives(b, a)

\* An attempt that was told no has no call left, or none that can still commit.
NoGood(a) ==
    ToldNo(a) =>
        /\ edge[a].at \in {"release", "done"}
        /\ \/ CallsOf(a) = {} /\ ~Committed(a)
           \/ edge[a].answer.status = "rate-limited" /\ edge[a].try = 2
           \/ /\ ~Committed(a)
              /\ \E b \in Attempts : /\ SameCapability(a, b) /\ Committed(b)
                                     /\ \A call \in CallsOf(a) :
                                          call.deadline + MAX_LEAD <= past[b].lapsesAt

NoInv ==
    /\ \A a \in Attempts : CallsGood(a) /\ NoGood(a)
    /\ \A a, b \in Attempts : Dated(a, b)

\* What the property says of a step and one attempt.
NoStep(a) ==
    ToldNo(a)' /\ Committed(a)' =>
        ToldNo(a) /\ edge[a].answer.status = "rate-limited" /\ edge[a].try = 2

\* How an isolate comes to ask, and to tell no.
Asks(a) ==
    /\ edge'[a].at \in Early => edge[a].at \in Early
    /\ edge'[a].at \notin {"idle", "find"} =>
         \/ edge[a].at \notin {"idle", "find"}
         \/ ~Found(a)
         \/ edge'[a].at = "done" /\ edge'[a].deadline = 0
    /\ \/ edge'[a].try = edge[a].try
       \/ edge[a].at = "readback" /\ edge[a].try = 1 /\ edge'[a].at = "commit" /\ edge'[a].try = 2
    /\ edge'[a].at = "commit" => edge[a].at = "prepare" \/ edge'[a].try # edge[a].try
    /\ \/ calls' = calls
       \/ /\ edge[a].at = "commit" /\ edge'[a].at = "await" /\ ~ToldNo(a)'
          /\ \E call : calls' = calls \cup {call} /\ call.try = edge[a].try
                       /\ call.attempt = a /\ call.deadline = edge[a].deadline
    /\ ToldNo(a)' =>
         /\ edge'[a].at \in {"release", "done"}
         /\ (edge'[a].answer = edge[a].answer /\ edge'[a].try = edge[a].try) \/ edge[a].at \in Early

\* Every step of an isolate asks, or tells no, so.
LEMMA IsolateAsks ==
    ASSUME TypeOK, NEW a \in Attempts, NoGood(a),
           \/ Arrive(a) \/ FindCommitted(a) \/ Reserve(a) \/ Gate(a) \/ GateFails(a)
           \/ Prepare(a) \/ RecordRefusal(a) \/ SendCommit(a) \/ LoseCall(a) \/ ReadBack(a)
           \/ Release(a) \/ Abort(a) \/ Crash(a)
    PROVE  Asks(a)
<1>1. ASSUME NEW step, Go(a, step)
      PROVE  edge'[a].at = step /\ edge'[a].answer = edge[a].answer /\ edge'[a].try = edge[a].try
  BY <1>1, GoesOn
<1>2. ASSUME NEW answer, NEW step, Decide(a, answer, step)
      PROVE  /\ edge'[a].at = step /\ edge'[a].try = edge[a].try /\ edge'[a].deadline = 0
             /\ edge'[a].answer = IF edge[a].answer.status = "none" THEN answer ELSE edge[a].answer
  BY <1>2, IsAnswered
<1>3. ASSUME NEW e, edge' = [edge EXCEPT ![a] = e]
      PROVE  edge'[a] = e
  BY <1>3 DEF TypeOK
<1>4. edge[a].at \notin {"release", "done"} => ~ToldNo(a)
  BY DEF NoGood
<1>5. \A job : Answer("unavailable").status = "unavailable" /\ Accepted(job).status = "accepted"
  BY DEF Answer, Accepted
<1>6. ASSUME NEW status \in {"accepted", "unavailable", "none"}, edge'[a].answer.status = status
      PROVE  ~ToldNo(a)'
  BY <1>6 DEF ToldNo
<1>7. CASE Arrive(a)
  <2>1. PICK deadline : edge' = [edge EXCEPT ![a] = [edge[a] EXCEPT !.at = "find", !.deadline = deadline]]
    BY <1>7 DEF Arrive
  <2>2. LET e == [edge[a] EXCEPT !.at = "find", !.deadline = deadline]
        IN  e.at = "find" /\ e.try = edge[a].try /\ e.answer = edge[a].answer
    BY DEF TypeOK, Edge
  <2>3. edge'[a].at = "find" /\ edge'[a].try = edge[a].try /\ edge'[a].answer = edge[a].answer
    BY <1>3, <2>1, <2>2
  <2>4. edge[a].at = "idle" /\ calls' = calls
    BY <1>7 DEF Arrive, At
  <2>. QED
    BY <1>4, <2>3, <2>4 DEF Asks, Early, ToldNo
<1>8. CASE FindCommitted(a)
  <2>1. /\ edge[a].at = "find" /\ calls' = calls /\ edge'[a].try = edge[a].try
        /\ \/ edge'[a].at = "done" /\ edge'[a].deadline = 0
           \/ edge'[a].at = "reserve" /\ ~Found(a) /\ edge'[a].answer = edge[a].answer
    BY <1>1, <1>2, <1>8 DEF FindCommitted, At
  <2>. QED
    BY <1>4, <2>1 DEF Asks, Early, ToldNo
<1>9. CASE Reserve(a)
  <2>1. /\ edge[a].at = "reserve" /\ calls' = calls /\ edge'[a].try = edge[a].try
        /\ edge'[a].at = "done" \/ (edge'[a].at = "gate" /\ edge'[a].answer = edge[a].answer)
    BY <1>1, <1>2, <1>9 DEF Reserve, At
  <2>. QED
    BY <1>4, <2>1 DEF Asks, Early, ToldNo
<1>10. CASE Gate(a) \/ GateFails(a)
  <2>1. /\ edge[a].at = "gate" /\ calls' = calls /\ edge'[a].try = edge[a].try
        /\ edge'[a].at = "release" \/ (edge'[a].at = "prepare" /\ edge'[a].answer = edge[a].answer)
    BY <1>1, <1>2, <1>10 DEF Gate, GateFails, At
  <2>. QED
    BY <1>4, <2>1 DEF Asks, Early, ToldNo
<1>11. CASE Prepare(a)
  <2>1. ASSUME NEW at, edge' = [edge EXCEPT ![a] = [edge[a] EXCEPT !.at = "commit", !.admittedAt = at]]
        PROVE  edge'[a].at = "commit" /\ edge'[a].answer = edge[a].answer /\ edge'[a].try = edge[a].try
    <3>1. LET e == [edge[a] EXCEPT !.at = "commit", !.admittedAt = at]
          IN  e.at = "commit" /\ e.answer = edge[a].answer /\ e.try = edge[a].try
      BY DEF TypeOK, Edge
    <3>. QED
      BY <1>3, <2>1, <3>1
  <2>2. /\ edge[a].at = "prepare" /\ calls' = calls /\ edge'[a].try = edge[a].try
        /\ \/ edge'[a].at = "release"
           \/ edge'[a].at \in {"commit", "refuse"} /\ edge'[a].answer = edge[a].answer
    BY <1>1, <1>2, <1>11, <2>1 DEF Prepare, At
  <2>. QED
    BY <1>4, <2>2 DEF Asks, Early, ToldNo
<1>12. CASE RecordRefusal(a)
  <2>1. /\ edge[a].at = "refuse" /\ calls' = calls /\ edge'[a].try = edge[a].try
        /\ edge'[a].at = "release"
    BY <1>2, <1>12 DEF RecordRefusal, At
  <2>. QED
    BY <2>1 DEF Asks, Early
<1>13. CASE SendCommit(a)
  <2>1. /\ edge[a].at = "commit" /\ edge'[a].at = "await" /\ edge'[a].try = edge[a].try
        /\ edge'[a].answer = edge[a].answer
    BY <1>1, <1>13 DEF SendCommit, At
  <2>2. \E call : calls' = calls \cup {call} /\ call.try = edge[a].try
                  /\ call.attempt = a /\ call.deadline = edge[a].deadline
    <3>. DEFINE new == [attempt |-> a, try |-> edge[a].try, stage |-> "preflight",
                        deadline |-> edge[a].deadline, admittedAt |-> edge[a].admittedAt]
    <3>1. calls' = calls \cup {new}
      BY <1>13 DEF SendCommit
    <3>2. new.try = edge[a].try /\ new.attempt = a /\ new.deadline = edge[a].deadline
      OBVIOUS
    <3>. HIDE DEF new
    <3>. QED
      BY <3>1, <3>2
  <2>3. ~ToldNo(a)'
    BY <1>4, <2>1 DEF ToldNo
  <2>. HIDE DEF ToldNo
  <2>. QED
    BY <2>1, <2>2, <2>3 DEF Asks, Early
<1>14. CASE LoseCall(a)
  <2>1. /\ edge[a].at = "await" /\ edge'[a].at = "readback" /\ edge'[a].try = edge[a].try
        /\ edge'[a].answer = edge[a].answer /\ calls' = calls
    BY <1>1, <1>14 DEF LoseCall, At
  <2>. QED
    BY <1>4, <2>1 DEF Asks, Early, ToldNo
<1>15. CASE ReadBack(a)
  <2>0. edge[a].at = "readback" /\ calls' = calls
    BY <1>15 DEF ReadBack, At
  <2>1. CASE edge[a].try = 1 /\ edge' = [edge EXCEPT ![a] = [edge[a] EXCEPT !.at = "commit", !.try = 2]]
    <3>1. LET e == [edge[a] EXCEPT !.at = "commit", !.try = 2]
          IN  e.at = "commit" /\ e.answer = edge[a].answer /\ e.try = 2
      BY DEF TypeOK, Edge
    <3>2. edge'[a].at = "commit" /\ edge'[a].answer = edge[a].answer /\ edge'[a].try = 2
      BY <1>3, <2>1, <3>1
    <3>. QED
      BY <1>4, <2>0, <2>1, <3>2 DEF Asks, Early, ToldNo
  <2>2. CASE \E answer \in {Accepted(BoundJob(a)), Answer("unavailable")} : Decide(a, answer, "release")
    <3>1. PICK answer \in {Accepted(BoundJob(a)), Answer("unavailable")} : Decide(a, answer, "release")
      BY <2>2
    <3>2. edge'[a].at = "release" /\ edge'[a].try = edge[a].try
          /\ (edge'[a].answer = edge[a].answer \/ edge'[a].answer.status \in {"accepted", "unavailable"})
      BY <1>2, <1>5, <3>1
    <3>. QED
      BY <1>6, <2>0, <3>2 DEF Asks, Early
  <2>. QED
    BY <1>15, <2>1, <2>2 DEF ReadBack
<1>16. CASE Release(a)
  <2>1. /\ edge[a].at = "release" /\ edge'[a].at = "done" /\ edge'[a].try = edge[a].try
        /\ edge'[a].answer = edge[a].answer /\ calls' = calls
    BY <1>1, <1>16 DEF Release, At
  <2>. QED
    BY <2>1 DEF Asks, Early
<1>17. CASE Crash(a)
  <2>1. /\ edge'[a].at = "done" /\ edge'[a].try = edge[a].try /\ calls' = calls
        /\ edge'[a].deadline = 0
        /\ edge'[a].answer = edge[a].answer \/ edge'[a].answer.status = "unavailable"
    BY <1>2, <1>5, <1>17 DEF Crash
  <2>. QED
    BY <1>6, <2>1 DEF Asks, Early
<1>18. CASE Abort(a)
  <2>1. calls' = calls /\ edge[a].at \notin {"idle", "release", "done"}
    BY <1>18 DEF Abort
  <2>2. CASE edge' = [edge EXCEPT ![a] = [edge[a] EXCEPT !.answer = Answer("unavailable")]]
             /\ edge[a].at \in {"reserve", "refuse"}
    <3>1. LET e == [edge[a] EXCEPT !.answer = Answer("unavailable")]
          IN  e.at = edge[a].at /\ e.answer.status = "unavailable" /\ e.try = edge[a].try
      BY <1>5 DEF TypeOK, Edge
    <3>2. edge'[a].at = edge[a].at /\ edge'[a].answer.status = "unavailable" /\ edge'[a].try = edge[a].try
      BY <1>3, <2>2, <3>1
    <3>. QED
      BY <1>6, <2>1, <2>2, <3>2 DEF Asks, Early
  <2>3. CASE Decide(a, Answer("unavailable"), IF edge[a].at \in Holding THEN "release" ELSE "done")
    <3>1. /\ edge'[a].at = (IF edge[a].at \in Holding THEN "release" ELSE "done")
          /\ edge'[a].try = edge[a].try /\ edge'[a].deadline = 0
          /\ edge'[a].answer = edge[a].answer \/ edge'[a].answer.status = "unavailable"
      BY <1>2, <1>5, <2>3
    <3>. QED
      BY <1>6, <2>1, <3>1 DEF Asks, Early, Holding
  <2>. QED
    BY <1>18, <2>2, <2>3 DEF Abort
<1>. QED
  BY <1>7, <1>8, <1>9, <1>10, <1>11, <1>12, <1>13, <1>14, <1>15, <1>16, <1>17, <1>18

\* A row that is named was there before, unless it has just been bound.
LEMMA NamedBefore ==
    ASSUME TypeOK, admissions' \in {admissions, Remembered}, now' \in {now, now + 1},
           NEW a \in Attempts, NEW b, Names(a, b)'
    PROVE  Names(a, b)
<1> DEFINE c == CapabilityOf[a]
<1>1. c \in DOMAIN admissions' /\ admissions'[c].expiresAt > now' /\ admissions'[c].job = b
  BY DEF Names
<1>2. c \in DOMAIN admissions /\ admissions'[c] = admissions[c]
  BY <1>1, RememberedRows
<1>3. now \in Nat /\ admissions[c].expiresAt \in Int
  <2>1. \A x \in DOMAIN admissions : admissions[x] \in [job : Attempts, expiresAt : Int]
    BY RowsOf DEF TypeOK
  <2>. QED
    BY <1>2, <2>1 DEF TypeOK
<1>. QED
  BY <1>1, <1>2, <1>3 DEF Names

\* A row that is named is found, and is that of a committed job.
LEMMA NamedIsFound ==
    ASSUME TypeOK, RowsGood, NEW a \in Attempts, NEW b, Names(a, b)
    PROVE  Found(a) /\ b \in Attempts /\ Committed(b) /\ SameCapability(a, b)
<1>1. \A x \in DOMAIN admissions : admissions[x] \in [job : Attempts, expiresAt : Int]
  BY RowsOf DEF TypeOK
<1>. QED
  BY <1>1, RememberedRows DEF Names, Found, RowsGood, SameCapability

\* No isolate changes what it was told, or asks for a commit after a no.
LEMMA IsolateTells ==
    ASSUME Inv, ReplayInv, NoInv, NEW a \in Attempts, Moved(a), Asks(a),
           \/ Arrive(a) \/ FindCommitted(a) \/ Reserve(a) \/ Gate(a) \/ GateFails(a)
           \/ Prepare(a) \/ RecordRefusal(a) \/ SendCommit(a) \/ LoseCall(a) \/ ReadBack(a)
           \/ Release(a) \/ Abort(a) \/ Crash(a)
    PROVE  NoInv' /\ \A x \in Attempts : NoStep(x)
<1>0. TypeOK
  BY DEF Inv
<1>1. /\ now' = now /\ admissions' \in {admissions, Remembered}
      /\ \A b \in Attempts : /\ past'[b].committedAt = past[b].committedAt
                             /\ past'[b].lapsesAt = past[b].lapsesAt
      /\ \A call \in calls' \ calls : call.attempt = a /\ call.deadline = edge[a].deadline
  BY <1>0, IsolateLeaves
<1>2. \A b \in Attempts : Committed(b)' <=> Committed(b)
  BY <1>1 DEF Committed
<1>3. calls \subseteq calls' /\ \A call \in calls' : call \in calls \/ call.attempt = a
  BY <1>1 DEF Asks
<1>4. \A b \in Attempts \ {a} : edge'[b] = edge[b] /\ CallsOf(b)' = CallsOf(b)
  BY <1>3 DEF Moved, CallsOf
<1>5. /\ \A call \in calls : call.try \in {1, 2} /\ call.deadline \in Int
      /\ \A b \in Attempts : edge[b].try \in {1, 2} /\ past[b].lapsesAt \in Int /\ edge[b].deadline \in Int
      /\ MAX_LEAD \in Nat
  BY <1>0, Constants DEF TypeOK, Call, Edge, Past
<1>6. CallsGood(a) /\ NoGood(a)
  BY DEF NoInv
<1>7. calls' # calls => edge[a].at = "commit" /\ edge'[a].at = "await" /\ ~ToldNo(a)'
  BY DEF Asks
<1>8. edge[a].at \in Early => CallsOf(a)' = {} /\ ~Committed(a)
  <2>1. edge[a].at \in Early => calls' = calls
    BY <1>7 DEF Early
  <2>. QED
    BY <1>6, <2>1 DEF CallsGood, CallsOf
<1>9. CallsGood(a)'
  <2>1. edge'[a].at \in Early => edge'[a].try = 1
    BY <1>6 DEF Asks, CallsGood, Early
  <2>2. edge'[a].at \in Early \/ (edge'[a].at = "commit" /\ edge'[a].try = 1) =>
          CallsOf(a)' = {} /\ ~Committed(a)'
    <3>1. edge'[a].at \in Early \/ (edge'[a].at = "commit" /\ edge'[a].try = 1) => edge[a].at \in Early
      BY DEF Asks, Early
    <3>. QED
      BY <1>2, <1>8, <3>1
  <2>3. CASE calls' = calls
    <3>1. CallsOf(a)' = CallsOf(a)
      BY <2>3 DEF CallsOf
    <3>2. ASSUME NEW call \in CallsOf(a)
          PROVE  call.try <= edge'[a].try /\ (edge'[a].at = "commit" => call.try < edge'[a].try)
      <4>1. call.try \in {1, 2} /\ call.try <= edge[a].try
        BY <1>5, <1>6 DEF CallsGood, CallsOf
      <4>2. edge[a].at # "prepare"
        BY <1>6 DEF CallsGood, Early
      <4>. QED
        BY <1>5, <4>1, <4>2 DEF Asks
    <3>. QED
      BY <1>6, <2>1, <2>2, <3>1, <3>2 DEF CallsGood
  <2>4. CASE calls' # calls
    <3>1. PICK new : calls' = calls \cup {new} /\ new.try = edge[a].try
                     /\ new.attempt = a /\ new.deadline = edge[a].deadline
      BY <2>4 DEF Asks
    <3>2. edge[a].at = "commit" /\ edge'[a].at = "await" /\ edge'[a].try = edge[a].try
      BY <1>7, <2>4 DEF Asks
    <3>3. \A call \in CallsOf(a)' : call \in CallsOf(a) \/ call = new
      BY <3>1 DEF CallsOf
    <3>4. \A call \in CallsOf(a) : call.try \in {1, 2} /\ call.try < edge[a].try
      BY <1>5, <1>6, <3>2 DEF CallsGood, CallsOf
    <3>5. \A call \in CallsOf(a)' : call.try <= edge'[a].try
      BY <1>5, <3>1, <3>2, <3>3, <3>4
    <3>6. \A call, other \in CallsOf(a)' : call.try = other.try => call = other
      <4>1. \A call, other \in CallsOf(a) : call.try = other.try => call = other
        BY <1>6 DEF CallsGood
      <4>2. \A call \in CallsOf(a) : call.try # new.try
        BY <1>5, <3>1, <3>4
      <4>. QED
        BY <3>3, <4>1, <4>2
    <3>. QED
      BY <2>1, <2>2, <3>2, <3>5, <3>6 DEF CallsGood
  <2>. QED
    BY <2>3, <2>4
<1>10. ToldNo(a)' => /\ edge'[a].at \in {"release", "done"}
                     /\ CallsOf(a)' = CallsOf(a)
                     /\ \/ edge[a].at \in Early
                        \/ ToldNo(a) /\ edge'[a].answer = edge[a].answer /\ edge'[a].try = edge[a].try
  BY <1>7 DEF Asks, ToldNo, CallsOf
<1>11. NoGood(a)'
  <2>1. CASE edge[a].at \in Early
    BY <1>2, <1>8, <1>10, <2>1 DEF NoGood
  <2>2. CASE edge[a].at \notin Early /\ ToldNo(a)'
    <3>1. /\ ToldNo(a) /\ edge'[a].answer = edge[a].answer /\ edge'[a].try = edge[a].try
          /\ edge'[a].at \in {"release", "done"} /\ CallsOf(a)' = CallsOf(a)
      BY <1>10, <2>2
    <3>2. CASE CallsOf(a) = {} /\ ~Committed(a)
      BY <1>2, <3>1, <3>2 DEF NoGood
    <3>3. CASE edge[a].answer.status = "rate-limited" /\ edge[a].try = 2
      BY <3>1, <3>3 DEF NoGood
    <3>4. ASSUME ~Committed(a), NEW b \in Attempts, SameCapability(a, b), Committed(b),
                 \A call \in CallsOf(a) : call.deadline + MAX_LEAD <= past[b].lapsesAt
          PROVE  NoGood(a)'
      <4>1. /\ SameCapability(a, b)' /\ Committed(b)' /\ ~Committed(a)'
            /\ \A call \in CallsOf(a)' : call.deadline + MAX_LEAD <= past'[b].lapsesAt
        BY <1>1, <1>2, <3>1, <3>4 DEF SameCapability
      <4>. QED
        BY <3>1, <4>1 DEF NoGood
    <3>. QED
      BY <1>6, <3>1, <3>2, <3>3, <3>4 DEF NoGood
  <2>. QED
    BY <2>1, <2>2 DEF NoGood
<1>12. ASSUME NEW b \in Attempts \ {a}
       PROVE  CallsGood(b)' /\ NoGood(b)'
  <2>1. /\ edge'[b] = edge[b] /\ CallsOf(b)' = CallsOf(b) /\ CallsGood(b) /\ NoGood(b)
        /\ (ToldNo(b)' <=> ToldNo(b))
    BY <1>4 DEF NoInv, ToldNo
  <2>2. CallsGood(b)'
    BY <1>2, <2>1 DEF CallsGood
  <2>3. CASE ToldNo(b) /\ \E x \in Attempts :
               /\ SameCapability(b, x) /\ Committed(x)
               /\ \A call \in CallsOf(b) : call.deadline + MAX_LEAD <= past[x].lapsesAt
    <3>1. PICK x \in Attempts :
               /\ SameCapability(b, x) /\ Committed(x)
               /\ \A call \in CallsOf(b) : call.deadline + MAX_LEAD <= past[x].lapsesAt
      BY <2>3
    <3>2. /\ SameCapability(b, x)' /\ Committed(x)' /\ (Committed(b)' <=> Committed(b))
          /\ \A call \in CallsOf(b)' : call.deadline + MAX_LEAD <= past'[x].lapsesAt
      BY <1>1, <1>2, <2>1, <3>1 DEF SameCapability
    <3>. QED
      BY <2>1, <2>2, <3>2 DEF NoGood
  <2>4. Committed(b)' <=> Committed(b)
    BY <1>2
  <2>. QED
    BY <2>1, <2>2, <2>3, <2>4 DEF NoGood
<1>13. ASSUME NEW x \in Attempts, NEW b \in Attempts, edge'[x].at \notin {"idle", "find"}, Names(x, b)'
       PROVE  Outlives(b, x)'
  <2>1. Names(x, b)
    BY <1>0, <1>1, <1>13, NamedBefore
  <2>2. Found(x) /\ Committed(b)
    BY <1>0, <2>1, NamedIsFound DEF ReplayInv
  <2>3. past'[b].lapsesAt = past[b].lapsesAt /\ MAX_LEAD <= past[b].lapsesAt
    BY <1>1, <2>2 DEF ReplayInv, Spent
  <2>4. CASE x # a
    <3>1. edge'[x] = edge[x] /\ CallsOf(x)' = CallsOf(x) /\ Outlives(b, x)
      BY <1>4, <1>13, <2>1, <2>4 DEF NoInv, Dated
    <3>. QED
      BY <2>3, <3>1 DEF Outlives
  <2>5. CASE x = a /\ edge[a].at \notin {"idle", "find"}
    <3>1. Outlives(b, a)
      BY <2>1, <2>5 DEF NoInv, Dated
    <3>2. ~Arrive(a)
      BY <2>5 DEF Arrive, At
    <3>3. edge'[a].deadline + MAX_LEAD <= past[b].lapsesAt
      BY <1>5, <2>3, <3>1, <3>2 DEF Moved, Outlives
    <3>4. \A call \in CallsOf(a)' : call.deadline + MAX_LEAD <= past[b].lapsesAt
      BY <1>1, <3>1 DEF Outlives, CallsOf
    <3>. QED
      BY <2>3, <2>5, <3>3, <3>4 DEF Outlives
  <2>6. CASE x = a /\ edge[a].at \in {"idle", "find"}
    <3>1. edge'[a].deadline = 0
      BY <1>13, <2>2, <2>6 DEF Asks
    <3>2. CallsOf(a)' = {}
      BY <1>8, <2>6 DEF Early
    <3>. QED
      BY <1>5, <2>3, <2>6, <3>1, <3>2 DEF Outlives
  <2>. QED
    BY <2>4, <2>5, <2>6
<1>14. NoInv'
  <2>1. \A x \in Attempts : CallsGood(x)' /\ NoGood(x)'
    BY <1>9, <1>11, <1>12
  <2>2. \A x, b \in Attempts : Dated(x, b)'
    BY <1>13 DEF Dated
  <2>. QED
    BY <2>1, <2>2 DEF NoInv
<1>15. ASSUME NEW x \in Attempts
       PROVE  NoStep(x)
  <2>1. NoGood(x) /\ (Committed(x)' <=> Committed(x))
    BY <1>2 DEF NoInv
  <2>2. CASE x # a
    <3>1. ToldNo(x)' <=> ToldNo(x)
      BY <1>4, <2>2 DEF ToldNo
    <3>. QED
      BY <2>1, <3>1 DEF NoStep, NoGood
  <2>3. CASE x = a
    BY <1>8, <1>10, <2>1, <2>3 DEF NoStep, NoGood
  <2>. QED
    BY <2>2, <2>3
<1>. QED
  BY <1>14, <1>15

\* What a call tells its caller when it ends: a no only for one of two reasons.
Heard(call, answer) ==
    LET a == call.attempt
    IN /\ edge[a].at = "await" /\ edge[a].try = call.try /\ calls' = calls \ {call}
       /\ \A b \in Attempts \ {a} : edge'[b] = edge[b]
       /\ edge'[a].at \in {"readback", "release"} /\ edge'[a].try = edge[a].try
       /\ edge'[a].deadline \in {0, edge[a].deadline}
       /\ ToldNo(a)' => /\ edge'[a].at = "release" /\ edge'[a].answer = answer
                        /\ answer.status \notin {"none", "accepted", "unavailable", "refused",
                                                 "expired", "unknown"}

\* The end of a call is heard so, or not at all.
LEMMA EndIsHeard ==
    ASSUME TypeOK, NEW call \in calls, NEW answer, Finish(call, answer),
           edge[call.attempt].at = "await" => ~ToldNo(call.attempt)
    PROVE  calls' = calls \ {call} /\ (edge' = edge \/ Heard(call, answer))
<1> DEFINE a == call.attempt
<1>1. calls' = calls \ {call} /\ a \in Attempts
  BY DEF Finish, TypeOK, Call
<1>2. CASE edge[a].at = "await" /\ edge[a].try = call.try /\ Go(a, "readback")
  <2>1. /\ \A b \in Attempts \ {a} : edge'[b] = edge[b]
        /\ edge'[a].at = "readback" /\ edge'[a].deadline = edge[a].deadline
        /\ edge'[a].answer = edge[a].answer /\ edge'[a].try = edge[a].try
    BY <1>1, <1>2, GoesOn
  <2>2. ~ToldNo(a)'
    BY <1>2, <2>1 DEF ToldNo
  <2>. HIDE DEF ToldNo
  <2>. QED
    BY <1>1, <1>2, <2>1, <2>2 DEF Heard
<1>3. ASSUME edge[a].at = "await", edge[a].try = call.try, answer.status # "unknown",
             Decide(a, IF answer.status \in {"refused", "expired"} THEN Answer("unavailable")
                       ELSE answer, "release")
      PROVE  Heard(call, answer)
  <2> DEFINE told == IF answer.status \in {"refused", "expired"} THEN Answer("unavailable") ELSE answer
  <2>1. /\ \A b \in Attempts \ {a} : edge'[b] = edge[b]
        /\ edge'[a].at = "release" /\ edge'[a].deadline = 0 /\ edge'[a].try = edge[a].try
        /\ edge'[a].answer = IF edge[a].answer.status = "none" THEN told ELSE edge[a].answer
    BY <1>1, <1>3, IsAnswered
  <2>2. ~ToldNo(a)
    BY <1>3
  <2>3. ASSUME ToldNo(a)'
        PROVE  edge'[a].answer = answer /\ answer.status \notin {"none", "accepted", "unavailable",
                                                 "refused", "expired", "unknown"}
    <3>1. edge'[a].answer = told
      BY <2>1, <2>2, <2>3 DEF ToldNo
    <3>2. told.status \notin {"none", "accepted", "unavailable"}
      BY <2>3, <3>1 DEF ToldNo
    <3>3. answer.status \notin {"refused", "expired"}
      BY <3>2 DEF Answer
    <3>. QED
      BY <1>3, <3>1, <3>2, <3>3
  <2>. HIDE DEF ToldNo
  <2>. QED
    BY <1>1, <1>3, <2>1, <2>3 DEF Heard
<1>4. CASE edge[a].at = "await" /\ edge[a].try = call.try
  <2>1. Conclude(a, answer) \/ Conclude(a, Answer("unknown"))
    BY <1>4 DEF Finish, At
  <2>2. Answer("unknown").status = "unknown"
    BY DEF Answer
  <2>3. \/ Go(a, "readback")
        \/ /\ answer.status # "unknown"
           /\ Decide(a, IF answer.status \in {"refused", "expired"} THEN Answer("unavailable")
                        ELSE answer, "release")
    BY <2>1, <2>2 DEF Conclude
  <2>. QED
    BY <1>1, <1>2, <1>3, <1>4, <2>3
<1>. QED
  BY <1>1, <1>4 DEF Finish, At

\* Over quota, or another request under the capability: the two noes of a call.
Denied(call) ==
    LET a == call.attempt
    IN /\ past' = past
       /\ \/ Standing(call).status = "conflict"
          \/ Standing(call).status = "none" /\ edge'[a].answer.status = "rate-limited"

Ends(call) ==
    /\ \/ calls' = calls \ {call}
       \/ \E next : /\ calls' = (calls \ {call}) \cup {next} /\ next.attempt = call.attempt
                    /\ next.try = call.try /\ next.deadline = call.deadline
    /\ \/ edge' = edge
       \/ \E answer : Heard(call, answer) /\ (ToldNo(call.attempt)' => Denied(call))

\* Every call ends so.
LEMMA CallsEnd ==
    ASSUME Inv, NoInv, NEW call \in calls,
           Preflight(call) \/ CommitAdmission(call) \/ CallDies(call)
    PROVE  Ends(call)
<1> DEFINE a == call.attempt
<1>1. TypeOK /\ a \in Attempts
  BY DEF Inv, TypeOK, Call
<1>2. edge[a].at = "await" => ~ToldNo(a)
  BY <1>1 DEF NoInv, NoGood
<1>3. ASSUME NEW answer, Finish(call, answer),
             \/ answer.status \in {"none", "accepted", "unavailable", "refused", "expired", "unknown"}
             \/ past' = past /\ answer.status = "conflict" /\ Standing(call).status = "conflict"
             \/ past' = past /\ answer.status = "rate-limited" /\ Standing(call).status = "none"
      PROVE  Ends(call)
  <2>1. calls' = calls \ {call} /\ (edge' = edge \/ Heard(call, answer))
    BY <1>1, <1>2, <1>3, EndIsHeard
  <2>2. Heard(call, answer) /\ ToldNo(a)' => Denied(call)
    BY <1>3 DEF Heard, Denied
  <2>. QED
    BY <2>1, <2>2 DEF Ends
<1>4. /\ Answer("refused").status = "refused" /\ Answer("unknown").status = "unknown"
      /\ Answer("rate-limited").status = "rate-limited" /\ Accepted(a).status = "accepted"
  BY DEF Answer, Accepted
<1>5. Standing(call).status \in {"expired", "accepted", "conflict", "none"}
  <2>1. /\ Answer("expired").status = "expired" /\ Answer("conflict").status = "conflict"
        /\ Answer("none").status = "none" /\ \A job : Accepted(job).status = "accepted"
    BY DEF Answer, Accepted
  <2>. HIDE DEF a
  <2>2. Standing(call) \in {Answer("expired"), Answer("conflict"), Answer("none"), Accepted(BoundJob(call.attempt))}
    BY DEF Standing
  <2>. QED
    BY <2>1, <2>2
<1>6. CASE Preflight(call)
  <2>1. past' = past
    BY <1>6 DEF Preflight
  <2>2. ASSUME edge' = edge, calls' = (calls \ {call}) \union {[call EXCEPT !.stage = "commit"]}
        PROVE  Ends(call)
    <3>1. LET next == [call EXCEPT !.stage = "commit"]
          IN  next.attempt = call.attempt /\ next.try = call.try /\ next.deadline = call.deadline
      BY <1>1 DEF TypeOK, Call
    <3>. QED
      BY <2>2, <3>1 DEF Ends
  <2>3. \/ Standing(call).status # "none" /\ Finish(call, Standing(call))
        \/ Finish(call, Answer("refused"))
        \/ Standing(call).status = "none" /\ Finish(call, Answer("rate-limited"))
        \/ edge' = edge /\ calls' = (calls \ {call}) \union {[call EXCEPT !.stage = "commit"]}
    BY <1>6 DEF Preflight
  <2>. QED
    BY <1>3, <1>4, <1>5, <2>1, <2>2, <2>3
<1>7. CASE CommitAdmission(call)
  <2>1. \/ past' = past /\ Standing(call).status # "none" /\ Finish(call, Standing(call))
        \/ past' = past /\ Standing(call).status = "none" /\ Finish(call, Answer("rate-limited"))
        \/ Finish(call, Answer("refused"))
        \/ Finish(call, Accepted(a))
    BY <1>7 DEF CommitAdmission
  <2>. QED
    BY <1>3, <1>4, <1>5, <2>1
<1>8. CASE CallDies(call)
  BY <1>3, <1>4, <1>8 DEF CallDies
<1>. QED
  BY <1>6, <1>7, <1>8

\* A job that was bound after an attempt's lookup is still found by that attempt's calls.
LEMMA StillFound ==
    ASSUME Inv, NEW call \in calls, now < call.deadline, NEW b \in Attempts,
           SameCapability(call.attempt, b), Committed(b), call.deadline + MAX_LEAD <= past[b].lapsesAt
    PROVE  Found(call.attempt) /\ BoundJob(call.attempt) = b
<1> DEFINE c == CapabilityOf[b]
<1>1. /\ TypeOK /\ now \in Nat /\ MAX_LEAD \in Nat /\ call.deadline \in Int /\ past[b].lapsesAt \in Int
  BY Constants DEF Inv, TypeOK, Call, Past
<1>2. now + MAX_LEAD < past[b].lapsesAt
  BY <1>1
<1>3. c \in DOMAIN admissions /\ admissions[c].job = b /\ admissions[c].expiresAt > now
  <2>1. /\ c \in DOMAIN admissions
        /\ admissions[c] = [job |-> b, expiresAt |-> past[b].lapsesAt]
    BY <1>2 DEF Inv, Bound
  <2>. QED
    BY <1>1, <1>2, <2>1
<1>. QED
  BY <1>1, <1>3, RememberedRows DEF Found, BoundJob, SameCapability

\* What a transaction can still do for the call it finds in time.
LEMMA StandingSays ==
    ASSUME Inv, ReplayInv, NEW call \in calls, Standing(call).status \in {"none", "conflict"}
    PROVE  /\ now < call.deadline /\ ~Committed(call.attempt)
           /\ Standing(call).status = "none" =>
                \A b \in Attempts : SameCapability(call.attempt, b) /\ Committed(b) =>
                                      ~(call.deadline + MAX_LEAD <= past[b].lapsesAt)
           /\ Standing(call).status = "conflict" => Names(call.attempt, BoundJob(call.attempt))
<1> DEFINE a == call.attempt
<1>0. TypeOK /\ a \in Attempts /\ now \in Nat /\ call.deadline \in Int
  BY DEF Inv, TypeOK, Call
<1>1. /\ Answer("expired").status = "expired" /\ Answer("conflict").status = "conflict"
      /\ Answer("none").status = "none" /\ \A job : Accepted(job).status = "accepted"
  BY DEF Answer, Accepted
<1>2. /\ now < call.deadline
      /\ Standing(call).status = "none" => ~Found(a)
      /\ Standing(call).status = "conflict" => Found(a) /\ ~Matches(a)
  <2>1. ~(now >= call.deadline)
    BY <1>1 DEF Standing
  <2>2. Standing(call) = CASE Found(a) /\ Matches(a)  -> Accepted(BoundJob(a))
                           [] Found(a) /\ ~Matches(a) -> Answer("conflict")
                           [] OTHER                   -> Answer("none")
    BY <2>1 DEF Standing
  <2>3. CASE Found(a) /\ Matches(a)
    BY <1>0, <1>1, <2>1, <2>2, <2>3
  <2>4. CASE Found(a) /\ ~Matches(a)
    BY <1>0, <1>1, <2>1, <2>2, <2>4
  <2>5. CASE ~Found(a)
    BY <1>0, <1>1, <2>1, <2>2, <2>5
  <2>. QED
    BY <2>3, <2>4, <2>5
<1>3. ~Committed(a)
  <2>1. SUFFICES ASSUME Committed(a)  PROVE FALSE
    OBVIOUS
  <2>2. call.deadline + MAX_LEAD <= past[a].lapsesAt
    BY <1>0, <2>1 DEF ReplayInv, Spent
  <2>3. Found(a) /\ BoundJob(a) = a
    BY <1>0, <1>2, <2>1, <2>2, StillFound DEF SameCapability
  <2>. QED
    BY <1>2, <2>3 DEF Matches
<1>4. Standing(call).status = "conflict" => Names(a, BoundJob(a))
  BY <1>0, <1>2, RememberedRows DEF Found, BoundJob, Names
<1>5. ASSUME Standing(call).status = "none", NEW b \in Attempts, SameCapability(a, b), Committed(b),
             call.deadline + MAX_LEAD <= past[b].lapsesAt
      PROVE  FALSE
  BY <1>2, <1>5, StillFound
<1>. QED
  BY <1>2, <1>3, <1>4, <1>5

\* What a commit makes the rows name.
LEMMA CommitNames ==
    ASSUME TypeOK, NEW call \in calls, now' = now,
           admissions' = Put(RememberedAt(call.admittedAt), CapabilityOf[call.attempt],
                             [job |-> call.attempt, expiresAt |-> call.admittedAt + TTL]),
           NEW a \in Attempts, NEW b
    PROVE  Names(a, b)' => b = call.attempt \/ Names(a, b)
<1> DEFINE d == CapabilityOf[a]
           c == CapabilityOf[call.attempt]
           kept == RememberedAt(call.admittedAt)
           row == [job |-> call.attempt, expiresAt |-> call.admittedAt + TTL]
           rows == [job : Attempts, expiresAt : Int]
<1>1. /\ kept \in Table(rows) /\ c \in Capabilities /\ row \in rows
      /\ admissions' = Put(kept, c, row)
      /\ \A x \in DOMAIN kept : x \in DOMAIN admissions /\ kept[x] = admissions[x]
  <2>1. /\ call.attempt \in Attempts /\ call.admittedAt \in Int /\ c \in Capabilities
        /\ call.admittedAt + TTL \in Int
    BY Constants DEF TypeOK, Call
  <2>. QED
    BY <2>1, RememberedRows, RememberedAtRows
<1>2. Names(a, b)' => d \in DOMAIN admissions' /\ admissions'[d].expiresAt > now /\ admissions'[d].job = b
  BY DEF Names
<1>3. row.job = call.attempt
  OBVIOUS
<1> HIDE DEF kept, c, row, rows
<1>4. /\ DOMAIN Put(kept, c, row) = DOMAIN kept \cup {c}
      /\ Put(kept, c, row)[c] = row
      /\ \A x \in DOMAIN kept \ {c} : Put(kept, c, row)[x] = kept[x]
  BY DEF Put
<1>5. CASE d = c
  BY <1>1, <1>2, <1>3, <1>4, <1>5
<1>6. CASE d # c
  BY <1>1, <1>2, <1>4, <1>6 DEF Names
<1>. QED
  BY <1>5, <1>6

\* No call is told no and commits, or commits after a no.
LEMMA CallTells ==
    ASSUME Inv, ReplayInv, NoInv, NEW call \in calls,
           Preflight(call) \/ CommitAdmission(call) \/ CallDies(call)
    PROVE  NoInv' /\ \A x \in Attempts : NoStep(x)
<1> DEFINE a == call.attempt
           Commit == /\ Standing(call).status = "none" /\ WithinSkew(call)
                     /\ admissions' = Put(RememberedAt(call.admittedAt), CapabilityOf[a],
                                          [job |-> a, expiresAt |-> call.admittedAt + TTL])
                     /\ past' = [past EXCEPT ![a].committedAt = now,
                                             ![a].lapsesAt = call.admittedAt + TTL]
<1>0. /\ TypeOK /\ a \in Attempts /\ call \in CallsOf(a)
      /\ \A next \in calls : next.try \in {1, 2} /\ next.deadline \in Int
      /\ \A b \in Attempts : edge[b].try \in {1, 2} /\ past[b].lapsesAt \in Int /\ edge[b].deadline \in Int
      /\ MAX_LEAD \in Nat /\ Horizon \in Int
  BY Constants DEF Inv, TypeOK, Call, Edge, Past, CallsOf, Horizon
<1>1. /\ Ends(call) /\ now' = now
      /\ (admissions' \in {admissions, Remembered} /\ past' = past) \/ Commit
  BY <1>0, CallsEnd, CallsLeave DEF Left
<1>2. Commit => /\ Committed(a)' /\ ~Committed(a)
                /\ past'[a].lapsesAt >= Horizon + MAX_LEAD
                /\ \A b \in Attempts \ {a} : past'[b] = past[b]
  BY Commits
<1>3. /\ \A b \in Attempts : Committed(b) => Committed(b)' /\ past'[b].lapsesAt = past[b].lapsesAt
      /\ \A b \in Attempts : Committed(b)' => Committed(b) \/ (b = a /\ Commit)
      /\ \A b \in Attempts : Committed(b)' => past'[b].lapsesAt \in Int
  <2>1. past' \in [Attempts -> Past]
    BY InvNext, <1>0 DEF Next, Inv, TypeOK
  <2>2. \A b \in Attempts : past'[b].lapsesAt \in Int
    BY <2>1 DEF Past
  <2>3. CASE past' = past
    BY <2>2, <2>3 DEF Committed
  <2>4. CASE Commit
    BY <1>2, <2>2, <2>4 DEF Committed
  <2>. QED
    BY <1>1, <2>3, <2>4
<1> HIDE DEF Commit
<1>4. /\ \A next \in calls' : \/ next \in calls /\ next # call
                              \/ next.attempt = a /\ next.try = call.try /\ next.deadline = call.deadline
      /\ \A next, other \in calls' \ (calls \ {call}) : next = other
  BY <1>1 DEF Ends
<1>5. \A b \in Attempts \ {a} : edge'[b] = edge[b] /\ CallsOf(b)' = CallsOf(b)
  <2>1. \A b \in Attempts \ {a} : edge'[b] = edge[b]
    BY <1>1 DEF Ends, Heard
  <2>2. calls \ {call} \subseteq calls'
    BY <1>1 DEF Ends
  <2>. QED
    BY <1>4, <2>1, <2>2 DEF CallsOf
<1>6. CallsGood(a) /\ NoGood(a)
  BY <1>0 DEF NoInv
<1>7. /\ edge[a].at \notin Early /\ ~(edge[a].at = "commit" /\ edge[a].try = 1)
      /\ edge'[a] = edge[a] \/ edge'[a].at \in {"readback", "release"}
      /\ edge'[a].try = edge[a].try /\ edge'[a].deadline \in {0, edge[a].deadline}
  BY <1>0, <1>1, <1>6 DEF CallsGood, Ends, Heard
<1>8. CallsGood(a)'
  <2>1. edge'[a].at \notin Early /\ ~(edge'[a].at = "commit" /\ edge'[a].try = 1)
    BY <1>7 DEF Early
  <2>2. \A next \in CallsOf(a)' : next.try <= edge'[a].try /\ (edge'[a].at = "commit" => next.try < edge'[a].try)
    <3>1. ASSUME NEW next \in CallsOf(a)'
          PROVE  \E old \in CallsOf(a) : old.try = next.try
      BY <1>0, <1>4, <3>1 DEF CallsOf
    <3>2. \A old \in CallsOf(a) : old.try <= edge'[a].try /\ (edge'[a].at = "commit" => old.try < edge'[a].try)
      BY <1>6, <1>7 DEF CallsGood
    <3>. QED
      BY <3>1, <3>2
  <2>3. ASSUME NEW next \in CallsOf(a)', NEW other \in CallsOf(a)', next.try = other.try
        PROVE  next = other
    <3>1. \A old \in CallsOf(a) : old.try = call.try => old = call
      BY <1>0, <1>6 DEF CallsGood
    <3>2. CASE next \in calls \ {call} /\ other \in calls \ {call}
      <4>1. next \in CallsOf(a) /\ other \in CallsOf(a)
        BY <2>3, <3>2 DEF CallsOf
      <4>. QED
        BY <1>6, <2>3, <4>1 DEF CallsGood
    <3>3. CASE next \notin calls \ {call} /\ other \notin calls \ {call}
      BY <1>4, <2>3, <3>3 DEF CallsOf
    <3>4. ASSUME NEW one \in CallsOf(a)', NEW two \in CallsOf(a)', one \in calls \ {call},
                 two \notin calls \ {call}, one.try = two.try
          PROVE  FALSE
      <4>1. one \in CallsOf(a) /\ two.try = call.try
        BY <1>4, <3>4 DEF CallsOf
      <4>. QED
        BY <3>1, <3>4, <4>1
    <3>. QED
      BY <2>3, <3>2, <3>3, <3>4
  <2>. QED
    BY <2>1, <2>2, <2>3 DEF CallsGood
<1>9. \A next \in CallsOf(a)' : \E old \in CallsOf(a) : next.deadline = old.deadline
  BY <1>0, <1>4 DEF CallsOf
<1>10. ASSUME NEW b \in Attempts, SameCapability(a, b), Committed(b), ~Committed(a),
              \A old \in CallsOf(a) : old.deadline + MAX_LEAD <= past[b].lapsesAt
       PROVE  /\ ~Committed(a)'
              /\ SameCapability(a, b)' /\ Committed(b)'
              /\ \A next \in CallsOf(a)' : next.deadline + MAX_LEAD <= past'[b].lapsesAt
  <2>1. ~Commit
    BY <1>0, <1>10, StandingSays DEF Commit
  <2>2. past'[b].lapsesAt = past[b].lapsesAt /\ Committed(b)' /\ ~Committed(a)'
    BY <1>0, <1>3, <1>10, <2>1
  <2>3. \A next \in CallsOf(a)' : next.deadline + MAX_LEAD <= past[b].lapsesAt
    BY <1>9, <1>10
  <2>. QED
    BY <1>10, <2>2, <2>3 DEF SameCapability
<1>11. ASSUME edge'[a] = edge[a]
       PROVE  NoGood(a)' /\ NoStep(a)
  <2>1. ToldNo(a)' <=> ToldNo(a)
    BY <1>11 DEF ToldNo
  <2>2. ASSUME ~ToldNo(a)  PROVE NoGood(a)'
    BY <2>1, <2>2 DEF NoGood
  <2>3. ASSUME ToldNo(a), edge[a].answer.status = "rate-limited", edge[a].try = 2
        PROVE  NoGood(a)'
    BY <1>6, <1>11, <2>3 DEF NoGood
  <2>4. ASSUME ToldNo(a), ~Committed(a), NEW b \in Attempts, SameCapability(a, b), Committed(b),
               \A old \in CallsOf(a) : old.deadline + MAX_LEAD <= past[b].lapsesAt
        PROVE  NoGood(a)'
    <3>1. edge'[a].at \in {"release", "done"}
      BY <1>6, <1>11, <2>4 DEF NoGood
    <3>. QED
      BY <1>10, <2>4, <3>1 DEF NoGood
  <2>5. NoGood(a)'
    BY <1>0, <1>6, <2>2, <2>3, <2>4 DEF NoGood
  <2>6. NoStep(a)
    <3>1. CASE ToldNo(a)' /\ Committed(a)'
      BY <1>11, <2>1, <2>5, <3>1 DEF NoGood, NoStep
    <3>. QED
      BY <3>1 DEF NoStep
  <2>. QED
    BY <2>5, <2>6
<1>12. ASSUME edge' # edge, ToldNo(a)'
       PROVE  /\ past' = past /\ calls' = calls \ {call} /\ edge[a].try = call.try
              /\ edge'[a].at = "release"
              /\ \/ Standing(call).status = "conflict"
                 \/ Standing(call).status = "none" /\ edge'[a].answer.status = "rate-limited"
  <2>1. PICK answer : Heard(call, answer) /\ Denied(call)
    BY <1>1, <1>12 DEF Ends
  <2>. QED
    BY <1>12, <2>1 DEF Heard, Denied
<1>13. ASSUME edge' # edge
       PROVE  NoGood(a)' /\ NoStep(a)
  <2>1. ASSUME ToldNo(a)'
        PROVE  ~Committed(a)' /\ NoGood(a)'
    <3>1. ~Committed(a)
      BY <1>12, <1>13, <2>1, StandingSays
    <3>2. ~Committed(a)' /\ edge'[a].at = "release"
      BY <1>12, <1>13, <2>1, <3>1 DEF Committed
    <3>3. CASE Standing(call).status = "conflict"
      <4>1. PICK b : b = BoundJob(a) /\ Names(a, b)
        BY <3>3, StandingSays
      <4>2. b \in Attempts /\ Committed(b) /\ SameCapability(a, b)
        BY <1>0, <4>1, NamedIsFound DEF ReplayInv
      <4>3. \A old \in CallsOf(a) : old.deadline + MAX_LEAD <= past[b].lapsesAt
        BY <1>0, <1>7, <4>1, <4>2 DEF NoInv, Dated, Outlives, Early
      <4>4. /\ SameCapability(a, b)' /\ Committed(b)'
            /\ \A next \in CallsOf(a)' : next.deadline + MAX_LEAD <= past'[b].lapsesAt
        BY <1>10, <3>1, <4>2, <4>3
      <4>. QED
        BY <3>2, <4>2, <4>4 DEF NoGood
    <3>4. CASE edge'[a].answer.status = "rate-limited"
      <4>1. CASE edge[a].try = 2
        BY <1>7, <3>2, <3>4, <4>1 DEF NoGood
      <4>2. CASE edge[a].try = 1
        <5>1. \A old \in CallsOf(a) : old.try = 1
          BY <1>0, <1>6, <4>2 DEF CallsGood, CallsOf
        <5>2. \A old \in CallsOf(a) : old = call
          BY <1>0, <1>6, <1>12, <1>13, <2>1, <4>2, <5>1 DEF CallsGood
        <5>3. CallsOf(a)' = {}
          BY <1>12, <1>13, <2>1, <5>2 DEF CallsOf
        <5>. QED
          BY <3>2, <5>3 DEF NoGood
      <4>. QED
        BY <1>0, <4>1, <4>2
    <3>. QED
      BY <1>12, <1>13, <2>1, <3>2, <3>3, <3>4
  <2>. QED
    BY <2>1 DEF NoGood, NoStep
<1>14. ASSUME NEW b \in Attempts \ {a}
       PROVE  CallsGood(b)' /\ NoGood(b)' /\ NoStep(b)
  <2>1. /\ edge'[b] = edge[b] /\ CallsOf(b)' = CallsOf(b) /\ CallsGood(b) /\ NoGood(b)
        /\ (ToldNo(b)' <=> ToldNo(b)) /\ (Committed(b)' <=> Committed(b))
    BY <1>3, <1>5 DEF NoInv, ToldNo
  <2>2. CallsGood(b)'
    BY <2>1 DEF CallsGood
  <2>3. ASSUME ToldNo(b), ~Committed(b),
               \E x \in Attempts :
                  /\ SameCapability(b, x) /\ Committed(x)
                  /\ \A next \in CallsOf(b) : next.deadline + MAX_LEAD <= past[x].lapsesAt
        PROVE  NoGood(b)'
    <3>1. PICK x \in Attempts :
               /\ SameCapability(b, x) /\ Committed(x)
               /\ \A next \in CallsOf(b) : next.deadline + MAX_LEAD <= past[x].lapsesAt
      BY <2>3
    <3>2. /\ SameCapability(b, x)' /\ Committed(x)'
          /\ \A next \in CallsOf(b)' : next.deadline + MAX_LEAD <= past'[x].lapsesAt
      BY <1>3, <2>1, <3>1 DEF SameCapability
    <3>. QED
      BY <2>1, <2>3, <3>2 DEF NoGood
  <2>4. NoGood(b)'
    BY <2>1, <2>3 DEF NoGood
  <2>5. NoStep(b)
    BY <2>1 DEF NoStep, NoGood
  <2>. QED
    BY <2>2, <2>4, <2>5
<1>15. ASSUME NEW x \in Attempts, NEW b \in Attempts, edge'[x].at \notin {"idle", "find"}, Names(x, b)'
       PROVE  Outlives(b, x)'
  <2>1. edge[x].at \notin {"idle", "find"}
    BY <1>5, <1>7, <1>15 DEF Early
  <2>2. edge'[x].deadline \in {0, edge[x].deadline}
    BY <1>5, <1>7
  <2>3. \A next \in CallsOf(x)' : \E old \in CallsOf(x) : next.deadline = old.deadline
    BY <1>5, <1>9
  <2>4. CASE Names(x, b)
    <3>1. Outlives(b, x)
      BY <2>1, <2>4 DEF NoInv, Dated
    <3>2. Committed(b)
      BY <1>0, <2>4, NamedIsFound DEF ReplayInv
    <3>3. past'[b].lapsesAt = past[b].lapsesAt /\ MAX_LEAD <= past[b].lapsesAt
      BY <1>3, <3>2 DEF ReplayInv, Spent
    <3>4. edge'[x].deadline + MAX_LEAD <= past[b].lapsesAt
      BY <1>0, <2>2, <3>1, <3>3 DEF Outlives
    <3>. QED
      BY <2>3, <3>1, <3>3, <3>4 DEF Outlives
  <2>5. CASE Commit /\ b = a
    <3>1. past'[b].lapsesAt >= Horizon + MAX_LEAD /\ past'[b].lapsesAt \in Int
      BY <1>0, <1>2, <1>3, <2>5
    <3>2. edge[x].deadline <= Horizon /\ \A old \in CallsOf(x) : old.deadline <= Horizon /\ old.deadline \in Int
      BY <1>0 DEF ReplayInv, InTime, CallsOf
    <3>3. Horizon >= 0
      BY <1>0, Constants DEF Inv, TypeOK, Horizon
    <3>4. edge'[x].deadline + MAX_LEAD <= past'[b].lapsesAt
      BY <1>0, <2>2, <3>1, <3>2, <3>3
    <3>5. \A next \in CallsOf(x)' : next.deadline + MAX_LEAD <= past'[b].lapsesAt
      BY <1>0, <2>3, <3>1, <3>2
    <3>. QED
      BY <3>4, <3>5 DEF Outlives
  <2>6. Names(x, b) \/ (Commit /\ b = a)
    <3>1. CASE admissions' \in {admissions, Remembered}
      BY <1>0, <1>1, <1>15, <3>1, NamedBefore
    <3>2. CASE Commit
      BY <1>0, <1>1, <1>15, <3>2, CommitNames DEF Commit
    <3>. QED
      BY <1>1, <3>1, <3>2
  <2>. QED
    BY <2>4, <2>5, <2>6
<1>16. NoGood(a)' /\ NoStep(a)
  BY <1>11, <1>13
<1>17. NoInv'
  <2>1. \A x \in Attempts : CallsGood(x)' /\ NoGood(x)'
    BY <1>8, <1>14, <1>16
  <2>2. \A x, b \in Attempts : Dated(x, b)'
    BY <1>15 DEF Dated
  <2>. QED
    BY <2>1, <2>2 DEF NoInv
<1>18. \A x \in Attempts : NoStep(x)
  BY <1>14, <1>16
<1>. QED
  BY <1>17, <1>18

\* Time tells nobody anything.
LEMMA TickTells ==
    ASSUME Inv, NoInv, Tick
    PROVE  NoInv' /\ \A x \in Attempts : NoStep(x)
<1>1. /\ UNCHANGED <<admissions, edge, calls, past>> /\ now' = now + 1 /\ TypeOK
      /\ \A x \in Attempts : CallsOf(x)' = CallsOf(x)
  BY DEF Tick, tables, Inv, CallsOf
<1>2. \A x \in Attempts : CallsGood(x)' /\ NoGood(x)' /\ NoStep(x)
  BY <1>1 DEF NoInv, CallsGood, NoGood, NoStep, ToldNo, Committed, SameCapability
<1>3. \A x, b \in Attempts : Dated(x, b)'
  <2>1. SUFFICES ASSUME NEW x \in Attempts, NEW b \in Attempts,
                        edge'[x].at \notin {"idle", "find"}, Names(x, b)'
                 PROVE  Outlives(b, x)'
    BY DEF Dated
  <2>2. Names(x, b)
    BY <1>1, <2>1, NamedBefore
  <2>3. Outlives(b, x)
    BY <1>1, <2>1, <2>2 DEF NoInv, Dated
  <2>. QED
    BY <1>1, <2>3 DEF Outlives
<1>. QED
  BY <1>2, <1>3 DEF NoInv

\* Nobody has asked, or been told, anything at the start.
LEMMA NoInit == Init => NoInv
<1>1. SUFFICES ASSUME Init  PROVE NoInv
  OBVIOUS
<1>2. ASSUME NEW a \in Attempts
      PROVE  /\ edge[a].at = "idle" /\ edge[a].try = 1 /\ edge[a].answer.status = "none"
             /\ ~Committed(a) /\ CallsOf(a) = {}
  BY <1>1 DEF Init, Resting, Answer, Committed, CallsOf
<1>3. \A a \in Attempts : CallsGood(a) /\ NoGood(a)
  BY <1>2 DEF CallsGood, NoGood, ToldNo, Early
<1>4. \A a, b \in Attempts : Dated(a, b)
  BY <1>2 DEF Dated
<1>. QED
  BY <1>3, <1>4 DEF NoInv

\* Every step keeps that, and is what the property asks for.
LEMMA NoNext == Inv /\ ReplayInv /\ NoInv /\ [Next]_vars => NoInv' /\ \A x \in Attempts : NoStep(x)
<1> SUFFICES ASSUME Inv, ReplayInv, NoInv, [Next]_vars
             PROVE  NoInv' /\ \A x \in Attempts : NoStep(x)
  OBVIOUS
<1>1. ASSUME NEW a \in Attempts,
             \/ Arrive(a) \/ FindCommitted(a) \/ Reserve(a) \/ Gate(a) \/ GateFails(a)
             \/ Prepare(a) \/ RecordRefusal(a) \/ SendCommit(a) \/ LoseCall(a) \/ ReadBack(a)
             \/ Release(a) \/ Abort(a) \/ Crash(a)
      PROVE  NoInv' /\ \A x \in Attempts : NoStep(x)
  <2>1. TypeOK /\ NoGood(a)
    BY DEF Inv, NoInv
  <2>2. Moved(a)
    BY <1>1, <2>1, IsolateMoves
  <2>3. Asks(a)
    BY <1>1, <2>1, IsolateAsks
  <2>. QED
    BY <1>1, <2>2, <2>3, IsolateTells
<1>2. CASE UNCHANGED vars
  <2>1. /\ UNCHANGED <<now, admissions, edge, calls, past>>
        /\ \A x \in Attempts : CallsOf(x)' = CallsOf(x)
    BY <1>2 DEF vars, tables, CallsOf
  <2>2. \A x \in Attempts : CallsGood(x)' /\ NoGood(x)' /\ NoStep(x)
    BY <2>1 DEF NoInv, CallsGood, NoGood, NoStep, ToldNo, Committed, SameCapability
  <2>3. \A x, b \in Attempts : Dated(x, b)'
    BY <2>1 DEF NoInv, Dated, Names, Outlives
  <2>. QED
    BY <2>2, <2>3 DEF NoInv
<1>. QED
  BY <1>1, <1>2, TickTells, CallTells DEF Next

\* An attempt that is told it is over quota, in conflict or refused has no job, and
\* gets none afterwards, unless its quota ran out on the retry.
THEOREM NoesAreFinal == Spec => RefusalMeansNoJob
<1>1. Inv /\ ReplayInv /\ NoInv /\ [Next]_vars =>
        [\A a \in Attempts :
           ToldNo(a)' /\ Committed(a)' =>
             ToldNo(a) /\ edge[a].answer.status = "rate-limited" /\ edge[a].try = 2]_vars
  BY NoNext DEF NoStep
<1>. QED
  BY <1>1, AdmissionInvariant, ReplayInit, ReplayNext, NoInit, NoNext, PTL DEF Spec, RefusalMeansNoJob

-----------------------------------------------------------------------------
(* Quota.                                                                  *)

Accounts == Clients \cup {Everyone}
Spans == {MINUTE, DAY}

Bucket(who, span, id) == <<"public-scan", who, span, id>>

\* The counters a client's charge is put down in, and what it writes there.
Current(who, span) == Bucket(who, span, now \div span)
Charged(c) == {Current(who, span) : who \in {Everyone, c}, span \in Spans}
OneMore(rows, who, span) ==
    [used |-> Used(rows, Current(who, span), now) + 1, expiresAt |-> (now \div span + 1) * span]

PutDown(new, rows, c) ==
    /\ DOMAIN new = DOMAIN rows \cup Charged(c)
    /\ \A b \in DOMAIN rows \ Charged(c) : new[b] = rows[b]
    /\ \A who \in {Everyone, c}, span \in Spans : new[Current(who, span)] = OneMore(rows, who, span)

\* Whose jobs count in a window.
Paid(who, start) ==
    {a \in Attempts : Committed(a) /\ past[a].committedAt >= start /\ who \in {Everyone, ClientOf[a]}}

\* A counter is of a window that has begun, and expires with it.
CounterOK(b) ==
    \E who \in Accounts, span \in Spans : \E id \in 0..(now \div span) :
        b = Bucket(who, span, id) /\ buckets[b].expiresAt = (id + 1) * span

Counts(who, span) ==
    Used(buckets, Bucket(who, span, now \div span), now) = Cardinality(Paid(who, (now \div span) * span))

ChargeInv ==
    /\ \A b \in DOMAIN buckets : CounterOK(b)
    /\ IsFiniteSet({a \in Attempts : Committed(a)})
    /\ \A a \in Attempts : past[a].committedAt <= now
    /\ \A who \in Accounts, span \in Spans : Counts(who, span)

\* Windows of one length cover the time without gaps.
LEMMA WindowOf ==
    ASSUME NEW n \in Nat, NEW d \in Nat \ {0}
    PROVE  /\ n \div d \in Nat
           /\ (n \div d) * d <= n /\ n < (n \div d + 1) * d
BY SMT

\* A later window is a window later.
LEMMA LaterWindow ==
    ASSUME NEW i \in Nat, NEW j \in Nat, NEW d \in Nat \ {0}, i < j
    PROVE  (i + 1) * d <= j * d
BY SMT

\* Time never goes back to an earlier window.
LEMMA TickOfWindow ==
    ASSUME NEW n \in Nat, NEW d \in Nat \ {0}
    PROVE  n \div d <= (n + 1) \div d
BY SMT

\* No window is empty.
LEMMA SpansPositive == \A span \in Spans : span \in Nat \ {0}
BY QuotaAssumption DEF Spans

\* The windows of a client's scans.
LEMMA ScanWindows ==
    ASSUME NEW c
    PROVE  /\ \A w \in PublicWindows(c, now) :
                \E who \in {Everyone, c}, span \in Spans :
                    /\ w.bucket = Bucket(who, span, now \div span)
                    /\ w.expiresAt = (now \div span + 1) * span
           /\ \A who \in {Everyone, c}, span \in Spans :
                \E w \in PublicWindows(c, now) : w.bucket = Bucket(who, span, now \div span)
BY DEF PublicWindows, Window, Bucket, Spans

\* A counter in use is one of a window that has begun.
LEMMA CounterTypes ==
    ASSUME TypeOK, NEW b, CounterOK(b)
    PROVE  buckets[b].expiresAt \in Int
<1>0. PICK who \in Accounts, span \in Spans : \E id \in 0..(now \div span) :
         b = Bucket(who, span, id) /\ buckets[b].expiresAt = (id + 1) * span
  BY DEF CounterOK
<1>1. PICK id \in 0..(now \div span) : buckets[b].expiresAt = (id + 1) * span
  BY <1>0
<1>2. span \in Nat /\ id \in Nat
  BY <1>0, <1>1, SpansPositive, WindowOf DEF TypeOK
<1>3. (id + 1) * span \in Int
  BY <1>2
<1>. QED
  BY <1>1, <1>3

\* A cleanup deletes nothing that is in use.
LEMMA CleanedCounters ==
    ASSUME TypeOK, \A b \in DOMAIN buckets : CounterOK(b), NEW swept \in Cleaned(buckets, now)
    PROVE  /\ DOMAIN swept \in SUBSET DOMAIN buckets
           /\ \A b \in DOMAIN swept : swept[b] = buckets[b]
           /\ \A b : Used(swept, b, now) = Used(buckets, b, now)
<1> DEFINE expired == {b \in DOMAIN buckets : buckets[b].expiresAt <= now}
<1>1. PICK D \in SUBSET expired : swept = [b \in DOMAIN buckets \ D |-> buckets[b]]
  BY DEF Cleaned, kSubset
<1>2. /\ DOMAIN swept = DOMAIN buckets \ D
      /\ \A b \in DOMAIN swept : swept[b] = buckets[b]
  BY <1>1
<1>3. \A b \in D : b \in DOMAIN buckets /\ ~(buckets[b].expiresAt > now)
  BY CounterTypes DEF TypeOK
<1>. HIDE DEF expired
<1>. QED
  BY <1>2, <1>3 DEF Used

\* A charge adds one to the counter of each of the client's windows.
LEMMA ConsumedCounters ==
    ASSUME TypeOK, NEW rows, NEW c
    PROVE  PutDown(Consumed(rows, PublicWindows(c, now), 1, now), rows, c)
<1> DEFINE windows == PublicWindows(c, now)
           new == Consumed(rows, windows, 1, now)
           charged == Charged(c)
           row(w) == [used |-> Used(rows, w.bucket, now) + 1, expiresAt |-> w.expiresAt]
           buys(b) == CHOOSE w \in windows : w.bucket = b
<1>1. {w.bucket : w \in windows} = charged
  <2>1. \A w \in windows : w.bucket \in charged
    BY ScanWindows DEF Charged, Current
  <2>2. \A b \in charged : \E w \in windows : w.bucket = b
    BY ScanWindows DEF Charged, Current
  <2>. HIDE DEF windows, charged
  <2>. QED
    BY <2>1, <2>2
<1>2. new = [b \in DOMAIN rows \cup charged |-> IF b \in charged THEN row(buys(b)) ELSE rows[b]]
  <2>. HIDE DEF charged, windows
  <2>1. new = [b \in DOMAIN rows \cup {w.bucket : w \in windows} |->
                  IF b \in {w.bucket : w \in windows} THEN row(buys(b)) ELSE rows[b]]
    BY DEF Consumed
  <2>. QED
    BY <1>1, <2>1
<1>3. ASSUME NEW who \in {Everyone, c}, NEW span \in Spans
      PROVE  /\ Current(who, span) \in charged
             /\ row(buys(Current(who, span))) = OneMore(rows, who, span)
  <2> DEFINE b == Bucket(who, span, now \div span)
  <2>1. buys(b) \in windows /\ buys(b).bucket = b
    BY ScanWindows
  <2>. HIDE DEF buys, windows
  <2>2. PICK whose \in {Everyone, c}, length \in Spans :
            /\ buys(b).bucket = Bucket(whose, length, now \div length)
            /\ buys(b).expiresAt = (now \div length + 1) * length
    BY <2>1, ScanWindows DEF windows
  <2>3. length = span
    BY <2>1, <2>2 DEF Bucket
  <2>4. b \in charged
    BY DEF Charged, Current
  <2>. QED
    BY <2>1, <2>2, <2>3, <2>4 DEF OneMore, Current
<1>. HIDE DEF row, buys, windows
<1>. QED
  BY <1>2, <1>3 DEF windows, PutDown

\* A step that commits nothing and at most cleans up keeps every count.
LEMMA NothingCharged ==
    ASSUME TypeOK, ChargeInv, now' = now, buckets' \in {buckets} \cup Cleaned(buckets, now),
           \A a \in Attempts : past'[a].committedAt = past[a].committedAt
    PROVE  ChargeInv'
<1>1. /\ DOMAIN buckets' \in SUBSET DOMAIN buckets
      /\ \A b \in DOMAIN buckets' : buckets'[b] = buckets[b]
      /\ \A b : Used(buckets', b, now) = Used(buckets, b, now)
  BY CleanedCounters DEF ChargeInv
<1>2. \A b \in DOMAIN buckets' : CounterOK(b)'
  BY <1>1 DEF ChargeInv, CounterOK
<1>3. {a \in Attempts : Committed(a)}' = {a \in Attempts : Committed(a)}
  BY DEF Committed
<1>4. ASSUME NEW who \in Accounts, NEW span \in Spans
      PROVE  Counts(who, span)'
  <2>1. Counts(who, span)
    BY DEF ChargeInv
  <2>2. Paid(who, (now \div span) * span)' = Paid(who, (now \div span) * span)
    BY DEF Paid, Committed
  <2>3. Used(buckets, Bucket(who, span, now \div span), now)' = Used(buckets, Bucket(who, span, now \div span), now)
    BY <1>1 DEF Used
  <2>. QED
    BY <2>1, <2>2, <2>3 DEF Counts
<1>5. \A a \in Attempts : past'[a].committedAt <= now'
  BY DEF ChargeInv
<1>. QED
  BY <1>2, <1>3, <1>4, <1>5 DEF ChargeInv

\* A window starts from nothing, and one that lasts keeps its count.
LEMMA TickCharges ==
    ASSUME Inv, ChargeInv, Tick
    PROVE  ChargeInv'
<1>1. /\ TypeOK /\ now \in Nat /\ now' = now + 1 /\ buckets' = buckets /\ past' = past
  BY DEF Inv, TypeOK, Tick, tables
<1>2. ASSUME NEW span \in Spans
      PROVE  /\ span \in Nat \ {0} /\ now \div span \in Nat /\ now' \div span \in Nat
             /\ now \div span <= now' \div span
             /\ now < (now \div span + 1) * span /\ now' < (now' \div span + 1) * span
             /\ (now' \div span) * span <= now'
  <2>1. span \in Nat \ {0} /\ now \in Nat /\ now + 1 \in Nat
    BY <1>1, SpansPositive
  <2>2. now \div span \in Nat /\ now < (now \div span + 1) * span
    BY <2>1, WindowOf
  <2>3. /\ (now + 1) \div span \in Nat /\ now + 1 < ((now + 1) \div span + 1) * span
        /\ ((now + 1) \div span) * span <= now + 1
    BY <2>1, WindowOf
  <2>4. now \div span <= (now + 1) \div span
    BY <2>1, TickOfWindow
  <2>. QED
    BY <1>1, <2>1, <2>2, <2>3, <2>4
<1>3. ASSUME NEW b \in DOMAIN buckets
      PROVE  CounterOK(b)'
  <2>1. PICK who \in Accounts, span \in Spans : \E id \in 0..(now \div span) :
            b = Bucket(who, span, id) /\ buckets[b].expiresAt = (id + 1) * span
    BY DEF ChargeInv, CounterOK
  <2>2. 0..(now \div span) \subseteq 0..(now' \div span)
    BY <1>2
  <2>3. \E id \in 0..(now' \div span) :
            b = Bucket(who, span, id) /\ buckets[b].expiresAt = (id + 1) * span
    BY <2>1, <2>2
  <2>. QED
    BY <1>1, <2>1, <2>3 DEF CounterOK
<1>4. ASSUME NEW who \in Accounts, NEW span \in Spans
      PROVE  Counts(who, span)'
  <2> DEFINE b == Bucket(who, span, now \div span)
             next == Bucket(who, span, now' \div span)
  <2>1. CASE now' \div span = now \div span
    <3>1. \A c \in DOMAIN buckets : buckets[c].expiresAt \in Int
      BY <1>1, CounterTypes DEF ChargeInv
    <3>2. b \in DOMAIN buckets => buckets[b].expiresAt = (now \div span + 1) * span
      <4>. SUFFICES ASSUME b \in DOMAIN buckets
                    PROVE  buckets[b].expiresAt = (now \div span + 1) * span
        OBVIOUS
      <4>1. PICK whose \in Accounts, length \in Spans : \E id \in 0..(now \div length) :
              b = Bucket(whose, length, id) /\ buckets[b].expiresAt = (id + 1) * length
        BY DEF ChargeInv, CounterOK
      <4>. QED
        BY <4>1 DEF Bucket
    <3>3. b \in DOMAIN buckets => buckets[b].expiresAt > now /\ buckets[b].expiresAt > now'
      BY <1>2, <2>1, <3>2
    <3>4. Used(buckets, b, now') = Used(buckets, b, now)
      BY <3>3 DEF Used
    <3>5. Paid(who, (now \div span) * span)' = Paid(who, (now \div span) * span)
      BY <1>1, <2>1 DEF Paid, Committed
    <3>6. Counts(who, span)
      BY DEF ChargeInv
    <3>. QED
      BY <1>1, <2>1, <3>4, <3>5, <3>6 DEF Counts
  <2>2. CASE now' \div span # now \div span
    <3>1. next \notin DOMAIN buckets
      <4>. SUFFICES ASSUME next \in DOMAIN buckets PROVE FALSE
        OBVIOUS
      <4>1. PICK whose \in Accounts, length \in Spans : \E id \in 0..(now \div length) :
              next = Bucket(whose, length, id)
        BY DEF ChargeInv, CounterOK
      <4>2. length = span /\ now' \div span \in 0..(now \div span)
        BY <4>1 DEF Bucket
      <4>. QED
        BY <1>2, <2>2, <4>2
    <3>2. now < (now' \div span) * span
      <4>1. now \div span < now' \div span
        BY <1>2, <2>2
      <4>2. PICK i \in Nat, j \in Nat : i = now \div span /\ j = now' \div span
        BY <1>2
      <4>3. span \in Nat \ {0} /\ (i + 1) * span <= j * span
        BY <1>2, <4>1, <4>2, LaterWindow
      <4>4. (i + 1) * span \in Int /\ j * span \in Int /\ now < (i + 1) * span
        BY <1>2, <4>2, <4>3
      <4>. QED
        BY <1>1, <4>2, <4>3, <4>4
    <3>3. \A a \in Attempts : past[a].committedAt \in Int
      BY <1>1 DEF TypeOK, Past
    <3>4. Paid(who, (now \div span) * span)' = {}
      BY <1>1, <1>2, <3>2, <3>3 DEF Paid, ChargeInv
    <3>5. Used(buckets, next, now') = 0
      BY <3>1 DEF Used
    <3>. QED
      BY <1>1, <3>4, <3>5, FS_EmptySet DEF Counts
  <2>. QED
    BY <2>1, <2>2
<1>5. IsFiniteSet({a \in Attempts : Committed(a)})'
  BY <1>1 DEF ChargeInv, Committed
<1>6. \A a \in Attempts : past'[a].committedAt <= now'
  BY <1>1 DEF ChargeInv, TypeOK, Past
<1>. QED
  BY <1>1, <1>3, <1>4, <1>5, <1>6 DEF ChargeInv

\* A commit charges its client's windows, and adds its job to what they count.
LEMMA CommitCharges ==
    ASSUME Inv, ChargeInv, NEW a \in Attempts, ~Committed(a), NEW swept \in Cleaned(buckets, now),
           now' = now, buckets' = Consumed(swept, PublicWindows(ClientOf[a], now), 1, now),
           past'[a].committedAt = now, \A b \in Attempts \ {a} : past'[b] = past[b]
    PROVE  ChargeInv'
<1> DEFINE payers == {Everyone, ClientOf[a]}
           charged == Charged(ClientOf[a])
<1>1. TypeOK /\ now \in Nat /\ payers \in SUBSET Accounts
  BY AdmissionAssumption DEF Inv, TypeOK, Accounts
<1>2. /\ DOMAIN swept \in SUBSET DOMAIN buckets
      /\ \A b \in DOMAIN swept : swept[b] = buckets[b]
      /\ \A b : Used(swept, b, now) = Used(buckets, b, now)
  BY <1>1, CleanedCounters DEF ChargeInv
<1>3. /\ DOMAIN buckets' = DOMAIN swept \cup charged
      /\ \A b \in DOMAIN swept \ charged : buckets'[b] = swept[b]
      /\ \A who \in payers, span \in Spans :
           buckets'[Current(who, span)] = OneMore(swept, who, span)
  <2>1. PutDown(buckets', swept, ClientOf[a])
    BY <1>1, ConsumedCounters
  <2>. QED
    BY <2>1 DEF PutDown
<1>4. \A span \in Spans : /\ span \in Nat \ {0} /\ now \div span \in 0..(now \div span)
                          /\ (now \div span) * span <= now
                          /\ (now \div span + 1) * span > now
  <2> TAKE span \in Spans
  <2>1. span \in Nat \ {0}
    BY SpansPositive
  <2>2. now \div span \in Nat /\ (now \div span) * span <= now /\ now < (now \div span + 1) * span
    BY <1>1, <2>1, WindowOf
  <2>3. (now \div span + 1) * span \in Int
    BY <2>1, <2>2
  <2>. QED
    BY <1>1, <2>1, <2>2, <2>3
<1>5. ASSUME NEW b \in DOMAIN buckets'
      PROVE  CounterOK(b)'
  <2>1. CASE b \in charged
    <3>1. PICK who \in payers, span \in Spans : b = Current(who, span)
      BY <2>1 DEF Charged
    <3>2. buckets'[b].expiresAt = (now \div span + 1) * span
      <4>1. buckets'[b] = OneMore(swept, who, span)
        BY <1>3, <3>1
      <4>. QED
        BY <4>1 DEF OneMore
    <3>3. who \in Accounts /\ now \div span \in 0..(now \div span)
      BY <1>1, <1>4, <3>1
    <3>4. \E id \in 0..(now \div span) : b = Bucket(who, span, id) /\ buckets'[b].expiresAt = (id + 1) * span
      BY <3>1, <3>2, <3>3 DEF Current
    <3>. QED
      BY <3>3, <3>4 DEF CounterOK
  <2>2. CASE b \notin charged
    <3>. HIDE DEF charged
    <3>1. b \in DOMAIN buckets /\ buckets'[b] = buckets[b]
      BY <1>2, <1>3, <2>2
    <3>. QED
      BY <3>1 DEF ChargeInv, CounterOK
  <2>. QED
    BY <2>1, <2>2
<1>6. /\ {b \in Attempts : Committed(b)}' = {b \in Attempts : Committed(b)} \cup {a}
      /\ \A b \in Attempts : b # a => (Committed(b)' <=> Committed(b))
      /\ Committed(a)'
  BY <1>1 DEF Committed
<1>7. ASSUME NEW who \in Accounts, NEW span \in Spans
      PROVE  Counts(who, span)'
  <2> DEFINE b == Current(who, span)
             start == (now \div span) * span
             paid == Paid(who, start)
  <2>1. Used(buckets, b, now) = Cardinality(paid)
    BY DEF ChargeInv, Counts, Current
  <2>2. a \notin paid /\ IsFiniteSet(paid)
    <3>1. paid \in SUBSET {d \in Attempts : Committed(d)}
      BY DEF Paid
    <3>. QED
      BY <3>1, FS_Subset DEF ChargeInv
  <2>3. CASE who \in payers
    <3>1. Paid(who, start)' = paid \cup {a}
      BY <1>4, <1>6, <2>3 DEF Paid
    <3>2. Cardinality(paid \cup {a}) = Cardinality(paid) + 1
      BY <2>2, FS_AddElement
    <3>3. b \in DOMAIN buckets' /\ buckets'[b] = OneMore(swept, who, span)
      BY <1>3, <2>3 DEF Charged
    <3>4. Used(buckets', b, now) = Cardinality(paid) + 1
      BY <1>2, <1>4, <2>1, <3>3 DEF Used, OneMore
    <3>. QED
      BY <3>1, <3>2, <3>4 DEF Counts, Current
  <2>4. CASE who \notin payers
    <3>1. Paid(who, start)' = paid
      BY <1>6, <2>4 DEF Paid
    <3>2. b \notin charged
      BY <2>4 DEF Bucket, Charged, Current
    <3>. HIDE DEF charged, b
    <3>3. Used(buckets', b, now) = Used(swept, b, now)
      BY <1>3, <3>2 DEF Used
    <3>. QED
      BY <1>2, <2>1, <3>1, <3>3 DEF Counts, Current, b
  <2>. QED
    BY <2>3, <2>4
<1>8. IsFiniteSet({b \in Attempts : Committed(b)})'
  BY <1>6, FS_AddElement DEF ChargeInv
<1>9. \A b \in Attempts : past'[b].committedAt <= now'
  BY <1>1 DEF ChargeInv
<1>. QED
  BY <1>5, <1>7, <1>8, <1>9 DEF ChargeInv

\* Only a commit charges, and it does so for a job that was not there.
LEMMA CallsCharge ==
    ASSUME Inv, ReplayInv, ChargeInv, NEW call \in calls,
           Preflight(call) \/ CommitAdmission(call) \/ CallDies(call)
    PROVE  ChargeInv'
<1>1. TypeOK /\ call.attempt \in Attempts /\ now' = now
  BY DEF Inv, TypeOK, Call, Preflight, CommitAdmission, CallDies
<1>2. CASE past' = past /\ buckets' \in {buckets} \cup Cleaned(buckets, now)
  BY <1>1, <1>2, NothingCharged
<1>3. CASE Preflight(call) \/ CallDies(call)
  BY <1>2, <1>3 DEF Preflight, CallDies, tables
<1>4. ASSUME NEW swept \in Cleaned(buckets, now), Standing(call).status = "none",
             buckets' = Consumed(swept, PublicWindows(ClientOf[call.attempt], now), 1, now),
             past' = [past EXCEPT ![call.attempt].committedAt = now,
                                  ![call.attempt].lapsesAt = call.admittedAt + TTL]
      PROVE  ChargeInv'
  <2> DEFINE p == [past[call.attempt] EXCEPT !.committedAt = now, !.lapsesAt = call.admittedAt + TTL]
  <2>1. ~Committed(call.attempt)
    BY <1>4, CommitsOnce
  <2>2. p.committedAt = now
    BY <1>1 DEF TypeOK, Past
  <2>3. past' = [past EXCEPT ![call.attempt] = p]
    BY <1>4
  <2>. HIDE DEF p
  <2>4. past'[call.attempt].committedAt = now /\ \A b \in Attempts \ {call.attempt} : past'[b] = past[b]
    BY <1>1, <2>2, <2>3 DEF TypeOK
  <2>. QED
    BY <1>1, <1>4, <2>1, <2>4, CommitCharges
<1>. QED
  BY <1>2, <1>3, <1>4 DEF CommitAdmission

\* An isolate's step at most cleans up.
LEMMA IsolateCharges ==
    ASSUME Inv, ChargeInv, NEW a \in Attempts,
           \/ Arrive(a) \/ FindCommitted(a) \/ Reserve(a) \/ Gate(a) \/ GateFails(a)
           \/ Prepare(a) \/ RecordRefusal(a) \/ SendCommit(a) \/ LoseCall(a) \/ ReadBack(a)
           \/ Release(a) \/ Abort(a) \/ Crash(a)
    PROVE  ChargeInv'
<1>1. TypeOK /\ now' = now /\ buckets' \in {buckets} \cup Cleaned(buckets, now)
  BY DEF Inv, Arrive, FindCommitted, Reserve, Gate, GateFails, Prepare, RecordRefusal, SendCommit,
         LoseCall, ReadBack, Release, Abort, Crash, tables
<1>2. /\ past \in [Attempts -> Past]
      /\ \/ past' = past
         \/ \E job : past' = [past EXCEPT ![a] = [past[a] EXCEPT !.knew = job]]
         \/ \E until : past' = [past EXCEPT ![a] = [past[a] EXCEPT !.refusedUntil = until]]
         \/ \E until : past' = [past EXCEPT ![a] = [past[a] EXCEPT !.held = until]]
  BY DEF Inv, TypeOK, Arrive, FindCommitted, Reserve, Gate, GateFails, Prepare, RecordRefusal,
         SendCommit, LoseCall, ReadBack, Release, Abort, Crash
<1>3. \A b \in Attempts : past'[b].committedAt = past[b].committedAt
  <2>1. \A x : /\ [past[a] EXCEPT !.knew = x].committedAt = past[a].committedAt
               /\ [past[a] EXCEPT !.refusedUntil = x].committedAt = past[a].committedAt
               /\ [past[a] EXCEPT !.held = x].committedAt = past[a].committedAt
    BY <1>2 DEF Past
  <2>2. ASSUME NEW p, past' = [past EXCEPT ![a] = p], p.committedAt = past[a].committedAt
        PROVE  \A b \in Attempts : past'[b].committedAt = past[b].committedAt
    BY <1>2, <2>2
  <2>. QED
    BY <1>2, <2>1, <2>2
<1>. QED
  BY <1>1, <1>3, NothingCharged

\* No job and no counter at first.
LEMMA ChargeInit == Init => ChargeInv
<1> SUFFICES ASSUME Init
             PROVE  ChargeInv
  OBVIOUS
<1>1. now = 0 /\ buckets = << >> /\ \A a \in Attempts : past[a].committedAt = -1
  BY DEF Init
<1>2. \A b : b \notin DOMAIN buckets
  BY <1>1
<1>3. {a \in Attempts : Committed(a)} = {} /\ \A who, start : Paid(who, start) = {}
  BY <1>1 DEF Committed, Paid
<1>4. \A who, span : Counts(who, span)
  BY <1>2, <1>3, FS_EmptySet DEF Counts, Used
<1>. QED
  BY <1>1, <1>2, <1>3, <1>4, FS_EmptySet DEF ChargeInv

\* Every step keeps the counts.
LEMMA ChargeNext == Inv /\ ReplayInv /\ ChargeInv /\ [Next]_vars => ChargeInv'
<1> SUFFICES ASSUME Inv, ReplayInv, ChargeInv, [Next]_vars
             PROVE  ChargeInv'
  OBVIOUS
<1>1. CASE UNCHANGED vars
  BY <1>1, NothingCharged DEF vars, tables, Inv
<1>. QED
  BY <1>1, TickCharges, IsolateCharges, CallsCharge DEF Next

\* Quota is used up by committed jobs and by nothing else: commitIdempotentScanAdmission
\* charges in the transaction that records the job, and evaluatePublicScanRateLimit reads
\* an expired row as none, swept or not.
THEOREM OnlyJobsAreCharged == Spec => []ChargedOncePerJob
<1>1. Inv /\ ChargeInv => ChargedOncePerJob
  <2>. SUFFICES ASSUME Inv, ChargeInv, NEW c \in Clients, NEW w \in PublicWindows(c, now)
                PROVE  Used(buckets, w.bucket, now)
                         = Cardinality({a \in Attempts :
                                          /\ Committed(a)
                                          /\ past[a].committedAt >= w.bucket[4] * w.bucket[3]
                                          /\ w.bucket[2] \in {Everyone, ClientOf[a]}})
    BY DEF ChargedOncePerJob
  <2>1. PICK who \in {Everyone, c}, span \in Spans : w.bucket = Bucket(who, span, now \div span)
    BY ScanWindows
  <2>2. who \in Accounts
    BY DEF Accounts
  <2>3. Counts(who, span)
    BY <2>2 DEF ChargeInv
  <2>4. w.bucket[2] = who /\ w.bucket[3] = span /\ w.bucket[4] = now \div span
    BY <2>1 DEF Bucket
  <2>. QED
    BY <2>1, <2>3, <2>4 DEF Counts, Paid
<1>. QED
  BY <1>1, AdmissionInvariant, ReplayInit, ReplayNext, ChargeInit, ChargeNext, PTL DEF Spec
=============================================================================
