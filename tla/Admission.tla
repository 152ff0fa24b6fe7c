------------------------------ MODULE Admission ------------------------------
(***************************************************************************)
(* The admission of a scan: the edge isolate that serves one request, and  *)
(* the tables of the coordinating Durable Object it goes through.          *)
(*                                                                         *)
(* An attempt is one POST /api/scan with an admission capability.  The     *)
(* edge asks for a committed admission, takes the capability's preparation *)
(* slot, passes the gate, has Node prepare a job, and asks the Durable     *)
(* Object to commit it; then it frees the slot.  A call to the Durable     *)
(* Object is one transaction, except the admission itself, which is two    *)
(* with an await between them.  Replies are lost, calls arrive after their *)
(* caller has given up, isolates stop, and clocks disagree.                *)
(*                                                                         *)
(* A job is named after the attempt it was prepared for: preparation mints *)
(* fresh random job and report ids.                                        *)
(***************************************************************************)
EXTENDS RateLimit, Integers, Functions

CONSTANTS
    Attempts, Capabilities, Clients, None,
    CapabilityOf, CommitmentOf, ClientOf,   \* what each attempt presents
    ADMISSION_TIMEOUT,      \* the edge's whole-operation deadline, and the
                            \* longest a reservation or a refusal is kept
    TTL,                    \* how long an admission is remembered
    MAX_LEAD, MAX_AGE,      \* accepted distance of Node's clock
    MAX_RESERVATIONS, MAX_REFUSALS,
    EDGE_SKEW, NODE_SKEW,   \* how far those clocks are from the Durable Object's
    MAX_TIME                \* bound: the last tick an instance reaches

ASSUME AdmissionAssumption ==
    /\ CapabilityOf \in [Attempts -> Capabilities] /\ None \notin Attempts
    /\ ClientOf \in [Attempts -> Clients]
    /\ DOMAIN CommitmentOf = Attempts
    /\ {EDGE_SKEW, NODE_SKEW, MAX_LEAD, MAX_AGE, MAX_TIME} \subseteq Nat
    /\ ADMISSION_TIMEOUT \in Nat /\ ADMISSION_TIMEOUT > EDGE_SKEW
    /\ TTL \in Nat /\ TTL >= ADMISSION_TIMEOUT + EDGE_SKEW + MAX_AGE + MAX_LEAD
    /\ \A n \in {MAX_RESERVATIONS, MAX_REFUSALS} : n \in Nat \ {0}

VARIABLES
    now,            \* the Durable Object's clock
    admissions,     \* scan_admissions: capability -> [job, expiresAt]
    reservations,   \* durable_preparations: capability -> expiresAt
    refusals,       \* durable_preparation_refusals: capability -> expiresAt
    buckets,        \* public_scan_rate_limits
    edge,           \* the isolates: attempt -> where it is
    calls,          \* admissions the Durable Object has been asked for
    past            \* history: attempt -> what happened to it

tables == <<admissions, reservations, refusals, buckets>>
vars == <<now, tables, edge, calls, past>>

Instants == 0..MAX_TIME

Steps == {"idle", "find", "reserve", "gate", "prepare", "refuse", "commit", "await",
          "readback", "release", "done"}
\* Where an attempt is between its reservation and the release of it.
Holding == {"gate", "prepare", "refuse", "commit", "await", "readback", "release"}

Answer(status) == [status |-> status, job |-> None]
Accepted(job) == [status |-> "accepted", job |-> job]

\* An attempt that has no deadline, no prepared job and no call of its own.
Resting(step, try, answer) ==
    [at |-> step, deadline |-> 0, admittedAt |-> 0, try |-> try, answer |-> answer]

Init ==
    /\ now = 0
    /\ admissions = << >> /\ reservations = << >> /\ refusals = << >>
    /\ buckets = << >> /\ calls = {}
    /\ edge = [a \in Attempts |-> Resting("idle", 1, Answer("none"))]
    /\ past = [a \in Attempts |-> [knew |-> None, held |-> 0,
                                   refusedUntil |-> 0, committedAt |-> -1, lapsesAt |-> 0]]

SameCapability(a, b) == CapabilityOf[a] = CapabilityOf[b]

Replay(a, b) == SameCapability(a, b) /\ CommitmentOf[a] = CommitmentOf[b]

\* A 4xx: on any of these the client drops the capability.
GivesUp(answer) ==
    answer.status \in {"conflict", "rate-limited", "refused", "refused-before", "in-flight"}

At(a, step) == edge[a].at = step

Go(a, step) == edge' = [edge EXCEPT ![a].at = step]

\* An answer is decided once.  What the attempt still does is clean up.
Decide(a, answer, step) ==
    edge' = [edge EXCEPT ![a] = Resting(step, @.try, IF @.answer.status = "none" THEN answer ELSE @.answer)]

Put(table, c, row) == [x \in DOMAIN table \union {c} |-> IF x = c THEN row ELSE table[x]]

Unexpired(table) == RestrictValues(table, LAMBDA expiresAt : expiresAt > now)

Committed(a) == past[a].committedAt >= 0

-----------------------------------------------------------------------------
(* The Durable Object's tables.                                            *)

\* findScanAdmission: the expired rows are deleted on the way.
Remembered == RestrictValues(admissions, LAMBDA row : row.expiresAt > now)

\* recordScanAdmission deletes once more, on the clock of the job it records.
RememberedAt(createdAt) ==
    RestrictValues(Remembered, LAMBDA row : row.expiresAt > createdAt)

Found(a) == CapabilityOf[a] \in DOMAIN Remembered

BoundJob(a) == Remembered[CapabilityOf[a]].job

\* Faulty: any request is the one that was admitted.
MatchesAny(a) == Found(a)

Matches(a) == CommitmentOf[BoundJob(a)] = CommitmentOf[a]

\* The caller's deadline, clamped on this clock.
Clamped(deadline) == Min({deadline, now + ADMISSION_TIMEOUT})

-----------------------------------------------------------------------------
(* The edge isolate, one request.                                          *)

\* The isolate's clock may be off; the deadline is stamped on it.
Arrive(a) ==
    /\ At(a, "idle")
    /\ \E deadline \in (now + ADMISSION_TIMEOUT - EDGE_SKEW)..(now + ADMISSION_TIMEOUT + EDGE_SKEW) :
         edge' = [edge EXCEPT ![a].at = "find", ![a].deadline = deadline]
    /\ past' = [past EXCEPT ![a].knew = IF Found(a) THEN BoundJob(a) ELSE None]
    /\ UNCHANGED <<now, tables, calls>>

\* Faulty: nobody looks for a committed admission first.
FindNothing(a) ==
    /\ At(a, "find")
    /\ Go(a, "reserve")
    /\ UNCHANGED <<now, tables, calls, past>>

\* findCommittedScanAdmission, before any gate or quota.
FindCommitted(a) ==
    /\ At(a, "find")
    /\ admissions' = Remembered
    /\ CASE Found(a) /\ Matches(a)  -> Decide(a, Accepted(BoundJob(a)), "done")
         [] Found(a) /\ ~Matches(a) -> Decide(a, Answer("conflict"), "done")
         [] OTHER                   -> Go(a, "reserve")
    /\ UNCHANGED <<now, reservations, refusals, buckets, calls, past>>

\* Faulty: recorded refusals are not looked at.
SlotStatusForgetful(a) ==
    IF edge[a].deadline <= now THEN "window-elapsed"
    ELSE IF CapabilityOf[a] \in DOMAIN Unexpired(reservations) THEN "in-flight"
    ELSE IF Cardinality(DOMAIN Unexpired(reservations)) >= MAX_RESERVATIONS THEN "at-capacity"
    ELSE "reserved"

\* The slot of the capability, or why it is not to be had.
SlotStatus(a) ==
    IF CapabilityOf[a] \in DOMAIN Unexpired(refusals) THEN "refused-before"
    ELSE IF edge[a].deadline <= now THEN "window-elapsed"
    ELSE IF CapabilityOf[a] \in DOMAIN Unexpired(reservations) THEN "in-flight"
    ELSE IF Cardinality(DOMAIN Unexpired(reservations)) >= MAX_RESERVATIONS THEN "at-capacity"
    ELSE "reserved"

\* reserveDurablePreparationSlot.  When the reply is lost, or finds the operation
\* aborted, the row stays behind without an owner.
Reserve(a) ==
    LET status == SlotStatus(a)
        expiry == Clamped(edge[a].deadline)
    IN /\ At(a, "reserve")
       /\ refusals' = Unexpired(refusals)
       /\ reservations' = CASE status \in {"refused-before", "window-elapsed"} -> reservations
                            [] status = "reserved" -> Put(Unexpired(reservations), CapabilityOf[a], expiry)
                            [] OTHER -> Unexpired(reservations)
       /\ IF status = "reserved"
          THEN /\ \/ edge[a].answer.status = "none" /\ Go(a, "gate")
                  \/ Decide(a, Answer("unavailable"), "done")
               /\ past' = [past EXCEPT ![a].held = expiry]
          ELSE /\ Decide(a, Answer(status), "done")
               /\ UNCHANGED past
       /\ UNCHANGED <<now, admissions, buckets, calls>>

\* gateScanRequest, deferred: Turnstile, and a peek at the quota.
Gate(a) ==
    /\ At(a, "gate")
    /\ \E swept \in Cleaned(buckets, now) :
         /\ buckets' = swept
         /\ IF FixedDecision(swept, PublicWindows(ClientOf[a], now), 1, now).allowed
            THEN Go(a, "prepare")
            ELSE Decide(a, Answer("rate-limited"), "release")
    /\ UNCHANGED <<now, admissions, reservations, refusals, calls, past>>

\* Node's /prepare: a fresh job stamped on Node's clock, a verdict on the
\* request, or a failure that a retry could outlive.
Prepare(a) ==
    /\ At(a, "prepare")
    /\ \/ /\ \E admittedAt \in (now - NODE_SKEW)..(now + NODE_SKEW) :
              edge' = [edge EXCEPT ![a].at = "commit", ![a].admittedAt = admittedAt]
          /\ UNCHANGED past
       \/ /\ Go(a, "refuse")
          /\ past' = [past EXCEPT ![a].refusedUntil = past[a].held]
       \/ /\ \E status \in {"unavailable", "rate-limited"} : Decide(a, Answer(status), "release")
          /\ UNCHANGED past
    /\ UNCHANGED <<now, tables, calls>>

\* The gate fails: a bad token, or Siteverify or the peek unanswered.
GateFails(a) ==
    /\ At(a, "gate")
    /\ \E status \in {"unavailable", "refused"} : Decide(a, Answer(status), "release")
    /\ UNCHANGED <<now, tables, calls, past>>

\* The refusal is recorded while the slot is still held; best effort.
RecordRefusal(a) ==
    LET c     == CapabilityOf[a]
        kept  == Unexpired(refusals)
        fits  == c \in DOMAIN kept \/ Cardinality(DOMAIN kept) < MAX_REFUSALS
        until == Max({Clamped(edge[a].deadline)} \union {kept[x] : x \in DOMAIN kept \intersect {c}})
    IN /\ At(a, "refuse")
       /\ Decide(a, Answer("refused"), "release")
       /\ \/ /\ edge[a].deadline > now /\ fits
             /\ refusals' = Put(kept, c, until)
             /\ past' = [past EXCEPT ![a].refusedUntil = until]
          \/ /\ edge[a].deadline > now /\ ~fits
             /\ refusals' = kept
             /\ past' = [past EXCEPT ![a].refusedUntil = 0]
          \/ /\ UNCHANGED refusals     \* the window is over, or the call failed
             /\ past' = [past EXCEPT ![a].refusedUntil = 0]
       /\ UNCHANGED <<now, admissions, reservations, buckets, calls>>

SendCommit(a) ==
    /\ At(a, "commit")
    /\ calls' = calls \union {[attempt |-> a, try |-> edge[a].try, stage |-> "preflight",
                                  deadline |-> edge[a].deadline, admittedAt |-> edge[a].admittedAt]}
    /\ Go(a, "await")
    /\ UNCHANGED <<now, tables, past>>

\* finalizeDurableScanJobAdmission, on the result of a commit: some refusals
\* prove that nothing was committed, the others are looked into.
Conclude(a, answer) ==
    IF answer.status = "unknown" \/ (answer.status = "refused" /\ edge[a].try = 2)
    THEN Go(a, "readback")
    ELSE Decide(a, IF answer.status \in {"refused", "expired"} THEN Answer("unavailable") ELSE answer,
                "release")

\* A call ends.  Its caller hears the result, loses it, or has left.
Finish(call, answer) ==
    LET a == call.attempt
    IN /\ calls' = calls \ {call}
       /\ IF At(a, "await") /\ edge[a].try = call.try
          THEN Conclude(a, answer) \/ Conclude(a, Answer("unknown"))
          ELSE UNCHANGED edge

\* The job's creation is refused when Node's clock is too far off.
WithinSkew(call) == -MAX_AGE <= call.admittedAt - now /\ call.admittedAt - now <= MAX_LEAD

\* Faulty: the transactions trust the edge's own lookup.
StandingUnchecked(call) ==
    IF now >= call.deadline THEN Answer("expired") ELSE Answer("none")

\* What either transaction finds before it looks at quota and capacity.
Standing(call) ==
    LET a == call.attempt
    IN IF now >= call.deadline THEN Answer("expired")
       ELSE CASE Found(a) /\ Matches(a)  -> Accepted(BoundJob(a))
              [] Found(a) /\ ~Matches(a) -> Answer("conflict")
              [] OTHER                   -> Answer("none")

\* The first transaction refuses what the second would, before a wake is written.
\* Whether another job is taken is the stores' own affair: they may be full, or
\* unable to settle what has to be forgotten (DurableScanJobStore).
Preflight(call) ==
    LET a == call.attempt
        standing == Standing(call)
    IN /\ call.stage = "preflight"
       /\ \E swept \in Cleaned(buckets, now), takes \in BOOLEAN :
            \/ /\ standing.status # "none"
               /\ admissions' = IF standing.status = "accepted" THEN Remembered ELSE admissions
               /\ Finish(call, standing)
               /\ UNCHANGED buckets
            \/ /\ standing.status = "none" /\ ~(WithinSkew(call) /\ takes)
               /\ Finish(call, Answer("refused"))
               /\ UNCHANGED <<admissions, buckets>>
            \/ /\ standing.status = "none" /\ WithinSkew(call) /\ takes
               /\ admissions' = Remembered /\ buckets' = swept
               /\ IF FixedDecision(swept, PublicWindows(ClientOf[a], now), 1, now).allowed
                  THEN /\ calls' = (calls \ {call}) \union {[call EXCEPT !.stage = "commit"]}
                       /\ UNCHANGED edge
                  ELSE Finish(call, Answer("rate-limited"))
       /\ UNCHANGED <<now, reservations, refusals, past>>

\* The second transaction: charge, job and admission, or nothing at all.
CommitAdmission(call) ==
    LET a == call.attempt
        standing == Standing(call)
        kept == RememberedAt(call.admittedAt)
    IN /\ call.stage = "commit"
       /\ \E swept \in Cleaned(buckets, now), takes \in BOOLEAN :
            LET windows == PublicWindows(ClientOf[a], now)
                allowed == FixedDecision(swept, windows, 1, now).allowed
                fits    == WithinSkew(call) /\ takes
            IN \/ /\ standing.status # "none"
                  /\ admissions' = IF standing.status = "accepted" THEN Remembered ELSE admissions
                  /\ Finish(call, standing)
                  /\ UNCHANGED <<buckets, past>>
               \/ /\ standing.status = "none" /\ ~allowed
                  /\ admissions' = Remembered /\ buckets' = swept
                  /\ Finish(call, Answer("rate-limited"))
                  /\ UNCHANGED past
               \/ /\ standing.status = "none" /\ allowed /\ ~fits
                  /\ Finish(call, Answer("refused"))
                  /\ UNCHANGED <<admissions, buckets, past>>
               \/ /\ standing.status = "none" /\ allowed /\ fits
                  /\ buckets' = Consumed(swept, windows, 1, now)
                  /\ admissions' = Put(kept, CapabilityOf[a],
                                       [job |-> a, expiresAt |-> call.admittedAt + TTL])
                  /\ past' = [past EXCEPT ![a].committedAt = now, ![a].lapsesAt = call.admittedAt + TTL]
                  /\ Finish(call, Accepted(a))
       /\ UNCHANGED <<now, reservations, refusals>>

\* The Durable Object stops, or the call never reaches it.
CallDies(call) ==
    /\ Finish(call, Answer("unknown"))
    /\ UNCHANGED <<now, tables, past>>

\* The connection fails under a call that is still to be executed.
LoseCall(a) ==
    /\ At(a, "await")
    /\ Go(a, "readback")
    /\ UNCHANGED <<now, tables, calls, past>>

\* The exact readback, and the one retry.  A conflict found here is not told.
ReadBack(a) ==
    /\ At(a, "readback")
    /\ \/ /\ admissions' = Remembered
          /\ Found(a) /\ Matches(a)
          /\ Decide(a, Accepted(BoundJob(a)), "release")
       \/ /\ admissions' = Remembered \/ UNCHANGED admissions
          /\ IF edge[a].try = 1
             THEN edge' = [edge EXCEPT ![a].at = "commit", ![a].try = 2]
             ELSE Decide(a, Answer("unavailable"), "release")
    /\ UNCHANGED <<now, reservations, refusals, buckets, calls, past>>

\* Faulty: whatever row the capability has goes.
ReleaseUnfenced(a) ==
    /\ At(a, "release")
    /\ reservations' = [c \in DOMAIN reservations \ {CapabilityOf[a]} |-> reservations[c]]
    /\ Go(a, "done")
    /\ UNCHANGED <<now, admissions, refusals, buckets, calls, past>>

\* The finally.  The row goes only if it is this attempt's own.
Release(a) ==
    /\ At(a, "release")
    /\ \/ reservations' = [c \in {x \in DOMAIN reservations :
                                     x # CapabilityOf[a] \/ reservations[x] # past[a].held}
                             |-> reservations[c]]
       \/ UNCHANGED reservations       \* the call failed
    /\ Go(a, "done")
    /\ UNCHANGED <<now, admissions, refusals, buckets, calls, past>>

\* The deadline's timer fires or the caller disconnects: the caller's answer is
\* settled at once, and the operation unwinds when its present step ends.  A
\* reservation and a refusal that are being written are still written.
Abort(a) ==
    /\ edge[a].at \in Steps \ {"idle", "release", "done"}
    /\ edge[a].answer.status = "none"
    /\ IF edge[a].at \in {"reserve", "refuse"}
       THEN edge' = [edge EXCEPT ![a].answer = Answer("unavailable")]
       ELSE Decide(a, Answer("unavailable"), IF edge[a].at \in Holding THEN "release" ELSE "done")
    /\ UNCHANGED <<now, tables, calls, past>>

\* The isolate is gone, and what it held stays behind.
Crash(a) ==
    /\ edge[a].at \in Steps \ {"idle", "done"}
    /\ Decide(a, Answer("unavailable"), "done")
    /\ UNCHANGED <<now, tables, calls, past>>

Tick ==
    /\ now < MAX_TIME
    /\ now' = now + 1
    /\ UNCHANGED <<tables, edge, calls, past>>

Next ==
    \/ Tick
    \/ \E a \in Attempts :
         \/ Arrive(a) \/ FindCommitted(a) \/ Reserve(a) \/ Gate(a) \/ GateFails(a)
         \/ Prepare(a) \/ RecordRefusal(a) \/ SendCommit(a) \/ LoseCall(a) \/ ReadBack(a)
         \/ Release(a) \/ Abort(a) \/ Crash(a)
    \/ \E call \in calls : Preflight(call) \/ CommitAdmission(call) \/ CallDies(call)

Spec == Init /\ [][Next]_vars

-----------------------------------------------------------------------------
(* What admission promises.                                                *)

\* However often a capability is replayed, at once or after lost answers, its
\* jobs are committed further apart than an admission is remembered, but for
\* the lead of the clock that another capability's job was created on.
OneJobPerCapability ==
    \A a, b \in Attempts :
      a # b /\ SameCapability(a, b) /\ Committed(a) /\ Committed(b) =>
        \/ past[a].committedAt + MAX_LEAD >= past[b].lapsesAt
        \/ past[b].committedAt + MAX_LEAD >= past[a].lapsesAt

\* Quota is used up by committed jobs and by nothing else: no replay, refusal,
\* lost answer or rolled-back transaction ever moves a counter.
ChargedOncePerJob ==
    \A c \in Clients : \A w \in PublicWindows(c, now) :
      LET start == w.bucket[4] * w.bucket[3]
      IN Used(buckets, w.bucket, now)
           = Cardinality({a \in Attempts : /\ Committed(a) /\ past[a].committedAt >= start
                                           /\ w.bucket[2] \in {Everyone, ClientOf[a]}})

\* Nobody but time takes a preparation slot away from its holder: a late
\* release of an earlier attempt never frees it.
HolderKeepsSlot ==
    \A a \in Attempts :
      edge[a].at \in Holding /\ now < past[a].held =>
        /\ CapabilityOf[a] \in DOMAIN reservations
        /\ reservations[CapabilityOf[a]] = past[a].held

\* A holder whose job was committed before it asked again is told that job, or
\* that the answer is unknown; never a refusal that invites another scan.
CommittedReplayIsRecovered ==
    \A a \in Attempts :
      LET job == past[a].knew
      IN job # None /\ edge[a].answer.status # "none" /\ now + MAX_LEAD < past[job].lapsesAt =>
           edge[a].answer \in {Answer("unavailable"),
                               IF CommitmentOf[job] = CommitmentOf[a]
                               THEN Accepted(job) ELSE Answer("conflict")}

\* An attempt that is told it is over quota, in conflict or refused has no job,
\* and gets none afterwards, unless its quota ran out on the retry: its first
\* call may still be on its way then, and find the next window open.
ToldNo(a) == edge[a].answer.status \notin {"none", "accepted", "unavailable"}

RefusalMeansNoJob ==
    [][\A a \in Attempts :
         ToldNo(a)' /\ Committed(a)' =>
           ToldNo(a) /\ edge[a].answer.status = "rate-limited" /\ edge[a].try = 2]_vars

\* Once Node has refused a request, the capability buys no other preparation
\* while the refused attempt's slot or the recorded refusal lasts.
RefusedIsNotPreparedAgain ==
    [][\A b \in Attempts :
         past'[b].held # past[b].held =>
           \A a \in Attempts \ {b} : SameCapability(a, b) => now >= past[a].refusedUntil]_vars

\* An admission implements the promise made to the capability's holder.
Promise == INSTANCE AdmissionPromise WITH
    bound <- [c \in Capabilities |->
                IF c \in DOMAIN admissions
                THEN [job |-> admissions[c].job, until |-> admissions[c].expiresAt]
                ELSE [job |-> None, until |-> 0]],
    told  <- [a \in Attempts |-> edge[a].answer.job]

KeepsThePromise == Promise!Spec

\* lib/scan-client-orchestration.ts:218, of the callback that forgets the
\* capability: "Called only after accepted recovery is durable or rejection is
\* definitive".  It is called on every 4xx, and then no replay may have a job.
DroppedOnlyWhenDefinitive ==
    \A a, b \in Attempts : Replay(a, b) /\ GivesUp(edge[a].answer) => ~Committed(b)
=============================================================================
