----------------------------- MODULE ReportStore -----------------------------
(***************************************************************************)
(* The shared reports in R2 (lib/report-store.ts, lib/report-store-r2.ts,   *)
(* and the saver of lib/scan-jobs.ts).                                     *)
(*                                                                         *)
(* A share is two objects: the report, and a sidecar that vouches for it.  *)
(* Several containers publish, repair, read and delete shares.  Within one *)
(* container mutations wait for each other; between containers there is    *)
(* nothing but R2, whose calls may fail, or fail and take effect, or take  *)
(* effect when their caller has long given up.                             *)
(*                                                                         *)
(* Both PUTs are create-only, and every writer of a share writes the bytes *)
(* that its manifest fixed, so an object is there or not.  The bytes, and  *)
(* the verdicts about bytes that contradict a manifest, are left out.      *)
(***************************************************************************)
EXTENDS Integers, FiniteSets, FiniteSetsExt, Functions

CONSTANTS
    Reports,                \* ids of reports; a higher one is newer at the same moment
    Containers,
    None,                   \* no container
    PUBLICATION_TIMEOUT,    \* a publication, reading back included
    RECOVERY,               \* how long after its preparation a durable job may ask about a report
    SURVIVAL,               \* how long the limit on their number spares a share
    AGE,                    \* how long a share lasts at most
    PUT_LAG,                \* how long after its caller gave up a PUT may still land
    MAX_COUNT,              \* shares that deletion leaves
    PUBLICATION_CAPACITY,   \* shares that a publication leaves
    LIST_MAX,               \* retention clocks that one listing reads
    GRACE,                  \* how old a report without sidecar is before a listing reads its clock
    MAX_DELETES,            \* deletions of one pass
    MAX_TROUBLE,            \* bound on failed calls and stopped containers
    Horizon                 \* bound on the clock

\* Durable jobs run only if shares survive for as long as a job is recovered after its
\* admission (requireDurableScanJobReadiness), and a report is prepared well after that;
\* the count is clamped to the capacity, which leaves room for reports without a sidecar
\* under the ceiling of a listing.
ASSUME ReportStoreAssumption ==
    /\ Reports \subseteq Nat /\ IsFiniteSet(Reports) /\ IsFiniteSet(Containers)
    /\ None \notin Containers
    /\ {PUBLICATION_TIMEOUT, RECOVERY, SURVIVAL, AGE, PUT_LAG, GRACE,
        MAX_TROUBLE, Horizon} \subseteq Nat
    /\ {MAX_COUNT, MAX_DELETES} \subseteq Nat \ {0}
    /\ PUBLICATION_TIMEOUT <= RECOVERY
    /\ RECOVERY + PUT_LAG < SURVIVAL /\ SURVIVAL <= AGE
    /\ PUBLICATION_CAPACITY \in Nat /\ MAX_COUNT <= PUBLICATION_CAPACITY
    /\ LIST_MAX \in Nat /\ PUBLICATION_CAPACITY < LIST_MAX

VARIABLES
    now,
    created,        \* when a report was prepared, 0 if it was not; its retention clock
    primaries,      \* reports whose object R2 holds
    sidecars,       \* reports whose sidecar R2 holds
    debts,          \* the ledger in R2 of deletions that were begun
    maintenance,    \* its sign that another pass is owed
    puts,           \* PUTs that nobody waits for any more
    publication,    \* report -> what became of its publication, and where
    work,           \* container -> the mutation that holds its lock
    trouble

objects == <<primaries, sidecars>>
ledger == <<debts, maintenance>>
vars == <<now, created, objects, ledger, puts, publication, work, trouble>>

Debt(r, scope) == [id |-> r, scope |-> scope]
Debts == [id : Reports, scope : {"bundle", "sidecar"}]

\* The mutation lock of a container is free.
Free == [task |-> "none", step |-> "none", id |-> 0, at |-> 0, prior |-> {}, flagged |-> FALSE,
         doomed |-> <<>>, full |-> FALSE, lost |-> FALSE]

Begin(task, step, r) == [Free EXCEPT !.task = task, !.step = step, !.id = r, !.at = now]

Init ==
    /\ now = 1
    /\ created = [r \in Reports |-> 0]
    /\ primaries = {} /\ sidecars = {}
    /\ debts = {} /\ maintenance = FALSE
    /\ puts = {}
    /\ publication = [r \in Reports |-> [state |-> "none", by |-> None]]
    /\ work = [c \in Containers |-> Free]
    /\ trouble = 0

Whole(r) == r \in primaries \cap sidecars
ExpiredAt(r, t) == t >= created[r] + AGE

-----------------------------------------------------------------------------
(* Steps of the mutation that holds the lock of container c.               *)

At(c, step) == work[c].step = step
Go(c, step) == work' = [work EXCEPT ![c].step = step]
Release(c) == work' = [work EXCEPT ![c] = Free]

\* The mutation ends with what is known of its publication.
Answer(c, state) ==
    /\ publication' = [publication EXCEPT ![work[c].id] =
                          IF @.state = "found" THEN @ ELSE [state |-> state, by |-> None]]
    /\ Release(c)

\* Faulty: a commit that failed has failed.
CommitFailsForGood(c) == Answer(c, "unknown")

\* commitPreparedBundleOrReconcile: a commit that failed is read back, which takes
\* its turn for the lock.  awaitOperationOrAbort refuses the read-back once the
\* publication's deadline is over (60 s), and the wait for the lock may time out: left
\* out, for an operation of the storage ends earlier (30 s by default).
CommitFails(c) ==
    /\ publication' = [publication EXCEPT ![work[c].id].state = "readback"]
    /\ Release(c)

Fails == trouble < MAX_TROUBLE /\ trouble' = trouble + 1

-----------------------------------------------------------------------------
(* Retention: pruneStoredReportsUnlocked.                                  *)

\* The ledger as it is when the pass begins.
ReadLedger(c) ==
    /\ At(c, "ledger")
    /\ work' = [work EXCEPT ![c].step = "list", ![c].prior = debts, ![c].flagged = maintenance]
    /\ UNCHANGED <<now, created, objects, ledger, puts, publication, trouble>>

Older(q, r) == created[q] < created[r] \/ (created[q] = created[r] /\ q < r)
NewerIn(S, r) == {q \in S : Older(r, q)}

\* One listing reads so many retention clocks, those of the oldest whole shares first;
\* a young report without a sidecar may be a publication under way and is left alone.
\* R2's own clock of an object is taken to be its report's.
Candidates(at) == {r \in primaries : Whole(r) \/ at - created[r] >= GRACE}
ReadFirst(q, r) == IF Whole(q) = Whole(r) THEN Older(q, r) ELSE Whole(q)
Read(at) ==
    {r \in Candidates(at) : Cardinality({q \in Candidates(at) : ReadFirst(q, r)}) < LIST_MAX}
Unread(at) == Candidates(at) \ Read(at)

Kept(at) == {r \in Read(at) : Whole(r) /\ ~ExpiredAt(r, at)}

\* Faulty: the limit on the number of shares spares none.
CrowdedOut(at, incoming) ==
    {r \in Kept(at) : Cardinality(NewerIn(Kept(at), r)) >= MAX_COUNT - incoming}

\* The newest are kept, and those that have not had their time.
Removable(at, incoming) ==
    {r \in Kept(at) : /\ Cardinality(NewerIn(Kept(at), r)) >= MAX_COUNT - incoming
                      /\ at - created[r] >= SURVIVAL}

\* What the objects call for.  A report without a sidecar may be about to get one, and
\* so may a sidecar its report: neither goes before it expires.
Overdue(at) ==
    {Debt(r, "bundle") : r \in {q \in Read(at) : ExpiredAt(q, at)}}
    \cup {Debt(r, "sidecar") : r \in {q \in sidecars \ primaries : ExpiredAt(q, at)}}

\* Faulty: a pass looks at the objects only.
DeletionsOfListed(c, incoming) ==
    Overdue(work[c].at) \cup {Debt(r, "bundle") : r \in Removable(work[c].at, incoming)}

\* What others began to delete, and what the objects call for.
Deletions(c, incoming) ==
    work[c].prior \cup Overdue(work[c].at)
    \cup {Debt(r, "bundle") : r \in Removable(work[c].at, incoming)}

\* The first of them, old debts before the others.
Selections(c, incoming) ==
    {S \in kSubset(Min({MAX_DELETES, Cardinality(Deletions(c, incoming))}), Deletions(c, incoming)) :
       S \subseteq work[c].prior \/ work[c].prior \subseteq S}

Incoming(c) == IF work[c].task = "commit" THEN 1 ELSE 0

\* A further share would be one too many, for the count or for the next listing.
Full(c, selected) ==
    LET standing == Cardinality(Kept(work[c].at)) - Cardinality(Removable(work[c].at, Incoming(c)))
                      + Cardinality({r \in Unread(work[c].at) : Whole(r)})
        deleted == Cardinality({d \in selected : d.scope = "bundle" /\ d.id \in primaries})
    IN  /\ work[c].task = "commit"
        /\ \/ standing + Incoming(c) > PUBLICATION_CAPACITY
           \/ Cardinality(primaries) - deleted + Incoming(c) > LIST_MAX

\* What follows a pass: nothing, or the publication that it made room for.
AfterPass(c, w) ==
    IF w.task = "pass" THEN Release(c) /\ UNCHANGED publication
    ELSE IF w.lost THEN CommitFails(c)
    ELSE IF w.full THEN Answer(c, "refused")
    ELSE work' = [work EXCEPT ![c] = Begin("commit", "primary", w.id)] /\ UNCHANGED publication

\* The listing, and what follows from it.
List(c) ==
    /\ At(c, "list")
    /\ \E selected \in Selections(c, Incoming(c)) :
         LET partial == Unread(work[c].at) # {}
             w == [work[c] EXCEPT !.full = Full(c, selected),
                                  !.doomed = [d \in selected |-> "mark"]]
             further == partial \/ Deletions(c, Incoming(c)) # selected
         IN  \/ /\ selected # {}
                /\ work' = [work EXCEPT ![c] = [w EXCEPT !.step = "warn", !.flagged = further]]
                /\ UNCHANGED publication
             \/ /\ selected = {} /\ w.flagged # partial
                /\ work' = [work EXCEPT ![c] = [w EXCEPT !.step = "signal", !.flagged = partial]]
                /\ UNCHANGED publication
             \/ selected = {} /\ w.flagged = partial /\ AfterPass(c, w)
    /\ UNCHANGED <<now, created, objects, ledger, puts, trouble>>

\* Before anything is deleted, the ledger says that there is work.
Warn(c) ==
    /\ At(c, "warn")
    /\ maintenance' = TRUE
    /\ Go(c, "delete")
    /\ UNCHANGED <<now, created, objects, debts, puts, publication, trouble>>

-----------------------------------------------------------------------------
(* deleteWithRetentionDebt: the debt, the sidecar, the report, the debt.    *)
(* Workers delete side by side; one that fails lets the others finish.     *)

DoomedAt(c, d, step) == At(c, "delete") /\ d \in DOMAIN work[c].doomed /\ work[c].doomed[d] = step
Doom(c, d, step) == work' = [work EXCEPT ![c].doomed[d] = step]

\* Faulty: the report goes before its debt is recorded.
MarkAfterwards(c, d) ==
    /\ DoomedAt(c, d, "mark")
    /\ Doom(c, d, "unlink")
    /\ UNCHANGED <<now, created, objects, ledger, puts, publication, trouble>>

MarkDebt(c, d) ==
    /\ DoomedAt(c, d, "mark")
    /\ debts' = debts \cup {d}
    /\ Doom(c, d, "unlink")
    /\ UNCHANGED <<now, created, objects, maintenance, puts, publication, trouble>>

RemoveSidecar(c, d) ==
    /\ DoomedAt(c, d, "unlink")
    /\ sidecars' = sidecars \ {d.id}
    /\ Doom(c, d, IF d.scope = "bundle" THEN "erase" ELSE "clear")
    /\ UNCHANGED <<now, created, primaries, ledger, puts, publication, trouble>>

RemovePrimary(c, d) ==
    /\ DoomedAt(c, d, "erase")
    /\ primaries' = primaries \ {d.id}
    /\ Doom(c, d, "clear")
    /\ UNCHANGED <<now, created, sidecars, ledger, puts, publication, trouble>>

ClearDebt(c, d) ==
    /\ DoomedAt(c, d, "clear")
    /\ debts' = debts \ {d}
    /\ Doom(c, d, "done")
    /\ UNCHANGED <<now, created, objects, maintenance, puts, publication, trouble>>

\* A call fails, whether or not it took effect.  The report of a bundle is still
\* deleted when its sidecar could not be.
DeleteFails(c, d) ==
    /\ Fails
    /\ \/ /\ \E step \in {"mark", "clear"} : DoomedAt(c, d, step) /\ Doom(c, d, "failed")
          /\ debts' \in {debts, IF DoomedAt(c, d, "mark") THEN debts \cup {d} ELSE debts \ {d}}
          /\ UNCHANGED objects
       \/ /\ DoomedAt(c, d, "unlink")
          /\ Doom(c, d, IF d.scope = "bundle" THEN "erase-only" ELSE "failed")
          /\ sidecars' \in {sidecars, sidecars \ {d.id}}
          /\ UNCHANGED <<primaries, debts>>
       \/ /\ \E step \in {"erase", "erase-only"} : DoomedAt(c, d, step) /\ Doom(c, d, "failed")
          /\ primaries' \in {primaries, primaries \ {d.id}}
          /\ UNCHANGED <<sidecars, debts>>
    /\ UNCHANGED <<now, created, maintenance, puts, publication>>

RemovePrimaryOnly(c, d) ==
    /\ DoomedAt(c, d, "erase-only")
    /\ primaries' = primaries \ {d.id}
    /\ Doom(c, d, "failed")
    /\ UNCHANGED <<now, created, sidecars, ledger, puts, publication, trouble>>

\* Nobody deletes any more.  Deletions that nobody began stay undone when some failed.
EndDeletes(c) ==
    /\ At(c, "delete")
    /\ IF Range(work[c].doomed) = {"done"}
       THEN IF work[c].task = "expire" THEN Release(c) /\ UNCHANGED publication
            ELSE Go(c, "after") /\ UNCHANGED publication
       ELSE /\ Range(work[c].doomed) \subseteq {"mark", "done", "failed"}
            /\ "failed" \in Range(work[c].doomed)
            /\ IF work[c].task = "commit" THEN CommitFails(c)
               ELSE Release(c) /\ UNCHANGED publication
    /\ UNCHANGED <<now, created, objects, ledger, puts, trouble>>

\* The ledger once more.  A debt of others that appeared meanwhile is a deletion under
\* way; an old one that this pass did not come to has failed.
ReadLedgerAgain(c) ==
    /\ At(c, "after")
    /\ work' = [work EXCEPT
                  ![c] = [@ EXCEPT !.step = "signal", !.prior = {}, !.doomed = <<>>,
                                   !.flagged = work[c].flagged \/ debts # {},
                                   !.lost = (debts \cap work[c].prior) \ DOMAIN work[c].doomed # {}]]
    /\ UNCHANGED <<now, created, objects, ledger, puts, publication, trouble>>

Signal(c) ==
    /\ At(c, "signal")
    /\ maintenance' = work[c].flagged
    /\ AfterPass(c, work[c])
    /\ UNCHANGED <<now, created, objects, debts, puts, trouble>>

-----------------------------------------------------------------------------
(* Publication: commitPreparedScanReportBundle,                            *)
(* reconcilePreparedScanReportBundle, and who calls them.                  *)

\* A container has a report to publish.  What becomes of it fits the clock.
Prepare(c, r) ==
    /\ publication[r].state = "none"
    /\ now + RECOVERY <= Horizon
    /\ created' = [created EXCEPT ![r] = now]
    /\ publication' = [publication EXCEPT ![r] = [state |-> "prepared", by |-> c]]
    /\ UNCHANGED <<now, objects, ledger, puts, work, trouble>>

\* The lock is the publisher's: it commits, or reads back what became of its commit.
TakeUp(c, r) ==
    /\ work[c] = Free
    /\ publication[r].by = c
    /\ \/ /\ publication[r].state = "prepared"
          /\ work' = [work EXCEPT ![c] = Begin("commit", "ledger", r)]
       \/ /\ publication[r].state = "readback"
          /\ work' = [work EXCEPT ![c] = Begin("reconcile", "read", r)]
    /\ publication' = [publication EXCEPT ![r].state = "under way"]
    /\ UNCHANGED <<now, created, objects, ledger, puts, trouble>>

\* The coordinator of a durable job has any container read its publication back,
\* possibly while an earlier request still winds down.
Recover(c, r) ==
    /\ work[c] = Free
    /\ publication[r].state \in {"unknown", "lost"}
    /\ now < created[r] + RECOVERY
    /\ work' = [work EXCEPT ![c] = Begin("reconcile", "read", r)]
    /\ UNCHANGED <<now, created, objects, ledger, puts, publication, trouble>>

\* A pass that the health probe asked for.
StartPass(c) ==
    /\ work[c] = Free
    /\ work' = [work EXCEPT ![c] = Begin("pass", "ledger", 0)]
    /\ UNCHANGED <<now, created, objects, ledger, puts, publication, trouble>>

\* Somebody asks for a share that has expired: it is deleted on the spot.
ReadExpired(c, r) ==
    /\ work[c] = Free
    /\ r \in primaries /\ ExpiredAt(r, now)
    /\ work' = [work EXCEPT ![c] = [Begin("expire", "delete", r) EXCEPT
                                       !.doomed = [d \in {Debt(r, "bundle")} |-> "mark"]]]
    /\ UNCHANGED <<now, created, objects, ledger, puts, publication, trouble>>

\* Create-only: what is there already is a conflict, and is looked at.
PutPrimary(c) ==
    /\ At(c, "primary")
    /\ primaries' = primaries \cup {work[c].id}
    /\ Go(c, IF work[c].id \in primaries THEN "adopt" ELSE "sidecar")
    /\ UNCHANGED <<now, created, sidecars, ledger, puts, publication, trouble>>

PutSidecar(c) ==
    /\ At(c, "sidecar")
    /\ sidecars' = sidecars \cup {work[c].id}
    /\ Go(c, IF work[c].id \in sidecars THEN "adopt" ELSE "check")
    /\ UNCHANGED <<now, created, primaries, ledger, puts, publication, trouble>>

\* Both objects of a bundle are read, the report first.  Neither is deleted while its
\* bundle may be asked about, so that the two are as good as read at once.
ReadExactStoredBundle(c) ==
    /\ \/ /\ At(c, "adopt")
          /\ IF Whole(work[c].id) THEN Go(c, "check") /\ UNCHANGED publication
             ELSE CommitFails(c)
       \/ /\ At(c, "check")
          /\ IF Whole(work[c].id) THEN Answer(c, "found") ELSE CommitFails(c)
       \/ /\ At(c, "reread")
          /\ Answer(c, IF Whole(work[c].id) THEN "found" ELSE "broken")
       \/ /\ At(c, "readopt")
          /\ Answer(c, IF Whole(work[c].id) THEN "found" ELSE "unknown")
    /\ UNCHANGED <<now, created, objects, ledger, puts, trouble>>

ReadPrimary(c) ==
    /\ At(c, "read")
    /\ Go(c, IF work[c].id \in primaries THEN "present" ELSE "absent")
    /\ UNCHANGED <<now, created, objects, ledger, puts, publication, trouble>>

\* A report that is not there is asked for again later, one without a sidecar gets it.
ReadSidecar(c) ==
    /\ \/ /\ At(c, "present")
          /\ IF work[c].id \in sidecars THEN Answer(c, "found")
             ELSE Go(c, "repair") /\ UNCHANGED publication
       \/ /\ At(c, "absent")
          /\ IF work[c].id \in sidecars THEN Go(c, "reread") /\ UNCHANGED publication
             ELSE Answer(c, "unknown")
    /\ UNCHANGED <<now, created, objects, ledger, puts, trouble>>

Repair(c) ==
    /\ At(c, "repair")
    /\ sidecars' = sidecars \cup {work[c].id}
    /\ IF work[c].id \in sidecars THEN Go(c, "readopt") /\ UNCHANGED publication
       ELSE Answer(c, "found")
    /\ UNCHANGED <<now, created, primaries, ledger, puts, trouble>>

-----------------------------------------------------------------------------
(* Trouble.                                                                *)

\* What the PUT of a container, if it waits for one, writes.
Putting(c) ==
    CASE At(c, "primary") -> {"primary"}
      [] At(c, "sidecar") \/ At(c, "repair") -> {"sidecar"}
      [] OTHER -> {}

\* A PUT that failed, or whose caller stopped, is lost or goes on.
LoseOrAbandon(c) ==
    \/ UNCHANGED puts
    \/ \E part \in Putting(c) :
         puts' = puts \cup {[part |-> part, id |-> work[c].id, by |-> now + PUT_LAG]}

PutFails(c) ==
    /\ Fails
    /\ Putting(c) # {}
    /\ LoseOrAbandon(c)
    /\ Go(c, IF At(c, "repair") THEN "readopt" ELSE "adopt")
    /\ UNCHANGED <<now, created, objects, ledger, publication>>

\* Another call fails, or the deadline of the operation ends it.
Abort(c) ==
    /\ Fails
    /\ CASE work[c].task = "commit" -> CommitFails(c)
         [] work[c].task = "reconcile" -> Answer(c, "unknown")
         [] work[c].task \in {"pass", "expire"} -> Release(c) /\ UNCHANGED publication
         [] OTHER -> FALSE
    /\ LoseOrAbandon(c)
    /\ maintenance' \in IF At(c, "warn") THEN {maintenance, TRUE}
                        ELSE IF At(c, "signal") THEN {maintenance, work[c].flagged}
                        ELSE {maintenance}
    /\ UNCHANGED <<now, created, objects, debts>>

\* A container stops with whatever it was doing, and nobody hears of its publications.
Crash(c) ==
    /\ Fails
    /\ work[c] # Free
    /\ LoseOrAbandon(c)
    /\ Release(c)
    /\ publication' = [r \in Reports |->
                          IF publication[r].by = c THEN [state |-> "lost", by |-> None]
                          ELSE publication[r]]
    /\ UNCHANGED <<now, created, objects, ledger>>

Lands(p) ==
    /\ puts' = puts \ {p}
    /\ primaries' = IF p.part = "primary" THEN primaries \cup {p.id} ELSE primaries
    /\ sidecars' = IF p.part = "sidecar" THEN sidecars \cup {p.id} ELSE sidecars
    /\ UNCHANGED <<now, created, ledger, publication, work, trouble>>

-----------------------------------------------------------------------------
\* When the operation of a container is over at the latest.
Deadline(c) ==
    IF work[c].task = "reconcile"
    THEN Min({work[c].at + PUBLICATION_TIMEOUT, created[work[c].id] + RECOVERY})
    ELSE work[c].at + PUBLICATION_TIMEOUT

Tick ==
    /\ now < Horizon
    /\ now' = now + 1
    /\ \A c \in Containers : work[c] # Free => now < Deadline(c)
    /\ \A r \in Reports : publication[r].by # None => now < created[r] + PUBLICATION_TIMEOUT
    /\ \A p \in puts : now < p.by
    /\ UNCHANGED <<created, objects, ledger, puts, publication, work, trouble>>

Delete(c, d) ==
    \/ MarkDebt(c, d) \/ RemoveSidecar(c, d) \/ RemovePrimary(c, d) \/ ClearDebt(c, d)
    \/ RemovePrimaryOnly(c, d)

\* What a container does once it holds its lock.
Proceed(c) ==
    \/ ReadLedger(c) \/ List(c) \/ Warn(c) \/ EndDeletes(c) \/ ReadLedgerAgain(c) \/ Signal(c)
    \/ PutPrimary(c) \/ PutSidecar(c) \/ ReadExactStoredBundle(c)
    \/ ReadPrimary(c) \/ ReadSidecar(c) \/ Repair(c)
    \/ \E d \in Debts : Delete(c, d)

Trouble(c) ==
    PutFails(c) \/ Abort(c) \/ Crash(c) \/ \E d \in Debts : DeleteFails(c, d)

Next ==
    \/ Tick
    \/ \E p \in puts : Lands(p)
    \/ \E c \in Containers :
         \/ Proceed(c) \/ Trouble(c) \/ StartPass(c)
         \/ \E r \in Reports : Prepare(c, r) \/ TakeUp(c, r) \/ Recover(c, r) \/ ReadExpired(c, r)

\* R2 answers, publishers that wait get the lock, health probes keep coming.
Fairness ==
    /\ WF_vars(Tick)
    /\ WF_vars(\E p \in puts : Lands(p))
    /\ \A c \in Containers :
         /\ WF_vars(Proceed(c))
         /\ WF_vars(StartPass(c))
         /\ WF_vars(\E r \in Reports : TakeUp(c, r))

Spec == Init /\ [][Next]_vars /\ Fairness

-----------------------------------------------------------------------------
(* Correctness.                                                            *)

\* Whatever a publication was told is so.  A report that was found is whole until it has
\* had its time, though passes of other containers list it and delete later; one that was
\* refused was never written; none is found broken.  One that ended with nothing known,
\* which an in-process job reports as a failure, is not public unless two things went
\* wrong: what one failed call hid was read back.
AnswersHold ==
    \A r \in Reports :
        /\ publication[r].state = "found" /\ now < created[r] + SURVIVAL => Whole(r)
        /\ publication[r].state = "refused" => r \notin primaries \cup sidecars
        /\ publication[r].state # "broken"
        /\ publication[r].state = "unknown" /\ trouble <= 1 => ~Whole(r)

\* A share that lost one of its objects is in the ledger of deletions, whoever deletes
\* it and wherever the deletion stopped: a ledger that is empty means that every
\* published share is whole or gone.
HealthyMeansWhole ==
    \A r \in Reports :
        publication[r].state = "found" /\ (r \in primaries) # (r \in sidecars) =>
            \E d \in debts : d.id = r

\* However publications and deletions failed, what expired goes and stays away, and the
\* store gets healthy again, if moments keep coming at which no container is at work.
\* (Passes that overlap for ever may for ever take over each other's debts.)
RetentionCompletes ==
    []<>(\A c \in Containers : work[c] = Free) =>
        /\ \A r \in Reports :
              <>[](created[r] > 0 /\ ExpiredAt(r, now) => r \notin primaries \cup sidecars)
        /\ []<>(debts = {} /\ ~maintenance)
=============================================================================
