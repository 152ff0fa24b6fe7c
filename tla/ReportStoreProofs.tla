-------------------------- MODULE ReportStoreProofs --------------------------
(***************************************************************************)
(* Theorems about ReportStore, for every set of reports and containers and  *)
(* every choice of the durations and limits that a deployment may make.     *)
(*                                                                         *)
(* The argument is about time.  Whoever may still write a share is done     *)
(* before the share is ripe, and nobody deletes a share that is not: so the *)
(* objects of a ripe share only go, and a deletion that finds its debt      *)
(* cleared by somebody else finds nothing left of the share.               *)
(***************************************************************************)
EXTENDS ReportStore, TLAPS

Tasks == {"none", "pass", "expire", "commit", "reconcile"}

CommitSteps == {"primary", "sidecar", "adopt", "check"}
ReconcileSteps == {"read", "present", "absent", "repair", "reread", "readopt"}
PassSteps == {"ledger", "list", "warn", "after", "signal"}
Steps == {"none", "delete"} \cup PassSteps \cup CommitSteps \cup ReconcileSteps

\* What one deletion has come to.
DeletionSteps == {"mark", "unlink", "erase", "erase-only", "clear", "done", "failed"}
Dooms == {<<>>} \cup UNION {[S -> DeletionSteps] : S \in SUBSET Debts}

Work == [task : Tasks, step : Steps, id : Reports \cup {0}, at : Nat, prior : SUBSET Debts,
         flagged : BOOLEAN, doomed : Dooms, full : BOOLEAN, lost : BOOLEAN]

PublicationStates ==
    {"none", "prepared", "under way", "readback", "found", "unknown", "refused", "broken", "lost"}

\* Somebody is to publish the report.
Held == {"prepared", "under way", "readback"}

TypeOK ==
    /\ now \in Nat \ {0}
    /\ created \in [Reports -> Nat]
    /\ primaries \in SUBSET Reports /\ sidecars \in SUBSET Reports
    /\ debts \in SUBSET Debts /\ maintenance \in BOOLEAN
    /\ puts \in SUBSET [part : {"primary", "sidecar"}, id : Reports, by : Nat]
    /\ publication \in [Reports -> [state : PublicationStates, by : Containers \cup {None}]]
    /\ work \in [Containers -> Work]

\* A share that anybody may delete, and one that somebody may still write.
Ripe(r) == created[r] > 0 /\ now >= created[r] + SURVIVAL
Fresh(r) == created[r] > 0 /\ now <= created[r] + RECOVERY

Gone(r) == r \notin primaries \cup sidecars
Owed(r) == \E d \in debts : d.id = r

\* A deletion is of a ripe share.  Of a share whose report is gone, the sidecar is
\* deleted.
Due(d) == Ripe(d.id) /\ (d.scope = "sidecar" => d.id \notin primaries)

\* Where a deletion has got to: it has its debt until the share is gone.
Doing(d, step) ==
    /\ step \in {"unlink", "erase", "erase-only"} => d \in debts \/ Gone(d.id)
    /\ step = "erase" => d.id \notin sidecars
    /\ step = "clear" => Gone(d.id)

WorkGood(c) ==
    LET w == work[c]
    IN  /\ w.at <= now
        /\ w.step \in CommitSteps => w.task = "commit"
        /\ w.step \in ReconcileSteps => w.task = "reconcile"
        /\ w.step \in PassSteps => w.task \in {"pass", "commit"}
        /\ w.step = "delete" => w.task \in {"pass", "commit", "expire"}
        /\ w.task \in {"commit", "reconcile"} => w.id \in Reports
        /\ w.task = "commit" => publication[w.id].state = "under way" /\ publication[w.id].by = c
        /\ w.task = "reconcile" => Fresh(w.id) /\ publication[w.id].by \in {None, c}
        /\ w.step \in {"present", "repair"} => w.id \in primaries
        /\ \A d \in w.prior : Due(d)
        /\ w.step \in {"warn", "delete"} =>
             \A d \in DOMAIN w.doomed : Due(d) /\ Doing(d, w.doomed[d])

\* The publication of a report: who is to publish it does so in time, and if it was
\* found it is whole, or its deletion was begun and is owed or over.
PublicationGood(r) ==
    /\ publication[r].state = "none" => created[r] = 0 /\ publication[r].by = None
    /\ publication[r].state # "none" => created[r] > 0
    /\ publication[r].by # None => publication[r].state \in Held
    /\ publication[r].by # None => now <= created[r] + PUBLICATION_TIMEOUT
    /\ publication[r].state = "found" => Whole(r) \/ (Ripe(r) /\ (Gone(r) \/ Owed(r)))

PutGood(p) == created[p.id] > 0 /\ now <= p.by /\ p.by <= created[p.id] + RECOVERY + PUT_LAG

Inv ==
    /\ TypeOK
    /\ \A r \in primaries \cup sidecars : created[r] > 0
    /\ \A d \in debts : Due(d)
    /\ \A p \in puts : PutGood(p)
    /\ \A r \in Reports : PublicationGood(r)
    /\ \A c \in Containers : WorkGood(c)

-----------------------------------------------------------------------------
(* Constants and types.                                                    *)

\* What the constants are, and how the durations compare.
LEMMA Durations ==
    /\ PUBLICATION_TIMEOUT \in Nat /\ RECOVERY \in Nat /\ SURVIVAL \in Nat /\ AGE \in Nat
    /\ PUT_LAG \in Nat
    /\ PUBLICATION_TIMEOUT <= RECOVERY /\ RECOVERY + PUT_LAG < SURVIVAL /\ SURVIVAL <= AGE
    /\ Reports \subseteq Nat /\ None \notin Containers
BY ReportStoreAssumption

\* A container that is at nothing.
LEMMA FreeIsWork == Free \in Work
BY DEF Free, Work, Tasks, Steps, Dooms

\* A container that begins something.
LEMMA BeginIsWork ==
    ASSUME NEW task \in Tasks, NEW step \in Steps, NEW r \in Reports \cup {0}, now \in Nat
    PROVE  /\ Begin(task, step, r) \in Work
           /\ Begin(task, step, r).task = task /\ Begin(task, step, r).step = step
           /\ Begin(task, step, r).id = r /\ Begin(task, step, r).at = now
           /\ Begin(task, step, r).prior = {}
BY FreeIsWork DEF Begin, Free, Work

\* Deletions before any of them was begun, and one that gets on.
LEMMA NewDooms ==
    ASSUME NEW S \in SUBSET Debts
    PROVE  /\ [d \in S |-> "mark"] \in Dooms
           /\ DOMAIN [d \in S |-> "mark"] = S
           /\ \A d \in S : [e \in S |-> "mark"][d] = "mark"
<1>1. [d \in S |-> "mark"] \in [S -> DeletionSteps]
  BY DEF DeletionSteps
<1>. QED
  BY <1>1 DEF Dooms

\* One deletion of several has come to another step.
LEMMA NextDooms ==
    ASSUME NEW f \in Dooms, NEW d \in DOMAIN f, DOMAIN f \in SUBSET Debts, NEW step \in DeletionSteps
    PROVE  /\ [f EXCEPT ![d] = step] \in Dooms
           /\ DOMAIN [f EXCEPT ![d] = step] = DOMAIN f
           /\ \A e \in DOMAIN f : [f EXCEPT ![d] = step][e] = IF e = d THEN step ELSE f[e]
<1>1. CASE f = <<>>
  <2>1. DOMAIN f = {}
    BY <1>1
  <2>. QED
    BY <2>1
<1>2. CASE f \in UNION {[S -> DeletionSteps] : S \in SUBSET Debts}
  <2>1. PICK S \in SUBSET Debts : f \in [S -> DeletionSteps]
    BY <1>2
  <2>2. [f EXCEPT ![d] = step] \in [S -> DeletionSteps]
    BY <2>1
  <2>. QED
    BY <2>1, <2>2 DEF Dooms
<1>. QED
  BY <1>1, <1>2 DEF Dooms

-----------------------------------------------------------------------------
(* Steps.                                                                  *)

\* Objects that go belong to ripe shares, whose deletion is owed or over; objects that
\* come belong to shares that are not ripe.
ObjectsMove ==
    \A r \in Reports :
        /\ r \in (primaries \ primaries') \cup (sidecars \ sidecars') => Ripe(r) /\ (Gone(r)' \/ Owed(r)')
        /\ r \in (primaries' \ primaries) \cup (sidecars' \ sidecars) => created[r] > 0 /\ ~Ripe(r)

\* Debts come for deletions that are due, and go when they are over.
DebtsMove ==
    /\ \A d \in debts' \ debts : Due(d)'
    /\ \A d \in debts \ debts' : Gone(d.id)'

\* What container c may do to publications: end its own, or one that nobody waits for.
PublicationsMove(c) ==
    \A r \in Reports :
        \/ publication'[r] = publication[r]
        \/ /\ publication[r].by \in {None, c}
           /\ publication'[r].by \in {None, publication[r].by}
           /\ publication[r].state # "none" /\ publication'[r].state # "none"
           /\ publication'[r].by # None => publication'[r].state \in Held
           /\ publication'[r].state = "found" => publication[r].state = "found" \/ Whole(r)'

\* A step that takes no time, of container c or of R2.
Moves(c) ==
    /\ TypeOK'
    /\ now' = now /\ created' = created
    /\ \A k \in Containers \ {c} : work'[k] = work[k]
    /\ ObjectsMove /\ DebtsMove /\ PublicationsMove(c)
    /\ \A p \in puts' \ puts : PutGood(p)

\* After a step that takes no time, objects are still those of prepared reports, what was
\* ripe or due is, and what was gone stays so.
LEMMA ObjectsAfter ==
    ASSUME Inv, NEW c, Moves(c)
    PROVE  /\ \A r \in primaries' \cup sidecars' : created'[r] > 0
           /\ \A d \in debts : Due(d) => Due(d)'
           /\ \A d \in Debts : Due(d) => Due(d)'
           /\ \A r \in Reports : Ripe(r) /\ Gone(r) => Gone(r)'
           /\ \A r \in Reports : Ripe(r)' <=> Ripe(r)
<1>1. TypeOK /\ TypeOK'
  BY DEF Inv, Moves
<1>2. \A r \in Reports : Ripe(r)' <=> Ripe(r)
  BY DEF Moves, Ripe
<1>3. \A r \in primaries' \cup sidecars' : created'[r] > 0
  <2> TAKE r \in primaries' \cup sidecars'
  <2>1. r \in Reports
    BY <1>1 DEF TypeOK
  <2>2. CASE r \in primaries \cup sidecars
    BY <2>2 DEF Inv, Moves
  <2>3. CASE r \notin primaries \cup sidecars
    BY <2>1, <2>3 DEF Moves, ObjectsMove
  <2>. QED
    BY <2>2, <2>3
<1>4. \A r \in Reports : Ripe(r) /\ Gone(r) => Gone(r)'
  BY DEF Moves, ObjectsMove, Gone
<1>5. \A d \in Debts : Due(d) => Due(d)'
  BY <1>2 DEF Moves, ObjectsMove, Due, Debts
<1>6. debts \subseteq Debts
  BY <1>1 DEF TypeOK
<1>. QED
  BY <1>2, <1>3, <1>4, <1>5, <1>6

\* Who may still write a share is done before it is ripe.
LEMMA FreshNotRipe ==
    ASSUME TypeOK, NEW r \in Reports, Fresh(r)
    PROVE  ~Ripe(r)
<1>1. created[r] \in Nat /\ now \in Nat
  BY DEF TypeOK
<1>. QED
  BY <1>1, Durations DEF Fresh, Ripe

\* What other containers are at stays sound.
LEMMA OthersAfter ==
    ASSUME Inv, NEW c, Moves(c), NEW k \in Containers \ {c}
    PROVE  WorkGood(k)'
<1> DEFINE w == work[k]
<1>1. work'[k] = w /\ w \in Work /\ WorkGood(k)
  BY DEF Moves, Inv, TypeOK
<1>2. now' = now /\ created' = created /\ k # None
  BY Durations DEF Moves
<1>3. w.task = "commit" => publication'[w.id].state = "under way" /\ publication'[w.id].by = k
  <2> HAVE w.task = "commit"
  <2>1. w.id \in Reports /\ publication[w.id].state = "under way" /\ publication[w.id].by = k
    BY <1>1 DEF WorkGood
  <2>. QED
    BY <1>2, <2>1 DEF Moves, PublicationsMove
<1>4. w.task = "reconcile" => Fresh(w.id)' /\ publication'[w.id].by \in {None, k}
  BY <1>1, <1>2 DEF WorkGood, Moves, PublicationsMove, Fresh
<1>5. w.step \in {"present", "repair"} => w.id \in primaries'
  <2> HAVE w.step \in {"present", "repair"}
  <2>1. w.id \in primaries /\ Fresh(w.id) /\ w.id \in Reports
    BY <1>1 DEF WorkGood, ReconcileSteps
  <2>2. ~Ripe(w.id)
    BY <2>1, FreshNotRipe DEF Inv
  <2>. QED
    BY <2>1, <2>2 DEF Moves, ObjectsMove
<1>6. w.prior \in SUBSET Debts /\ w.doomed \in Dooms
  BY <1>1 DEF Work
<1>7. \A d \in w.prior : Due(d)'
  BY <1>1, <1>6, ObjectsAfter DEF WorkGood
<1>8. ASSUME w.step \in {"warn", "delete"}, NEW d \in DOMAIN w.doomed
      PROVE  Due(d)' /\ Doing(d, w.doomed[d])'
  <2>1. Due(d) /\ Doing(d, w.doomed[d])
    BY <1>1, <1>8 DEF WorkGood
  <2>2. d \in Debts /\ d.id \in Reports /\ Ripe(d.id)
    <3>1. CASE w.doomed = <<>>
      BY <1>8, <3>1
    <3>2. CASE w.doomed \in UNION {[S -> DeletionSteps] : S \in SUBSET Debts}
      BY <1>8, <2>1, <3>2 DEF Debts, Due
    <3>. QED
      BY <1>6, <2>1, <3>1, <3>2 DEF Dooms
  <2>3. Gone(d.id) => Gone(d.id)'
    BY <2>2, ObjectsAfter
  <2>4. d \in debts => d \in debts' \/ Gone(d.id)'
    BY DEF Moves, DebtsMove
  <2>5. d.id \notin sidecars => d.id \notin sidecars'
    BY <2>2 DEF Moves, ObjectsMove
  <2>6. Due(d)'
    BY <2>1, <2>2, ObjectsAfter
  <2>7. Doing(d, w.doomed[d])'
    BY <1>1, <2>1, <2>3, <2>4, <2>5 DEF Doing
  <2>. QED
    BY <2>6, <2>7
<1>. QED
  BY <1>1, <1>2, <1>3, <1>4, <1>5, <1>7, <1>8 DEF WorkGood

\* What is known of publications stays true.
LEMMA PublicationsAfter ==
    ASSUME Inv, NEW c, Moves(c), NEW r \in Reports
    PROVE  PublicationGood(r)'
<1>1. PublicationGood(r) /\ now' = now /\ created' = created /\ (Ripe(r)' <=> Ripe(r))
  BY ObjectsAfter DEF Inv, Moves
<1>2. /\ publication'[r].state = "none" => created[r] = 0 /\ publication'[r].by = None
      /\ publication'[r].state # "none" => created[r] > 0
      /\ publication'[r].by # None => publication'[r].state \in Held
      /\ publication'[r].by # None => now <= created[r] + PUBLICATION_TIMEOUT
  BY <1>1 DEF PublicationGood, Moves, PublicationsMove
<1>3. ASSUME Whole(r) \/ (Ripe(r) /\ (Gone(r) \/ Owed(r)))
      PROVE  Whole(r)' \/ (Ripe(r) /\ (Gone(r)' \/ Owed(r)'))
  <2>1. CASE Whole(r)
    BY <2>1 DEF Moves, ObjectsMove, Whole
  <2>2. CASE Ripe(r) /\ Gone(r)
    BY <2>2, ObjectsAfter
  <2>3. CASE Ripe(r) /\ Owed(r)
    BY <2>3 DEF Owed, Moves, DebtsMove
  <2>. QED
    BY <1>3, <2>1, <2>2, <2>3
<1>4. publication'[r].state = "found" => Whole(r)' \/ publication[r].state = "found"
  BY DEF Moves, PublicationsMove
<1>. QED
  BY <1>1, <1>2, <1>3, <1>4 DEF PublicationGood

\* It is enough to look at the container that moves.
LEMMA MovesKeep ==
    ASSUME Inv, NEW c, Moves(c), c \in Containers => WorkGood(c)'
    PROVE  Inv'
<1>1. TypeOK'
  BY DEF Moves
<1>2. \A d \in debts' : Due(d)'
  BY ObjectsAfter DEF Inv, Moves, DebtsMove
<1>3. \A p \in puts' : PutGood(p)'
  BY DEF Inv, Moves, PutGood
<1>. QED
  BY <1>1, <1>2, <1>3, ObjectsAfter, OthersAfter, PublicationsAfter DEF Inv

-----------------------------------------------------------------------------
(* What one container does.                                                *)

Sound(c) == Moves(c) /\ WorkGood(c)'

Others == <<now, created, objects, debts, puts, publication>>

\* The mutation of one container is replaced.
LEMMA WorkAfter ==
    ASSUME TypeOK, NEW c \in Containers, NEW w \in Work, work' = [work EXCEPT ![c] = w]
    PROVE  /\ work' \in [Containers -> Work]
           /\ work'[c] = w
           /\ \A k \in Containers \ {c} : work'[k] = work[k]
BY DEF TypeOK

\* It gets to another step, and is otherwise what it was.
LEMMA GoAfter ==
    ASSUME TypeOK, NEW c \in Containers, NEW step \in Steps, Go(c, step)
    PROVE  /\ work' = [work EXCEPT ![c] = [work[c] EXCEPT !.step = step]]
           /\ [work[c] EXCEPT !.step = step] \in Work
           /\ work' \in [Containers -> Work]
           /\ \A k \in Containers \ {c} : work'[k] = work[k]
           /\ work'[c].step = step /\ work'[c].task = work[c].task /\ work'[c].id = work[c].id
           /\ work'[c].at = work[c].at /\ work'[c].prior = work[c].prior
           /\ work'[c].doomed = work[c].doomed
BY DEF TypeOK, Go, Work

\* Nothing but the work of c changes.
LEMMA QuietMoves ==
    ASSUME TypeOK, NEW c \in Containers, UNCHANGED Others, maintenance' \in BOOLEAN,
           work' \in [Containers -> Work], \A k \in Containers \ {c} : work'[k] = work[k]
    PROVE  Moves(c)
BY DEF Moves, Others, objects, ObjectsMove, DebtsMove, PublicationsMove, TypeOK

\* A container that holds no lock owes nothing.
LEMMA FreeGood ==
    ASSUME TypeOK, NEW c \in Containers, now' = now, work'[c] = Free
    PROVE  WorkGood(c)'
BY DEF TypeOK, WorkGood, Free, CommitSteps, ReconcileSteps, PassSteps

\* So does one that releases it.
LEMMA ReleaseAfter ==
    ASSUME TypeOK, NEW c \in Containers, Release(c), now' = now
    PROVE  /\ work' \in [Containers -> Work]
           /\ \A k \in Containers \ {c} : work'[k] = work[k]
           /\ WorkGood(c)'
<1>1. work'[c] = Free /\ work' \in [Containers -> Work] /\ \A k \in Containers \ {c} : work'[k] = work[k]
  BY FreeIsWork, WorkAfter DEF Release
<1>. QED
  BY <1>1, FreeGood

\* A publication ends as it is told.
LEMMA AnswerAfter ==
    ASSUME Inv, NEW c \in Containers, NEW state \in PublicationStates \ {"none"}, Answer(c, state),
           work[c].task \in {"commit", "reconcile"}, now' = now, created' = created,
           state = "found" => work[c].id \in primaries' \cap sidecars'
    PROVE  /\ work' \in [Containers -> Work]
           /\ \A k \in Containers \ {c} : work'[k] = work[k]
           /\ WorkGood(c)'
           /\ publication' \in [Reports -> [state : PublicationStates, by : Containers \cup {None}]]
           /\ PublicationsMove(c)
<1> DEFINE r == work[c].id
<1>1. TypeOK /\ r \in Reports /\ publication[r].by \in {None, c}
  BY DEF Inv, WorkGood
<1>0. publication[r].state # "none"
  <2>1. CASE work[c].task = "commit"
    BY <1>1, <2>1 DEF Inv, WorkGood
  <2>2. CASE work[c].task = "reconcile"
    <3>1. created[r] > 0 /\ created[r] \in Nat
      BY <1>1, <2>2 DEF Inv, WorkGood, Fresh, TypeOK
    <3>2. publication[r].state = "none" => created[r] = 0
      BY <1>1 DEF Inv, PublicationGood
    <3>. QED
      BY <3>1, <3>2
  <2>. QED
    BY <2>1, <2>2
<1>2. publication' = [publication EXCEPT ![r] =
                        IF publication[r].state = "found" THEN publication[r]
                        ELSE [state |-> state, by |-> None]]
  BY DEF Answer
<1>3. publication' \in [Reports -> [state : PublicationStates, by : Containers \cup {None}]]
  BY <1>1, <1>2 DEF TypeOK
<1>4. PublicationsMove(c)
  <2> SUFFICES ASSUME NEW q \in Reports, publication'[q] # publication[q]
               PROVE  /\ publication[q].by \in {None, c}
                      /\ publication'[q].by \in {None, publication[q].by}
                      /\ publication[q].state # "none" /\ publication'[q].state # "none"
                      /\ publication'[q].by # None => publication'[q].state \in Held
                      /\ publication'[q].state = "found" =>
                           publication[q].state = "found" \/ Whole(q)'
    BY DEF PublicationsMove
  <2>1. q = r /\ publication'[q] = [state |-> state, by |-> None]
    BY <1>1, <1>2 DEF TypeOK
  <2>2. publication'[q].state = state /\ publication'[q].by = None
    BY <2>1
  <2>. QED
    BY <1>0, <1>1, <2>1, <2>2 DEF Whole
<1>. QED
  BY <1>1, <1>3, <1>4, ReleaseAfter DEF Answer

\* A commit that failed is to be read back.
LEMMA CommitFailsAfter ==
    ASSUME Inv, NEW c \in Containers, CommitFails(c), work[c].task = "commit", now' = now
    PROVE  /\ work' \in [Containers -> Work]
           /\ \A k \in Containers \ {c} : work'[k] = work[k]
           /\ WorkGood(c)'
           /\ publication' \in [Reports -> [state : PublicationStates, by : Containers \cup {None}]]
           /\ PublicationsMove(c)
<1> DEFINE r == work[c].id
<1>1. TypeOK /\ r \in Reports /\ publication[r].by = c /\ publication[r].state = "under way"
  BY DEF Inv, WorkGood
<1>2. publication' = [publication EXCEPT ![r] = [publication[r] EXCEPT !.state = "readback"]]
  BY DEF CommitFails
<1>3. [publication[r] EXCEPT !.state = "readback"] \in [state : PublicationStates, by : Containers \cup {None}]
  BY <1>1 DEF TypeOK, PublicationStates
<1>4. [publication[r] EXCEPT !.state = "readback"].by = c /\ [publication[r] EXCEPT !.state = "readback"].state = "readback"
  BY <1>1, <1>3 DEF TypeOK
<1>5. publication' \in [Reports -> [state : PublicationStates, by : Containers \cup {None}]]
  BY <1>1, <1>2, <1>3 DEF TypeOK
<1>6. PublicationsMove(c)
  BY <1>1, <1>2, <1>4 DEF TypeOK, PublicationsMove, Held
<1>. QED
  BY <1>1, <1>5, <1>6, ReleaseAfter DEF CommitFails

-----------------------------------------------------------------------------
(* Retention.                                                              *)

\* A deletion that a pass may begin is due.
LEMMA DeletionsDue ==
    ASSUME Inv, NEW c \in Containers, NEW n
    PROVE  /\ Deletions(c, n) \in SUBSET Debts
           /\ \A d \in Deletions(c, n) : Due(d)
<1> DEFINE at == work[c].at
<1>1. TypeOK /\ at \in Nat /\ at <= now /\ now \in Nat /\ work[c].prior \in SUBSET Debts
  BY DEF Inv, TypeOK, WorkGood, Work
<1>2. ASSUME NEW r \in primaries \cup sidecars, at >= created[r] + SURVIVAL
      PROVE  r \in Reports /\ Ripe(r)
  BY <1>1, <1>2, Durations DEF Inv, TypeOK, Ripe
<1>3. ASSUME NEW r \in primaries \cup sidecars, ExpiredAt(r, at)
      PROVE  r \in Reports /\ Ripe(r)
  <2>1. r \in Reports /\ created[r] \in Nat
    BY <1>1 DEF TypeOK
  <2>. QED
    BY <1>1, <1>2, <1>3, <2>1, Durations DEF ExpiredAt
<1>4. Read(at) \subseteq primaries
  BY DEF Read, Candidates
<1>5. ASSUME NEW d \in Overdue(at)
      PROVE  d \in Debts /\ Due(d)
  <2>1. CASE d \in {Debt(r, "bundle") : r \in {q \in Read(at) : ExpiredAt(q, at)}}
    <3>1. PICK r \in Read(at) : ExpiredAt(r, at) /\ d = Debt(r, "bundle")
      BY <2>1
    <3>2. r \in Reports /\ Ripe(r)
      BY <1>3, <1>4, <3>1
    <3>. QED
      BY <3>1, <3>2 DEF Due, Debt, Debts
  <2>2. CASE d \in {Debt(r, "sidecar") : r \in {q \in sidecars \ primaries : ExpiredAt(q, at)}}
    <3>1. PICK r \in sidecars \ primaries : ExpiredAt(r, at) /\ d = Debt(r, "sidecar")
      BY <2>2
    <3>2. r \in Reports /\ Ripe(r)
      BY <1>3, <3>1
    <3>. QED
      BY <3>1, <3>2 DEF Due, Debt, Debts
  <2>. QED
    BY <1>5, <2>1, <2>2 DEF Overdue
<1>6. ASSUME NEW r \in Removable(at, n)
      PROVE  Debt(r, "bundle") \in Debts /\ Due(Debt(r, "bundle"))
  <2>1. r \in primaries /\ at - created[r] >= SURVIVAL
    BY <1>4, <1>6 DEF Removable, Kept
  <2>2. r \in Reports /\ created[r] \in Nat
    BY <1>1, <2>1 DEF TypeOK
  <2>3. Ripe(r)
    BY <1>1, <1>2, <2>1, <2>2, Durations
  <2>. QED
    BY <2>2, <2>3 DEF Due, Debt, Debts
<1>7. \A d \in work[c].prior : Due(d)
  BY DEF Inv, WorkGood
<1>. QED
  BY <1>1, <1>5, <1>6, <1>7 DEF Deletions

\* A pass that has read the ledger knows debts that are due.
LEMMA ReadLedgerSound ==
    ASSUME Inv, NEW c \in Containers, ReadLedger(c)
    PROVE  Sound(c)
<1> DEFINE w == [work[c] EXCEPT !.step = "list", !.prior = debts, !.flagged = maintenance]
<1>1. TypeOK /\ WorkGood(c) /\ UNCHANGED Others /\ maintenance' \in BOOLEAN
  BY DEF Inv, TypeOK, ReadLedger, ledger, Others
<1>2. /\ w \in Work /\ w.step = "list" /\ w.prior = debts
      /\ w.task = work[c].task /\ w.id = work[c].id /\ w.at = work[c].at
  BY <1>1 DEF TypeOK, Work, Steps, PassSteps
<1>3. work' = [work EXCEPT ![c] = w]
  BY DEF ReadLedger
<1>4. /\ work' \in [Containers -> Work]
      /\ work'[c] = w
      /\ \A k \in Containers \ {c} : work'[k] = work[k]
  BY <1>1, <1>2, <1>3, WorkAfter
<1>5. Moves(c)
  BY <1>1, <1>4, QuietMoves
<1>6. work[c].task \in {"pass", "commit"}
  BY <1>1 DEF ReadLedger, At, WorkGood, PassSteps
<1>7. \A d \in debts : Due(d)'
  BY <1>5, ObjectsAfter DEF Inv
<1>8. WorkGood(c)'
  BY <1>1, <1>2, <1>4, <1>6, <1>7 DEF WorkGood, Others, PassSteps, CommitSteps, ReconcileSteps
<1>. QED
  BY <1>5, <1>8 DEF Sound

\* What follows a pass.
LEMMA AfterPassSound ==
    ASSUME Inv, NEW c \in Containers, NEW w, AfterPass(c, w),
           w.task = work[c].task, w.id = work[c].id, work[c].task \in {"pass", "commit"},
           UNCHANGED <<now, created, objects, debts, puts>>, maintenance' \in BOOLEAN
    PROVE  Sound(c)
<1>1. TypeOK /\ WorkGood(c)
  BY DEF Inv
<1>2. ASSUME work' \in [Containers -> Work], \A k \in Containers \ {c} : work'[k] = work[k],
             publication' \in [Reports -> [state : PublicationStates, by : Containers \cup {None}]],
             PublicationsMove(c)
      PROVE  Moves(c)
  BY <1>1, <1>2 DEF Moves, TypeOK, ObjectsMove, DebtsMove, objects
<1>3. CASE w.task = "pass"
  <2>1. Release(c) /\ UNCHANGED publication
    BY <1>3 DEF AfterPass
  <2>. QED
    BY <1>1, <2>1, ReleaseAfter, QuietMoves DEF Sound, Others
<1>4. CASE w.task = "commit" /\ CommitFails(c)
  BY <1>2, <1>4, CommitFailsAfter DEF Sound
<1>5. CASE w.task = "commit" /\ Answer(c, "refused")
  <2>1. "refused" \in PublicationStates \ {"none"}
    BY DEF PublicationStates
  <2>. QED
    BY <1>2, <1>5, <2>1, AnswerAfter DEF Sound
<1>6. CASE w.task = "commit" /\ UNCHANGED publication
             /\ work' = [work EXCEPT ![c] = Begin("commit", "primary", w.id)]
  <2> DEFINE b == Begin("commit", "primary", w.id)
  <2>1. w.id \in Reports /\ publication[w.id].state = "under way" /\ publication[w.id].by = c
    BY <1>1, <1>6 DEF WorkGood
  <2>0. "commit" \in Tasks /\ "primary" \in Steps /\ w.id \in Reports \cup {0} /\ now \in Nat
    BY <1>1, <2>1 DEF Tasks, Steps, CommitSteps, TypeOK
  <2>2. /\ b \in Work /\ b.task = "commit" /\ b.step = "primary" /\ b.id = w.id
        /\ b.at = now /\ b.prior = {}
    BY <2>0, BeginIsWork
  <2> HIDE DEF b
  <2>3. /\ work' \in [Containers -> Work]
        /\ work'[c] = b
        /\ \A k \in Containers \ {c} : work'[k] = work[k]
    BY <1>1, <1>6, <2>2, WorkAfter DEF b
  <2>6. now' = now /\ publication' = publication
    BY <1>6
  <2>7. b.at <= now
    BY <2>0, <2>2
  <2>8. publication'[b.id].state = "under way" /\ publication'[b.id].by = c
    BY <2>1, <2>2, <2>6
  <2>4. WorkGood(c)'
    BY <2>1, <2>2, <2>3, <2>6, <2>7, <2>8 DEF WorkGood, CommitSteps, ReconcileSteps, PassSteps
  <2>5. Moves(c)
    BY <1>1, <1>6, <2>3, QuietMoves DEF Others
  <2>. QED
    BY <2>4, <2>5 DEF Sound
<1>. QED
  BY <1>3, <1>4, <1>5, <1>6 DEF AfterPass

\* The container goes on with a pass, knows it, and has picked the deletions in S.
LEMMA PassGoesOn ==
    ASSUME Inv, NEW c \in Containers, NEW w \in Work, work' = [work EXCEPT ![c] = w],
           UNCHANGED Others, maintenance' \in BOOLEAN,
           work[c].task \in {"pass", "commit"},
           w.task = work[c].task, w.id = work[c].id, w.at = work[c].at,
           w.step \in {"warn", "delete", "after", "signal"},
           w.prior \in SUBSET work[c].prior,
           w.step \in {"warn", "delete"} =>
             \A d \in DOMAIN w.doomed : d \in Debts /\ Due(d) /\ w.doomed[d] = "mark"
    PROVE  Sound(c)
<1>1. TypeOK /\ WorkGood(c)
  BY DEF Inv
<1>2. /\ work' \in [Containers -> Work]
      /\ work'[c] = w
      /\ \A k \in Containers \ {c} : work'[k] = work[k]
  BY <1>1, WorkAfter
<1>3. Moves(c)
  BY <1>1, <1>2, QuietMoves
<1>4. \A d \in w.prior : Due(d)'
  <2> TAKE d \in w.prior
  <2>1. Due(d) /\ d \in Debts
    BY <1>1 DEF WorkGood, TypeOK, Work
  <2>. QED
    BY <1>3, <2>1, ObjectsAfter
<1>5. ASSUME w.step \in {"warn", "delete"}, NEW d \in DOMAIN w.doomed
      PROVE  Due(d)' /\ Doing(d, w.doomed[d])'
  <2>1. d \in Debts /\ Due(d) /\ w.doomed[d] = "mark"
    BY <1>5
  <2>2. Due(d)'
    BY <1>3, <2>1, ObjectsAfter
  <2>. QED
    BY <2>1, <2>2 DEF Doing
<1>6. publication' = publication /\ now' = now
  BY DEF Others
<1>7. w.task = "commit" => /\ w.id \in Reports /\ publication'[w.id].state = "under way"
                           /\ publication'[w.id].by = c
  BY <1>1, <1>6 DEF WorkGood
<1>8. w.at <= now
  BY <1>1 DEF WorkGood
<1>. QED
  BY <1>2, <1>3, <1>4, <1>5, <1>6, <1>7, <1>8
     DEF Sound, WorkGood, PassSteps, CommitSteps, ReconcileSteps

\* A pass that has listed the objects picks deletions that are due.
LEMMA ListSound ==
    ASSUME Inv, NEW c \in Containers, List(c)
    PROVE  Sound(c)
<1>1. TypeOK /\ WorkGood(c) /\ UNCHANGED <<now, created, objects, debts, puts>> /\ maintenance' \in BOOLEAN
  BY DEF Inv, TypeOK, List, ledger
<1>2. work[c].task \in {"pass", "commit"} /\ work[c] \in Work
  BY <1>1 DEF List, At, WorkGood, PassSteps, TypeOK
<1>3. PICK selected \in Selections(c, Incoming(c)) :
         LET partial == Unread(work[c].at) # {}
             w == [work[c] EXCEPT !.full = Full(c, selected),
                                  !.doomed = [d \in selected |-> "mark"]]
             further == partial \/ Deletions(c, Incoming(c)) # selected
         IN  \/ /\ selected # {}
                /\ work' = [work EXCEPT ![c] = [w EXCEPT !.step = "warn", !.flagged = further]]
                /\ UNCHANGED publication
             \/ /\ selected = {} /\ w.flagged # partial
                /\ work' = [work EXCEPT ![c] = [w EXCEPT !.step = "signal", !.flagged = partial]]
                /\ UNCHANGED publication
             \/ selected = {} /\ w.flagged = partial /\ AfterPass(c, w)
  BY DEF List
<1> DEFINE full == Full(c, selected)
           marks == [d \in selected |-> "mark"]
           w == [work[c] EXCEPT !.full = full, !.doomed = marks]
           partial == Unread(work[c].at) # {}
           further == partial \/ Deletions(c, Incoming(c)) # selected
<1>4. selected \in SUBSET Debts /\ \A d \in selected : Due(d)
  BY DeletionsDue DEF Selections, kSubset
<1>5. /\ marks \in Dooms /\ DOMAIN marks = selected
      /\ \A d \in selected : marks[d] = "mark"
  BY <1>4, NewDooms
<1>6. full \in BOOLEAN /\ partial \in BOOLEAN /\ further \in BOOLEAN
  BY DEF Full
<1> HIDE DEF full, marks, partial, further
<1>7. /\ w \in Work /\ w.task = work[c].task /\ w.id = work[c].id /\ w.at = work[c].at
      /\ w.prior = work[c].prior /\ w.doomed = marks
  BY <1>2, <1>5, <1>6 DEF Work
<1>8. CASE work' = [work EXCEPT ![c] = [w EXCEPT !.step = "warn", !.flagged = further]] /\ UNCHANGED publication
  <2> DEFINE v == [w EXCEPT !.step = "warn", !.flagged = further]
  <2>1. /\ v \in Work /\ v.task = w.task /\ v.id = w.id /\ v.at = w.at
        /\ v.prior = w.prior /\ v.doomed = marks /\ v.step = "warn"
    BY <1>6, <1>7 DEF Work, Steps, PassSteps
  <2>2. UNCHANGED Others
    BY <1>1, <1>8 DEF Others
  <2> HIDE DEF v
  <2>3. work' = [work EXCEPT ![c] = v]
    BY <1>8 DEF v
  <2>. QED
    BY <1>1, <1>2, <1>4, <1>5, <1>7, <2>1, <2>2, <2>3, PassGoesOn
<1>9. CASE work' = [work EXCEPT ![c] = [w EXCEPT !.step = "signal", !.flagged = partial]] /\ UNCHANGED publication
  <2> DEFINE v == [w EXCEPT !.step = "signal", !.flagged = partial]
  <2>1. /\ v \in Work /\ v.task = w.task /\ v.id = w.id /\ v.at = w.at
        /\ v.prior = w.prior /\ v.step = "signal"
    BY <1>6, <1>7 DEF Work, Steps, PassSteps
  <2>2. UNCHANGED Others
    BY <1>1, <1>9 DEF Others
  <2> HIDE DEF v
  <2>3. work' = [work EXCEPT ![c] = v]
    BY <1>9 DEF v
  <2>. QED
    BY <1>1, <1>2, <1>7, <2>1, <2>2, <2>3, PassGoesOn
<1>10. CASE AfterPass(c, w)
  BY <1>1, <1>2, <1>7, <1>10, AfterPassSound
<1>. QED
  BY <1>3, <1>8, <1>9, <1>10 DEF full, marks, partial, further

\* The warning starts the deletions, none of which has begun.
LEMMA WarnSound ==
    ASSUME Inv, NEW c \in Containers, Warn(c)
    PROVE  Sound(c)
<1>1. TypeOK /\ WorkGood(c) /\ UNCHANGED Others /\ maintenance' \in BOOLEAN
  BY DEF Inv, TypeOK, Warn, Others
<1>2. /\ work[c].task \in {"pass", "commit"}
      /\ work[c].step = "warn"
  BY <1>1 DEF Warn, At, WorkGood, PassSteps
<1>3. "delete" \in Steps /\ Go(c, "delete")
  BY DEF Steps, Warn
<1> DEFINE w == work'[c]
<1>4. /\ work' \in [Containers -> Work] /\ \A k \in Containers \ {c} : work'[k] = work[k]
      /\ w.step = "delete" /\ w.task = work[c].task /\ w.id = work[c].id
      /\ w.at = work[c].at /\ w.prior = work[c].prior /\ w.doomed = work[c].doomed
  BY <1>1, <1>3, GoAfter
<1>5. Moves(c)
  BY <1>1, <1>4, QuietMoves
<1>6. now' = now /\ publication' = publication /\ debts' = debts /\ primaries' = primaries
      /\ sidecars' = sidecars /\ created' = created
  BY <1>1 DEF Others, objects
<1>7. WorkGood(c)'
  BY <1>1, <1>2, <1>4, <1>6
     DEF WorkGood, Due, Doing, Ripe, Gone, PassSteps, CommitSteps, ReconcileSteps
<1>. QED
  BY <1>5, <1>7 DEF Sound

\* When its deletions are over a mutation ends, or goes on with the ledger.
LEMMA EndDeletesSound ==
    ASSUME Inv, NEW c \in Containers, EndDeletes(c)
    PROVE  Sound(c)
<1>1. /\ TypeOK /\ WorkGood(c) /\ UNCHANGED <<now, created, objects, debts, puts>>
      /\ maintenance' = maintenance /\ maintenance' \in BOOLEAN
  BY DEF Inv, TypeOK, EndDeletes, ledger
<1>2. work[c].step = "delete" /\ work[c].task \in {"pass", "commit", "expire"} /\ work[c] \in Work
  BY <1>1 DEF EndDeletes, At, WorkGood, TypeOK
<1>3. CASE Release(c) /\ UNCHANGED publication
  BY <1>1, <1>3, ReleaseAfter, QuietMoves DEF Sound, Others
<1>4. CASE work[c].task # "expire" /\ Go(c, "after") /\ UNCHANGED publication
  <2> DEFINE w == [work[c] EXCEPT !.step = "after"]
  <2>1. /\ w \in Work /\ w.step = "after" /\ w.task = work[c].task /\ w.id = work[c].id
        /\ w.at = work[c].at /\ w.prior = work[c].prior
    BY <1>2 DEF Work, Steps, PassSteps
  <2>2. work' = [work EXCEPT ![c] = w]
    BY <1>4 DEF Go
  <2>3. UNCHANGED Others
    BY <1>1, <1>4 DEF Others
  <2> HIDE DEF w
  <2>. QED
    BY <1>1, <1>2, <1>4, <2>1, <2>2, <2>3, PassGoesOn
<1>5. CASE work[c].task = "commit" /\ CommitFails(c)
  <2>1. /\ work' \in [Containers -> Work] /\ \A k \in Containers \ {c} : work'[k] = work[k]
        /\ WorkGood(c)' /\ PublicationsMove(c)
        /\ publication' \in [Reports -> [state : PublicationStates, by : Containers \cup {None}]]
    BY <1>1, <1>5, CommitFailsAfter
  <2>. QED
    BY <1>1, <2>1 DEF Sound, Moves, TypeOK, ObjectsMove, DebtsMove, objects
<1>. QED
  BY <1>3, <1>4, <1>5 DEF EndDeletes

\* The second look at the ledger forgets what the first one saw.
LEMMA ReadLedgerAgainSound ==
    ASSUME Inv, NEW c \in Containers, ReadLedgerAgain(c)
    PROVE  Sound(c)
<1>1. TypeOK /\ WorkGood(c) /\ UNCHANGED Others /\ maintenance' \in BOOLEAN
  BY DEF Inv, TypeOK, ReadLedgerAgain, ledger, Others
<1>2. work[c].task \in {"pass", "commit"} /\ work[c] \in Work
  BY <1>1 DEF ReadLedgerAgain, At, WorkGood, PassSteps, TypeOK
<1> DEFINE flagged == work[c].flagged \/ debts # {}
           lost == (debts \cap work[c].prior) \ DOMAIN work[c].doomed # {}
           w == [work[c] EXCEPT !.step = "signal", !.prior = {}, !.doomed = <<>>,
                                !.flagged = flagged, !.lost = lost]
<1>4. work' = [work EXCEPT ![c] = w]
  BY DEF ReadLedgerAgain
<1>3. flagged \in BOOLEAN /\ lost \in BOOLEAN
  OBVIOUS
<1> HIDE DEF flagged, lost
<1>5. /\ w \in Work /\ w.step = "signal" /\ w.task = work[c].task /\ w.id = work[c].id
      /\ w.at = work[c].at /\ w.prior = {}
  BY <1>2, <1>3 DEF Work, Steps, PassSteps, Dooms
<1> HIDE DEF w
<1>. QED
  BY <1>1, <1>2, <1>4, <1>5, PassGoesOn

\* The sign of further work changes nothing that the invariant speaks of.
LEMMA SignalSound ==
    ASSUME Inv, NEW c \in Containers, Signal(c)
    PROVE  Sound(c)
<1>1. TypeOK /\ WorkGood(c) /\ UNCHANGED <<now, created, objects, debts, puts>>
  BY DEF Inv, Signal
<1>2. work[c].task \in {"pass", "commit"} /\ maintenance' \in BOOLEAN
  BY <1>1 DEF Signal, At, WorkGood, PassSteps, TypeOK, Work
<1>. QED
  BY <1>1, <1>2, AfterPassSound DEF Signal

-----------------------------------------------------------------------------
(* What a container takes up.                                              *)

\* A pass begins with nothing.
LEMMA StartPassSound ==
    ASSUME Inv, NEW c \in Containers, StartPass(c)
    PROVE  Sound(c)
<1> DEFINE b == Begin("pass", "ledger", 0)
<1>1. TypeOK /\ UNCHANGED Others /\ maintenance' \in BOOLEAN /\ now \in Nat
  BY DEF Inv, TypeOK, StartPass, ledger, Others
<1>2. "pass" \in Tasks /\ "ledger" \in Steps /\ 0 \in Reports \cup {0}
  BY DEF Tasks, Steps, PassSteps
<1>3. /\ b \in Work /\ b.task = "pass" /\ b.step = "ledger" /\ b.at = now /\ b.prior = {}
  BY <1>1, <1>2, BeginIsWork
<1>4. work' = [work EXCEPT ![c] = b]
  BY DEF StartPass
<1> HIDE DEF b
<1>5. /\ work' \in [Containers -> Work] /\ work'[c] = b
      /\ \A k \in Containers \ {c} : work'[k] = work[k]
  BY <1>1, <1>3, <1>4, WorkAfter
<1>6. Moves(c)
  BY <1>1, <1>5, QuietMoves
<1>7. now' = now
  BY <1>1 DEF Others
<1>9. b.at <= now'
  BY <1>1, <1>3, <1>7
<1>8. WorkGood(c)'
  BY <1>3, <1>5, <1>9 DEF WorkGood, PassSteps, CommitSteps, ReconcileSteps
<1>. QED
  BY <1>6, <1>8 DEF Sound

\* A container begins to read back a report that may still be written.
LEMMA ReconcileBegins ==
    ASSUME Inv, NEW c \in Containers, NEW r \in Reports,
           work' = [work EXCEPT ![c] = Begin("reconcile", "read", r)],
           UNCHANGED <<now, created>>, Fresh(r), publication'[r].by \in {None, c}
    PROVE  /\ work' \in [Containers -> Work] /\ \A k \in Containers \ {c} : work'[k] = work[k]
           /\ WorkGood(c)'
<1> DEFINE b == Begin("reconcile", "read", r)
<1>1. TypeOK /\ now \in Nat /\ "reconcile" \in Tasks /\ "read" \in Steps /\ r \in Reports \cup {0}
  BY DEF Inv, TypeOK, Tasks, Steps, ReconcileSteps
<1>2. /\ b \in Work /\ b.task = "reconcile" /\ b.step = "read" /\ b.id = r /\ b.at = now
      /\ b.prior = {}
  BY <1>1, BeginIsWork
<1> HIDE DEF b
<1>3. /\ work' \in [Containers -> Work] /\ work'[c] = b
      /\ \A k \in Containers \ {c} : work'[k] = work[k]
  BY <1>1, <1>2, WorkAfter DEF b
<1>4. Fresh(r)'
  BY DEF Fresh
<1>6. b.at <= now' /\ b.id \in Reports
  BY <1>1, <1>2
<1>5. WorkGood(c)'
  BY <1>2, <1>3, <1>4, <1>6 DEF WorkGood, PassSteps, CommitSteps, ReconcileSteps
<1>. QED
  BY <1>3, <1>5

\* A report that is asked about again may still be written.
LEMMA RecoverSound ==
    ASSUME Inv, NEW c \in Containers, NEW r \in Reports, Recover(c, r)
    PROVE  Sound(c)
<1>1. TypeOK /\ UNCHANGED Others /\ maintenance' \in BOOLEAN
  BY DEF Inv, TypeOK, Recover, ledger, Others
<1>2. PublicationGood(r) /\ publication[r].state \in {"unknown", "lost"}
  BY DEF Inv, Recover
<1>3. created[r] > 0 /\ publication[r].by = None
  BY <1>2 DEF PublicationGood, Held
<1>4. Fresh(r)
  BY <1>1, <1>3, Durations DEF Recover, Fresh, TypeOK
<1>5. now' = now /\ created' = created /\ publication'[r].by \in {None, c}
  BY <1>1, <1>3 DEF Others
<1>6. /\ work' \in [Containers -> Work] /\ \A k \in Containers \ {c} : work'[k] = work[k]
      /\ WorkGood(c)'
  BY <1>4, <1>5, ReconcileBegins DEF Recover
<1>. QED
  BY <1>1, <1>6, QuietMoves DEF Sound

\* The publisher takes its own report up.
LEMMA TakeUpSound ==
    ASSUME Inv, NEW c \in Containers, NEW r \in Reports, TakeUp(c, r)
    PROVE  Sound(c)
<1>1. /\ TypeOK /\ UNCHANGED <<now, created, objects, debts, puts>>
      /\ maintenance' = maintenance /\ maintenance' \in BOOLEAN /\ now \in Nat
  BY DEF Inv, TypeOK, TakeUp, ledger
<1>2. PublicationGood(r) /\ publication[r].by = c /\ c # None
  BY Durations DEF Inv, TakeUp
<1>3. created[r] > 0 /\ now <= created[r] + PUBLICATION_TIMEOUT /\ publication[r].state # "none"
  BY <1>2 DEF PublicationGood, Held
<1>4. publication' = [publication EXCEPT ![r] = [publication[r] EXCEPT !.state = "under way"]]
  BY DEF TakeUp
<1>5. /\ [publication[r] EXCEPT !.state = "under way"] \in [state : PublicationStates, by : Containers \cup {None}]
      /\ [publication[r] EXCEPT !.state = "under way"].state = "under way"
      /\ [publication[r] EXCEPT !.state = "under way"].by = c
  BY <1>1, <1>2 DEF TypeOK, PublicationStates
<1>6. publication' \in [Reports -> [state : PublicationStates, by : Containers \cup {None}]]
  BY <1>1, <1>4, <1>5 DEF TypeOK
<1>7. publication'[r].state = "under way" /\ publication'[r].by = c
  BY <1>1, <1>4, <1>5 DEF TypeOK
<1>8. PublicationsMove(c)
  <2>1. \A q \in Reports \ {r} : publication'[q] = publication[q]
    BY <1>1, <1>4 DEF TypeOK
  <2>. QED
    BY <1>2, <1>3, <1>7, <2>1 DEF PublicationsMove, Held
<1>9. ASSUME work' \in [Containers -> Work], \A k \in Containers \ {c} : work'[k] = work[k]
      PROVE  Moves(c)
  BY <1>1, <1>6, <1>8, <1>9 DEF Moves, TypeOK, ObjectsMove, DebtsMove, objects
<1>10. CASE work' = [work EXCEPT ![c] = Begin("commit", "ledger", r)]
  <2> DEFINE b == Begin("commit", "ledger", r)
  <2>1. "commit" \in Tasks /\ "ledger" \in Steps /\ r \in Reports \cup {0}
    BY DEF Tasks, Steps, PassSteps
  <2>2. /\ b \in Work /\ b.task = "commit" /\ b.step = "ledger" /\ b.id = r /\ b.at = now
        /\ b.prior = {}
    BY <1>1, <2>1, BeginIsWork
  <2> HIDE DEF b
  <2>3. /\ work' \in [Containers -> Work] /\ work'[c] = b
        /\ \A k \in Containers \ {c} : work'[k] = work[k]
    BY <1>1, <1>10, <2>2, WorkAfter DEF b
  <2>4. publication'[b.id].state = "under way" /\ publication'[b.id].by = c
    BY <1>7, <2>2
  <2>5. b.at <= now' /\ b.id \in Reports
    BY <1>1, <2>2
  <2>6. WorkGood(c)'
    BY <2>2, <2>3, <2>4, <2>5 DEF WorkGood, PassSteps, CommitSteps, ReconcileSteps
  <2>. QED
    BY <1>9, <2>3, <2>6 DEF Sound
<1>11. CASE work' = [work EXCEPT ![c] = Begin("reconcile", "read", r)]
  <2>1. created[r] \in Nat
    BY <1>1 DEF TypeOK
  <2>2. Fresh(r)
    BY <1>1, <1>3, <2>1, Durations DEF Fresh
  <2>. QED
    BY <1>1, <1>7, <1>9, <1>11, <2>2, ReconcileBegins DEF Sound
<1>. QED
  BY <1>10, <1>11 DEF TakeUp

\* What has expired is ripe.
LEMMA ReadExpiredSound ==
    ASSUME Inv, NEW c \in Containers, NEW r \in Reports, ReadExpired(c, r)
    PROVE  Sound(c)
<1>1. TypeOK /\ UNCHANGED Others /\ maintenance' \in BOOLEAN /\ now \in Nat
  BY DEF Inv, TypeOK, ReadExpired, ledger, Others
<1> DEFINE d == Debt(r, "bundle")
           marks == [e \in {d} |-> "mark"]
           b == Begin("expire", "delete", r)
           w == [b EXCEPT !.doomed = marks]
<1>2. d \in Debts /\ Due(d)
  <2>1. created[r] \in Nat /\ created[r] > 0 /\ now >= created[r] + AGE
    BY <1>1 DEF Inv, TypeOK, ReadExpired, ExpiredAt
  <2>2. Ripe(r)
    BY <1>1, <2>1, Durations DEF Ripe
  <2>. QED
    BY <2>2 DEF Due, Debt, Debts
<1>3. marks \in Dooms /\ DOMAIN marks = {d} /\ marks[d] = "mark"
  BY <1>2, NewDooms
<1>4. "expire" \in Tasks /\ "delete" \in Steps /\ r \in Reports \cup {0}
  BY DEF Tasks, Steps
<1>5. b \in Work /\ b.task = "expire" /\ b.step = "delete" /\ b.at = now /\ b.prior = {}
  BY <1>1, <1>4, BeginIsWork
<1>6. work' = [work EXCEPT ![c] = w]
  BY DEF ReadExpired
<1> HIDE DEF b, marks, d
<1>7. /\ w \in Work /\ w.task = "expire" /\ w.step = "delete" /\ w.at = now /\ w.prior = {}
      /\ w.doomed = marks
  BY <1>3, <1>5 DEF Work
<1> HIDE DEF w
<1>8. /\ work' \in [Containers -> Work] /\ work'[c] = w
      /\ \A k \in Containers \ {c} : work'[k] = work[k]
  BY <1>1, <1>6, <1>7, WorkAfter
<1>9. Moves(c)
  BY <1>1, <1>8, QuietMoves
<1>10. Due(d)' /\ now' = now
  BY <1>1, <1>2, <1>9, ObjectsAfter DEF Others
<1>12. w.at <= now'
  BY <1>1, <1>7, <1>10
<1>11. WorkGood(c)'
  BY <1>3, <1>7, <1>8, <1>10, <1>12 DEF WorkGood, Doing, PassSteps, CommitSteps, ReconcileSteps
<1>. QED
  BY <1>9, <1>11 DEF Sound

-----------------------------------------------------------------------------
(* Publication.                                                            *)

\* Who is at a publication may still write it.
LEMMA WriterFresh ==
    ASSUME Inv, NEW c \in Containers, work[c].task \in {"commit", "reconcile"}
    PROVE  work[c].id \in Reports /\ Fresh(work[c].id) /\ ~Ripe(work[c].id) /\ created[work[c].id] > 0
<1> DEFINE r == work[c].id
<1>1. r \in Reports /\ TypeOK
  BY DEF Inv, WorkGood
<1>2. CASE work[c].task = "commit"
  <2>1. publication[r].by = c /\ c # None /\ publication[r].state = "under way"
    BY <1>2, Durations DEF Inv, WorkGood
  <2>2. created[r] > 0 /\ now <= created[r] + PUBLICATION_TIMEOUT
    BY <1>1, <2>1 DEF Inv, PublicationGood
  <2>4. created[r] \in Nat /\ now \in Nat
    BY <1>1 DEF TypeOK
  <2>3. Fresh(r)
    BY <2>2, <2>4, Durations DEF Fresh
  <2>. QED
    BY <1>1, <2>2, <2>3, FreshNotRipe
<1>3. CASE work[c].task = "reconcile"
  <2>1. Fresh(r)
    BY <1>3 DEF Inv, WorkGood
  <2>. QED
    BY <1>1, <2>1, FreshNotRipe DEF Fresh
<1>. QED
  BY <1>2, <1>3

\* What it writes is its report.
LEMMA WriteMoves ==
    ASSUME Inv, NEW c \in Containers, work[c].task \in {"commit", "reconcile"},
           now' = now, created' = created, debts' = debts, maintenance' \in BOOLEAN,
           primaries' \in {primaries, primaries \cup {work[c].id}},
           sidecars' \in {sidecars, sidecars \cup {work[c].id}},
           puts' \in SUBSET [part : {"primary", "sidecar"}, id : Reports, by : Nat],
           \A p \in puts' \ puts : PutGood(p),
           work' \in [Containers -> Work], \A k \in Containers \ {c} : work'[k] = work[k],
           publication' \in [Reports -> [state : PublicationStates, by : Containers \cup {None}]],
           PublicationsMove(c)
    PROVE  Moves(c)
<1>1. /\ work[c].id \in Reports /\ ~Ripe(work[c].id) /\ created[work[c].id] > 0
      /\ TypeOK
  BY WriterFresh DEF Inv
<1>2. ObjectsMove
  BY <1>1 DEF ObjectsMove
<1>3. DebtsMove
  BY DEF DebtsMove
<1>4. TypeOK'
  BY <1>1 DEF TypeOK
<1>. QED
  BY <1>2, <1>3, <1>4 DEF Moves

\* It goes on with it.
LEMMA GoesOnWriting ==
    ASSUME Inv, NEW c \in Containers, work[c].task \in {"commit", "reconcile"}, Moves(c),
           NEW step \in CommitSteps \cup ReconcileSteps, Go(c, step), publication' = publication,
           work[c].task = "commit" => step \in CommitSteps,
           work[c].task = "reconcile" => step \in ReconcileSteps,
           step \in {"present", "repair"} => work[c].id \in primaries'
    PROVE  WorkGood(c)'
<1>1. TypeOK /\ WorkGood(c) /\ now' = now /\ created' = created /\ step \in Steps
  BY DEF Inv, Moves, Steps
<1> DEFINE w == work'[c]
<1>2. /\ w.step = step /\ w.task = work[c].task /\ w.id = work[c].id
      /\ w.at = work[c].at /\ w.prior = work[c].prior
  BY <1>1, GoAfter
<1>3. \A d \in w.prior : Due(d)'
  <2> TAKE d \in w.prior
  <2>1. Due(d) /\ d \in Debts
    BY <1>1, <1>2 DEF WorkGood, TypeOK, Work
  <2>. QED
    BY <2>1, ObjectsAfter
<1>4. w.task = "reconcile" =>
        /\ created'[w.id] > 0 /\ now' <= created'[w.id] + RECOVERY
        /\ publication'[w.id].by \in {None, c}
  BY <1>1, <1>2 DEF WorkGood, Fresh
<1>5. w.task = "commit" => publication'[w.id].state = "under way" /\ publication'[w.id].by = c
  BY <1>1, <1>2 DEF WorkGood
<1>6. w.id \in Reports /\ w.at <= now'
  BY <1>1, <1>2 DEF WorkGood
<1>. QED
  BY <1>1, <1>2, <1>3, <1>4, <1>5, <1>6
     DEF WorkGood, Fresh, CommitSteps, ReconcileSteps, PassSteps

\* Publications that stay as they are.
LEMMA SamePublications ==
    ASSUME TypeOK, NEW c, publication' = publication
    PROVE  /\ publication' \in [Reports -> [state : PublicationStates, by : Containers \cup {None}]]
           /\ PublicationsMove(c)
BY DEF TypeOK, PublicationsMove

\* The PUT of a report, and that of its sidecar, write a share that is not ripe.
LEMMA PutPrimarySound ==
    ASSUME Inv, NEW c \in Containers, PutPrimary(c)
    PROVE  Sound(c)
<1>1. TypeOK /\ WorkGood(c)
  BY DEF Inv
<1>2. work[c].task = "commit"
  BY <1>1 DEF PutPrimary, At, WorkGood, CommitSteps
<1>3. PICK step \in {"adopt", "sidecar"} : Go(c, step)
  BY DEF PutPrimary
<1>4. step \in Steps /\ step \in CommitSteps
  BY DEF Steps, CommitSteps
<1>5. work' \in [Containers -> Work] /\ \A k \in Containers \ {c} : work'[k] = work[k]
  BY <1>1, <1>3, <1>4, GoAfter
<1>6. /\ publication' = publication /\ now' = now /\ created' = created /\ debts' = debts
      /\ puts' = puts /\ maintenance' \in BOOLEAN /\ sidecars' = sidecars
      /\ primaries' = primaries \cup {work[c].id}
  BY <1>1 DEF PutPrimary, ledger, TypeOK
<1>7. puts' \in SUBSET [part : {"primary", "sidecar"}, id : Reports, by : Nat]
  BY <1>1, <1>6 DEF TypeOK
<1>8. Moves(c)
  BY <1>1, <1>2, <1>5, <1>6, <1>7, SamePublications, WriteMoves
<1>9. WorkGood(c)'
  BY <1>2, <1>3, <1>4, <1>6, <1>8, GoesOnWriting DEF CommitSteps
<1>. QED
  BY <1>8, <1>9 DEF Sound

\* The same of the sidecar.
LEMMA PutSidecarSound ==
    ASSUME Inv, NEW c \in Containers, PutSidecar(c)
    PROVE  Sound(c)
<1>1. TypeOK /\ WorkGood(c)
  BY DEF Inv
<1>2. work[c].task = "commit"
  BY <1>1 DEF PutSidecar, At, WorkGood, CommitSteps
<1>3. PICK step \in {"adopt", "check"} : Go(c, step)
  BY DEF PutSidecar
<1>4. step \in Steps /\ step \in CommitSteps
  BY DEF Steps, CommitSteps
<1>5. work' \in [Containers -> Work] /\ \A k \in Containers \ {c} : work'[k] = work[k]
  BY <1>1, <1>3, <1>4, GoAfter
<1>6. /\ publication' = publication /\ now' = now /\ created' = created /\ debts' = debts
      /\ puts' = puts /\ maintenance' \in BOOLEAN /\ primaries' = primaries
      /\ sidecars' = sidecars \cup {work[c].id}
  BY <1>1 DEF PutSidecar, ledger, TypeOK
<1>7. puts' \in SUBSET [part : {"primary", "sidecar"}, id : Reports, by : Nat]
  BY <1>1, <1>6 DEF TypeOK
<1>8. Moves(c)
  BY <1>1, <1>2, <1>5, <1>6, <1>7, SamePublications, WriteMoves
<1>9. WorkGood(c)'
  BY <1>2, <1>3, <1>4, <1>6, <1>8, GoesOnWriting DEF CommitSteps
<1>. QED
  BY <1>8, <1>9 DEF Sound

\* A publication ends, or goes on, whatever its container writes meanwhile.
Writing(c) ==
    /\ now' = now /\ created' = created /\ debts' = debts /\ maintenance' \in BOOLEAN
    /\ primaries' \in {primaries, primaries \cup {work[c].id}}
    /\ sidecars' \in {sidecars, sidecars \cup {work[c].id}}
    /\ puts' \in SUBSET [part : {"primary", "sidecar"}, id : Reports, by : Nat]
    /\ \A p \in puts' \ puts : PutGood(p)

\* A publication that ends keeps the invariant, if what it tells is so.
LEMMA AnswerSound ==
    ASSUME Inv, NEW c \in Containers, NEW state \in PublicationStates \ {"none"}, Answer(c, state),
           work[c].task \in {"commit", "reconcile"}, Writing(c),
           state = "found" => work[c].id \in primaries' \cap sidecars'
    PROVE  Sound(c)
BY AnswerAfter, WriteMoves DEF Writing, Sound

\* So does a commit that is to be read back,
LEMMA CommitFailsSound ==
    ASSUME Inv, NEW c \in Containers, CommitFails(c), work[c].task = "commit", Writing(c)
    PROVE  Sound(c)
BY CommitFailsAfter, WriteMoves DEF Writing, Sound

\* and a publication that goes on.
LEMMA GoSound ==
    ASSUME Inv, NEW c \in Containers, work[c].task \in {"commit", "reconcile"}, Writing(c),
           NEW step \in CommitSteps \cup ReconcileSteps, Go(c, step), publication' = publication,
           work[c].task = "commit" => step \in CommitSteps,
           work[c].task = "reconcile" => step \in ReconcileSteps,
           step \in {"present", "repair"} => work[c].id \in primaries'
    PROVE  Sound(c)
<1>1. TypeOK /\ step \in Steps
  BY DEF Inv, Steps
<1>2. work' \in [Containers -> Work] /\ \A k \in Containers \ {c} : work'[k] = work[k]
  BY <1>1, GoAfter
<1>3. Moves(c)
  BY <1>1, <1>2, SamePublications, WriteMoves DEF Writing
<1>. QED
  BY <1>3, GoesOnWriting DEF Sound

\* Whatever only looks writes nothing.
LEMMA ReadingIsWriting ==
    ASSUME TypeOK, NEW c \in Containers, UNCHANGED <<now, created, objects, ledger, puts>>
    PROVE  Writing(c)
BY DEF Writing, TypeOK, objects, ledger

\* Only a bundle of which both objects were read is found.
LEMMA ReadExactStoredBundleSound ==
    ASSUME Inv, NEW c \in Containers, ReadExactStoredBundle(c)
    PROVE  Sound(c)
<1>1. TypeOK /\ WorkGood(c) /\ UNCHANGED <<now, created, objects, ledger, puts>>
  BY DEF Inv, ReadExactStoredBundle
<1>2. Writing(c) /\ primaries' = primaries /\ sidecars' = sidecars
  BY <1>1, ReadingIsWriting DEF objects
<1>3. {"found", "unknown", "broken"} \subseteq PublicationStates \ {"none"} /\ "check" \in CommitSteps
  BY DEF PublicationStates, CommitSteps
<1>4. work[c].step \in {"adopt", "check"} => work[c].task = "commit"
  BY <1>1 DEF WorkGood, CommitSteps
<1>5. work[c].step \in {"reread", "readopt"} => work[c].task = "reconcile"
  BY <1>1 DEF WorkGood, ReconcileSteps
<1>6. CASE At(c, "adopt") /\ Go(c, "check") /\ UNCHANGED publication
  BY <1>2, <1>3, <1>4, <1>6, GoSound DEF At
<1>7. CASE At(c, "adopt") /\ CommitFails(c)
  BY <1>2, <1>4, <1>7, CommitFailsSound DEF At
<1>8. CASE At(c, "check") /\ CommitFails(c)
  BY <1>2, <1>4, <1>8, CommitFailsSound DEF At
<1>9. CASE At(c, "check") /\ Whole(work[c].id) /\ Answer(c, "found")
  BY <1>2, <1>3, <1>4, <1>9, AnswerSound DEF At, Whole
<1>10. CASE At(c, "reread") /\ Answer(c, IF Whole(work[c].id) THEN "found" ELSE "broken")
  BY <1>2, <1>3, <1>5, <1>10, AnswerSound DEF At, Whole
<1>11. CASE At(c, "readopt") /\ Answer(c, IF Whole(work[c].id) THEN "found" ELSE "unknown")
  BY <1>2, <1>3, <1>5, <1>11, AnswerSound DEF At, Whole
<1>. QED
  BY <1>6, <1>7, <1>8, <1>9, <1>10, <1>11 DEF ReadExactStoredBundle

\* A report that was read stays there while its sidecar is looked for,
LEMMA ReadPrimarySound ==
    ASSUME Inv, NEW c \in Containers, ReadPrimary(c)
    PROVE  Sound(c)
<1>1. TypeOK /\ WorkGood(c) /\ UNCHANGED <<now, created, objects, ledger, puts>>
  BY DEF Inv, ReadPrimary
<1>2. Writing(c) /\ primaries' = primaries
  BY <1>1, ReadingIsWriting DEF objects
<1>3. {"present", "absent"} \subseteq ReconcileSteps /\ work[c].task = "reconcile"
  BY <1>1 DEF ReadPrimary, At, WorkGood, ReconcileSteps
<1>. QED
  BY <1>2, <1>3, GoSound DEF ReadPrimary

\* so that it is whole when the sidecar is there,
LEMMA ReadSidecarSound ==
    ASSUME Inv, NEW c \in Containers, ReadSidecar(c)
    PROVE  Sound(c)
<1>1. TypeOK /\ WorkGood(c) /\ UNCHANGED <<now, created, objects, ledger, puts>>
  BY DEF Inv, ReadSidecar
<1>2. Writing(c) /\ primaries' = primaries /\ sidecars' = sidecars
  BY <1>1, ReadingIsWriting DEF objects
<1>3. /\ {"repair", "reread"} \subseteq ReconcileSteps /\ work[c].task = "reconcile"
      /\ {"found", "unknown"} \subseteq PublicationStates \ {"none"}
  BY <1>1 DEF ReadSidecar, At, WorkGood, ReconcileSteps, PublicationStates
<1>4. At(c, "present") => work[c].id \in primaries
  BY <1>1 DEF At, WorkGood
<1>5. CASE At(c, "present") /\ work[c].id \in sidecars /\ Answer(c, "found")
  BY <1>2, <1>3, <1>4, <1>5, AnswerSound
<1>6. CASE At(c, "present") /\ Go(c, "repair") /\ UNCHANGED publication
  BY <1>2, <1>3, <1>4, <1>6, GoSound
<1>7. CASE Go(c, "reread") /\ UNCHANGED publication
  BY <1>2, <1>3, <1>7, GoSound
<1>8. CASE Answer(c, "unknown")
  BY <1>2, <1>3, <1>8, AnswerSound
<1>. QED
  BY <1>5, <1>6, <1>7, <1>8 DEF ReadSidecar

\* or is written.
LEMMA RepairSound ==
    ASSUME Inv, NEW c \in Containers, Repair(c)
    PROVE  Sound(c)
<1>1. TypeOK /\ WorkGood(c)
  BY DEF Inv
<1>2. /\ Writing(c) /\ primaries' = primaries /\ sidecars' = sidecars \cup {work[c].id}
  BY <1>1 DEF Repair, Writing, TypeOK, ledger
<1>3. /\ "readopt" \in ReconcileSteps /\ work[c].task = "reconcile"
      /\ "found" \in PublicationStates \ {"none"} /\ work[c].id \in primaries
  BY <1>1 DEF Repair, At, WorkGood, ReconcileSteps, PublicationStates
<1>4. CASE Go(c, "readopt") /\ UNCHANGED publication
  BY <1>2, <1>3, <1>4, GoSound
<1>5. CASE Answer(c, "found")
  BY <1>2, <1>3, <1>5, AnswerSound
<1>. QED
  BY <1>4, <1>5 DEF Repair

-----------------------------------------------------------------------------
(* Deletion.                                                               *)

\* What is being deleted.
LEMMA DoomsAreDebts ==
    ASSUME NEW f \in Dooms
    PROVE  DOMAIN f \in SUBSET Debts /\ \A d \in DOMAIN f : f[d] \in DeletionSteps
<1>1. CASE f = <<>>
  BY <1>1
<1>2. CASE f \in UNION {[S -> DeletionSteps] : S \in SUBSET Debts}
  BY <1>2
<1>. QED
  BY <1>1, <1>2 DEF Dooms

\* What others do does not set a deletion back.
LEMMA DoingAfter ==
    ASSUME Inv, NEW c, Moves(c), NEW d \in Debts, NEW step, Due(d), Doing(d, step)
    PROVE  Due(d)' /\ Doing(d, step)'
<1>1. d.id \in Reports /\ Ripe(d.id)
  BY DEF Debts, Due
<1>2. Gone(d.id) => Gone(d.id)'
  BY <1>1, ObjectsAfter
<1>3. d \in debts => d \in debts' \/ Gone(d.id)'
  BY DEF Moves, DebtsMove
<1>4. d.id \notin sidecars => d.id \notin sidecars'
  BY <1>1 DEF Moves, ObjectsMove
<1>5. Due(d)'
  BY ObjectsAfter
<1>. QED
  BY <1>2, <1>3, <1>4, <1>5 DEF Doing

\* One deletion gets on by one step.
LEMMA DoomSound ==
    ASSUME Inv, NEW c \in Containers, NEW d \in Debts, NEW step \in DeletionSteps,
           At(c, "delete"), d \in DOMAIN work[c].doomed, Doom(c, d, step),
           UNCHANGED <<now, created, puts, publication>>, maintenance' \in BOOLEAN,
           primaries' \in {primaries, primaries \ {d.id}},
           sidecars' \in {sidecars, sidecars \ {d.id}},
           debts' \in {debts, debts \cup {d}, debts \ {d}},
           d.id \in (primaries \ primaries') \cup (sidecars \ sidecars') => Gone(d.id)' \/ Owed(d.id)',
           d \in debts \ debts' => Gone(d.id)',
           Doing(d, step)'
    PROVE  Sound(c)
<1> DEFINE dooms == [work[c].doomed EXCEPT ![d] = step]
           w == [work[c] EXCEPT !.doomed = dooms]
<1>1. TypeOK /\ WorkGood(c) /\ work[c] \in Work /\ work[c].doomed \in Dooms
  BY DEF Inv, TypeOK, Work
<1>2. work[c].step = "delete" /\ work[c].task \in {"pass", "commit", "expire"}
  BY <1>1 DEF At, WorkGood
<1>3. d.id \in Reports /\ Due(d) /\ Ripe(d.id)
  BY <1>1, <1>2 DEF WorkGood, Due, Debts
<1>4. /\ dooms \in Dooms /\ DOMAIN dooms = DOMAIN work[c].doomed
      /\ \A e \in DOMAIN work[c].doomed : dooms[e] = IF e = d THEN step ELSE work[c].doomed[e]
      /\ DOMAIN work[c].doomed \in SUBSET Debts
  BY <1>1, DoomsAreDebts, NextDooms
<1>5. work' = [work EXCEPT ![c] = w]
  BY DEF Doom
<1> HIDE DEF dooms
<1>6. /\ w \in Work /\ w.task = work[c].task /\ w.step = "delete" /\ w.id = work[c].id
      /\ w.at = work[c].at /\ w.prior = work[c].prior /\ w.doomed = dooms
  BY <1>1, <1>2, <1>4 DEF Work
<1> HIDE DEF w
<1>7. /\ work' \in [Containers -> Work] /\ work'[c] = w
      /\ \A k \in Containers \ {c} : work'[k] = work[k]
  BY <1>1, <1>5, <1>6, WorkAfter
<1>8. Moves(c)
  <2>1. TypeOK'
    BY <1>1, <1>7 DEF TypeOK
  <2>2. ObjectsMove
    BY <1>3 DEF ObjectsMove
  <2>3. \A e \in debts' \ debts : e = d
    OBVIOUS
  <2>4. Due(d)'
    BY <1>3 DEF Due, Ripe
  <2>5. DebtsMove
    BY <2>3, <2>4 DEF DebtsMove
  <2>6. PublicationsMove(c)
    BY DEF PublicationsMove
  <2>. QED
    BY <1>7, <2>1, <2>2, <2>5, <2>6 DEF Moves
<1>9. \A e \in w.prior : Due(e)'
  <2> TAKE e \in w.prior
  <2>1. Due(e) /\ e \in Debts
    BY <1>1, <1>6 DEF WorkGood, Work
  <2>. QED
    BY <1>8, <2>1, ObjectsAfter
<1>10. ASSUME NEW e \in DOMAIN w.doomed
       PROVE  Due(e)' /\ Doing(e, work[c].doomed[e])'
  <2>1. e \in DOMAIN work[c].doomed /\ e \in Debts
    BY <1>4, <1>6
  <2>2. Due(e) /\ Doing(e, work[c].doomed[e])
    BY <1>1, <1>2, <2>1 DEF WorkGood
  <2>3. Due(e)' /\ \A s : Doing(e, s) => Doing(e, s)'
    BY <1>8, <2>1, <2>2, DoingAfter
  <2>. QED
    BY <1>4, <1>6, <1>7, <2>1, <2>2, <2>3
<1>11. w.task = "commit" =>
         w.id \in Reports /\ publication'[w.id].state = "under way" /\ publication'[w.id].by = c
  BY <1>1, <1>6 DEF WorkGood
<1>12. w.at <= now'
  BY <1>1, <1>6 DEF WorkGood
<1>13. WorkGood(c)'
  BY <1>2, <1>6, <1>7, <1>9, <1>10, <1>11, <1>12
     DEF WorkGood, PassSteps, CommitSteps, ReconcileSteps
<1>. QED
  BY <1>8, <1>13 DEF Sound

\* Where the deletion of d is, that c is at.
LEMMA DoomedDoing ==
    ASSUME Inv, NEW c \in Containers, NEW d \in Debts, NEW step, DoomedAt(c, d, step)
    PROVE  /\ TypeOK /\ At(c, "delete") /\ d \in DOMAIN work[c].doomed
           /\ Due(d) /\ Doing(d, step)
BY DEF Inv, DoomedAt, At, WorkGood

\* The debt is there before anything is removed.
LEMMA MarkDebtSound ==
    ASSUME Inv, NEW c \in Containers, NEW d \in Debts, MarkDebt(c, d)
    PROVE  Sound(c)
<1>1. TypeOK /\ At(c, "delete") /\ d \in DOMAIN work[c].doomed
  BY DoomedDoing DEF MarkDebt
<1>2. Doing(d, "unlink")' /\ "unlink" \in DeletionSteps
  BY DEF MarkDebt, Doing, DeletionSteps
<1>. QED
  BY <1>1, <1>2, DoomSound DEF MarkDebt, TypeOK, objects

\* The sidecar goes under the debt; of a bundle the report is next, and alone is all
\* that was left.
LEMMA RemoveSidecarSound ==
    ASSUME Inv, NEW c \in Containers, NEW d \in Debts, RemoveSidecar(c, d)
    PROVE  Sound(c)
<1>1. /\ TypeOK /\ At(c, "delete") /\ d \in DOMAIN work[c].doomed /\ Due(d)
      /\ Doing(d, "unlink")
  BY DoomedDoing DEF RemoveSidecar
<1>2. /\ debts' = debts /\ primaries' = primaries /\ sidecars' = sidecars \ {d.id}
      /\ maintenance' \in BOOLEAN
  BY <1>1 DEF RemoveSidecar, ledger, TypeOK
<1>3. d \in debts \/ Gone(d.id)
  BY <1>1 DEF Doing
<1>4. CASE d.scope = "bundle"
  <2>1. Doing(d, "erase")' /\ "erase" \in DeletionSteps /\ Doom(c, d, "erase")
    BY <1>2, <1>3, <1>4 DEF RemoveSidecar, Doing, Gone, DeletionSteps
  <2>. QED
    BY <1>1, <1>2, <1>3, <2>1, DoomSound DEF RemoveSidecar, Owed, Gone
<1>5. CASE d.scope # "bundle"
  <2>1. d.id \notin primaries
    BY <1>1, <1>5 DEF Due, Debts
  <2>2. Doing(d, "clear")' /\ "clear" \in DeletionSteps /\ Doom(c, d, "clear") /\ Gone(d.id)'
    BY <1>2, <1>5, <2>1 DEF RemoveSidecar, Doing, Gone, DeletionSteps
  <2>. QED
    BY <1>1, <1>2, <2>2, DoomSound DEF RemoveSidecar
<1>. QED
  BY <1>4, <1>5

\* The report goes after its sidecar, and then the share is gone,
LEMMA RemovePrimarySound ==
    ASSUME Inv, NEW c \in Containers, NEW d \in Debts, RemovePrimary(c, d)
    PROVE  Sound(c)
<1>1. TypeOK /\ At(c, "delete") /\ d \in DOMAIN work[c].doomed /\ Doing(d, "erase")
  BY DoomedDoing DEF RemovePrimary
<1>2. /\ debts' = debts /\ sidecars' = sidecars /\ primaries' = primaries \ {d.id}
      /\ maintenance' \in BOOLEAN
  BY <1>1 DEF RemovePrimary, ledger, TypeOK
<1>3. Gone(d.id)' /\ Doing(d, "clear")' /\ "clear" \in DeletionSteps
  BY <1>1, <1>2 DEF Doing, Gone, DeletionSteps
<1>. QED
  BY <1>1, <1>2, <1>3, DoomSound DEF RemovePrimary

\* which is when its debt goes.
LEMMA ClearDebtSound ==
    ASSUME Inv, NEW c \in Containers, NEW d \in Debts, ClearDebt(c, d)
    PROVE  Sound(c)
<1>1. TypeOK /\ At(c, "delete") /\ d \in DOMAIN work[c].doomed /\ Doing(d, "clear")
  BY DoomedDoing DEF ClearDebt
<1>2. primaries' = primaries /\ sidecars' = sidecars /\ maintenance' \in BOOLEAN
  BY <1>1 DEF ClearDebt, objects, TypeOK
<1>3. Gone(d.id)' /\ Doing(d, "done")' /\ "done" \in DeletionSteps
  BY <1>1, <1>2 DEF Doing, Gone, DeletionSteps
<1>. QED
  BY <1>1, <1>2, <1>3, DoomSound DEF ClearDebt

\* A report whose sidecar could not be removed goes under a debt that stays.
LEMMA RemovePrimaryOnlySound ==
    ASSUME Inv, NEW c \in Containers, NEW d \in Debts, RemovePrimaryOnly(c, d)
    PROVE  Sound(c)
<1>1. TypeOK /\ At(c, "delete") /\ d \in DOMAIN work[c].doomed /\ Doing(d, "erase-only")
  BY DoomedDoing DEF RemovePrimaryOnly
<1>2. /\ debts' = debts /\ sidecars' = sidecars /\ primaries' = primaries \ {d.id}
      /\ maintenance' \in BOOLEAN
  BY <1>1 DEF RemovePrimaryOnly, ledger, TypeOK
<1>3. Doing(d, "failed")' /\ "failed" \in DeletionSteps
  BY DEF Doing, DeletionSteps
<1>4. d \in debts' \/ Gone(d.id)'
  BY <1>1, <1>2 DEF Doing, Gone
<1>. QED
  BY <1>1, <1>2, <1>3, <1>4, DoomSound DEF RemovePrimaryOnly, Owed

\* A call that fails leaves the debt, unless the share is gone.
LEMMA DeleteFailsSound ==
    ASSUME Inv, NEW c \in Containers, NEW d \in Debts, DeleteFails(c, d)
    PROVE  Sound(c)
<1>1. /\ UNCHANGED <<now, created, puts, publication>> /\ maintenance' \in BOOLEAN
      /\ "failed" \in DeletionSteps /\ "erase-only" \in DeletionSteps /\ Doing(d, "failed")'
  BY DEF DeleteFails, Inv, TypeOK, Doing, DeletionSteps
<1>2. ASSUME DoomedAt(c, d, "mark"), Doom(c, d, "failed"), debts' \in {debts, debts \cup {d}},
             UNCHANGED objects
      PROVE  Sound(c)
  BY <1>1, <1>2, DoomedDoing, DoomSound DEF objects
<1>3. ASSUME DoomedAt(c, d, "clear"), Doom(c, d, "failed"), debts' \in {debts, debts \ {d}},
             UNCHANGED objects
      PROVE  Sound(c)
  <2>1. Gone(d.id)'
    BY <1>3, DoomedDoing DEF Doing, Gone, objects
  <2>. QED
    BY <1>1, <1>3, <2>1, DoomedDoing, DoomSound DEF objects
<1>4. ASSUME DoomedAt(c, d, "unlink"), Doom(c, d, IF d.scope = "bundle" THEN "erase-only" ELSE "failed"),
             sidecars' \in {sidecars, sidecars \ {d.id}}, UNCHANGED <<primaries, debts>>
      PROVE  Sound(c)
  <2>1. d \in debts' \/ Gone(d.id)'
    BY <1>4, DoomedDoing DEF Doing, Gone
  <2>2. Doing(d, "erase-only")'
    BY <2>1 DEF Doing
  <2>. QED
    BY <1>1, <1>4, <2>1, <2>2, DoomedDoing, DoomSound DEF Owed
<1>5. ASSUME NEW step \in {"erase", "erase-only"}, DoomedAt(c, d, step), Doom(c, d, "failed"),
             primaries' \in {primaries, primaries \ {d.id}}, UNCHANGED <<sidecars, debts>>
      PROVE  Sound(c)
  <2>1. d \in debts' \/ Gone(d.id)'
    BY <1>5, DoomedDoing DEF Doing, Gone
  <2>. QED
    BY <1>1, <1>5, <2>1, DoomedDoing, DoomSound DEF Owed
<1>6. DoomedAt(c, d, "clear") => ~DoomedAt(c, d, "mark")
  BY DEF DoomedAt
<1>. QED
  BY <1>2, <1>3, <1>4, <1>5, <1>6 DEF DeleteFails

-----------------------------------------------------------------------------
(* Trouble.                                                                *)

\* A PUT that goes on without its caller lands before its share is ripe.
LEMMA AbandonedPuts ==
    ASSUME Inv, NEW c \in Containers, LoseOrAbandon(c)
    PROVE  /\ puts' \in SUBSET [part : {"primary", "sidecar"}, id : Reports, by : Nat]
           /\ \A p \in puts' \ puts : PutGood(p)
           /\ work[c].task \notin {"commit", "reconcile"} => puts' = puts
<1>1. TypeOK /\ WorkGood(c)
  BY DEF Inv
<1>2. CASE puts' = puts
  BY <1>1, <1>2 DEF TypeOK
<1>3. ASSUME NEW part \in Putting(c),
             puts' = puts \cup {[part |-> part, id |-> work[c].id, by |-> now + PUT_LAG]}
      PROVE  /\ puts' \in SUBSET [part : {"primary", "sidecar"}, id : Reports, by : Nat]
             /\ \A p \in puts' \ puts : PutGood(p)
             /\ work[c].task \in {"commit", "reconcile"}
  <2> DEFINE q == [part |-> part, id |-> work[c].id, by |-> now + PUT_LAG]
  <2>1. part \in {"primary", "sidecar"} /\ work[c].step \in {"primary", "sidecar", "repair"}
    BY <1>3 DEF Putting, At
  <2>2. work[c].task \in {"commit", "reconcile"}
    BY <1>1, <2>1 DEF WorkGood, CommitSteps, ReconcileSteps
  <2>3. /\ work[c].id \in Reports /\ Fresh(work[c].id) /\ created[work[c].id] \in Nat
        /\ now \in Nat
    BY <1>1, <2>2, WriterFresh DEF TypeOK
  <2>4. /\ q \in [part : {"primary", "sidecar"}, id : Reports, by : Nat]
        /\ q.id = work[c].id /\ q.by = now + PUT_LAG
    BY <2>1, <2>3, Durations
  <2>5. PutGood(q)
    BY <2>3, <2>4, Durations DEF PutGood, Fresh
  <2>. QED
    BY <1>1, <1>3, <2>2, <2>4, <2>5 DEF TypeOK
<1>. QED
  BY <1>2, <1>3 DEF LoseOrAbandon

\* A PUT that failed may land later, in time; the publication looks at what is there.
LEMMA PutFailsSound ==
    ASSUME Inv, NEW c \in Containers, PutFails(c)
    PROVE  Sound(c)
<1>1. TypeOK /\ WorkGood(c)
  BY DEF Inv
<1>2. work[c].step \in {"primary", "sidecar", "repair"}
  BY DEF PutFails, Putting, At
<1>3. Writing(c) /\ publication' = publication
  BY <1>1, AbandonedPuts DEF PutFails, Writing, TypeOK, objects, ledger
<1>4. CASE work[c].step = "repair"
  <2>1. work[c].task = "reconcile" /\ "readopt" \in ReconcileSteps /\ Go(c, "readopt")
    BY <1>1, <1>4 DEF WorkGood, ReconcileSteps, PutFails, At
  <2>. QED
    BY <1>3, <2>1, GoSound
<1>5. CASE work[c].step # "repair"
  <2>1. work[c].task = "commit" /\ "adopt" \in CommitSteps /\ Go(c, "adopt")
    BY <1>1, <1>2, <1>5 DEF WorkGood, CommitSteps, PutFails, At
  <2>. QED
    BY <1>3, <2>1, GoSound
<1>. QED
  BY <1>4, <1>5

\* An operation that is cut short tells nothing, or is read back.
LEMMA AbortSound ==
    ASSUME Inv, NEW c \in Containers, Abort(c)
    PROVE  Sound(c)
<1>1. TypeOK /\ WorkGood(c) /\ work[c] \in Work
  BY DEF Inv, TypeOK
<1>2. maintenance' \in BOOLEAN
  BY <1>1 DEF Abort, TypeOK, Work
<1>3. Writing(c)
  BY <1>1, <1>2, AbandonedPuts DEF Abort, Writing, objects
<1>4. CASE work[c].task = "commit"
  BY <1>3, <1>4, CommitFailsSound DEF Abort
<1>5. CASE work[c].task = "reconcile"
  <2>1. Answer(c, "unknown") /\ "unknown" \in PublicationStates \ {"none"}
    BY <1>5 DEF Abort, PublicationStates
  <2>. QED
    BY <1>3, <1>5, <2>1, AnswerSound
<1>6. CASE work[c].task \in {"pass", "expire"}
  <2>1. Release(c) /\ publication' = publication /\ puts' = puts
    BY <1>6, AbandonedPuts DEF Abort
  <2>. QED
    BY <1>1, <1>2, <2>1, ReleaseAfter, QuietMoves DEF Abort, Sound, Others
<1>. QED
  BY <1>4, <1>5, <1>6 DEF Abort

\* A container that stops loses its publications, none of which was told anything.
LEMMA CrashSound ==
    ASSUME Inv, NEW c \in Containers, Crash(c)
    PROVE  Sound(c)
<1> DEFINE lost == [state |-> "lost", by |-> None]
<1>1. TypeOK /\ c # None
  BY Durations DEF Inv
<1>2. /\ work' \in [Containers -> Work] /\ \A k \in Containers \ {c} : work'[k] = work[k]
      /\ WorkGood(c)'
  BY <1>1, ReleaseAfter DEF Crash
<1>3. lost \in [state : PublicationStates, by : Containers \cup {None}] /\ lost.state = "lost" /\ lost.by = None
  BY DEF PublicationStates
<1>4. publication' = [r \in Reports |-> IF publication[r].by = c THEN lost ELSE publication[r]]
  BY DEF Crash
<1> HIDE DEF lost
<1>5. publication' \in [Reports -> [state : PublicationStates, by : Containers \cup {None}]]
  BY <1>1, <1>3, <1>4 DEF TypeOK
<1>6. PublicationsMove(c)
  <2> SUFFICES ASSUME NEW r \in Reports, publication[r].by = c
               PROVE  publication[r].state # "none" /\ publication'[r] = lost
    BY <1>1, <1>3, <1>4 DEF PublicationsMove
  <2>. QED
    BY <1>1, <1>4 DEF Inv, PublicationGood
<1>7. Moves(c)
  BY <1>1, <1>2, <1>5, <1>6, AbandonedPuts
     DEF Crash, Moves, TypeOK, ObjectsMove, DebtsMove, objects, ledger
<1>. QED
  BY <1>2, <1>7 DEF Sound

\* A PUT that lands finds its share not ripe.
LEMMA LandsMoves ==
    ASSUME Inv, NEW p \in puts, Lands(p)
    PROVE  Moves(None)
<1>1. TypeOK /\ PutGood(p) /\ p.id \in Reports /\ created[p.id] \in Nat /\ now \in Nat /\ p.by \in Nat
  BY DEF Inv, TypeOK
<1>2. created[p.id] > 0 /\ ~Ripe(p.id)
  BY <1>1, Durations DEF PutGood, Ripe
<1>3. ObjectsMove
  BY <1>1, <1>2 DEF Lands, ObjectsMove
<1>. QED
  BY <1>1, <1>3 DEF Lands, Moves, TypeOK, DebtsMove, PublicationsMove, ledger

-----------------------------------------------------------------------------
(* Time, and new reports.                                                  *)

\* A report is new to everybody when it is prepared.
LEMMA PrepareKeeps ==
    ASSUME Inv, NEW c \in Containers, NEW r \in Reports, Prepare(c, r)
    PROVE  Inv'
<1> DEFINE b == [state |-> "prepared", by |-> c]
<1>1. TypeOK /\ now \in Nat \ {0} /\ created[r] = 0 /\ c # None
  BY Durations DEF Inv, TypeOK, Prepare, PublicationGood
<1>2. /\ UNCHANGED <<now, objects, ledger, puts, work>>
      /\ created' = [created EXCEPT ![r] = now] /\ publication' = [publication EXCEPT ![r] = b]
  BY DEF Prepare
<1>3. b \in [state : PublicationStates, by : Containers \cup {None}] /\ b.state = "prepared" /\ b.by = c
  BY DEF PublicationStates
<1> HIDE DEF b
<1>4. /\ created'[r] = now /\ publication'[r] = b
      /\ \A q \in Reports \ {r} : created'[q] = created[q] /\ publication'[q] = publication[q]
  BY <1>1, <1>2 DEF TypeOK
<1>5. TypeOK'
  BY <1>1, <1>2, <1>3 DEF TypeOK, objects, ledger
<1>6. /\ primaries' = primaries /\ sidecars' = sidecars /\ debts' = debts /\ puts' = puts
      /\ work' = work /\ now' = now
  BY <1>2 DEF objects, ledger
<1>7. \A q \in primaries' \cup sidecars' : created'[q] > 0
  BY <1>1, <1>4, <1>6 DEF Inv, TypeOK
<1>8. ASSUME NEW d \in Debts, Due(d)
      PROVE  Due(d)'
  <2>1. d.id \in Reports \ {r} /\ Ripe(d.id)
    BY <1>1, <1>8 DEF Due, Ripe, Debts
  <2>2. Ripe(d.id)'
    BY <1>4, <1>6, <2>1 DEF Ripe
  <2>. QED
    BY <1>6, <1>8, <2>2 DEF Due
<1>9. \A d \in debts' : Due(d)'
  BY <1>1, <1>6, <1>8 DEF Inv, TypeOK
<1>10. \A p \in puts' : PutGood(p)'
  BY <1>1, <1>4, <1>6 DEF Inv, TypeOK, PutGood
<1>11. ASSUME NEW q \in Reports
       PROVE  PublicationGood(q)'
  <2>1. CASE q = r
    <3>1. now' <= created'[q] + PUBLICATION_TIMEOUT /\ created'[q] > 0
      BY <1>1, <1>4, <1>6, <2>1, Durations
    <3>2. publication'[q].state = "prepared" /\ publication'[q].by = c
      BY <1>3, <1>4, <2>1
    <3>. QED
      BY <3>1, <3>2 DEF PublicationGood, Held
  <2>2. CASE q # r
    <3>1. created'[q] = created[q] /\ publication'[q] = publication[q] /\ PublicationGood(q)
      BY <1>4, <2>2 DEF Inv
    <3>2. (Whole(q)' <=> Whole(q)) /\ (Ripe(q)' <=> Ripe(q)) /\ (Gone(q)' <=> Gone(q)) /\ (Owed(q)' <=> Owed(q))
      BY <1>6, <3>1 DEF Whole, Ripe, Gone, Owed
    <3>. QED
      BY <1>6, <3>1, <3>2 DEF PublicationGood
  <2>. QED
    BY <2>1, <2>2
<1>12. ASSUME NEW k \in Containers
       PROVE  WorkGood(k)'
  <2> DEFINE w == work[k]
  <2>1. WorkGood(k) /\ w \in Work /\ work'[k] = w
    BY <1>1, <1>6 DEF Inv, TypeOK
  <2>2. w.task = "commit" => w.id \in Reports /\ w.id # r
    <3>1. w.task = "commit" => w.id \in Reports /\ publication[w.id].state = "under way"
      BY <2>1 DEF WorkGood
    <3>2. publication[r].state = "none"
      BY DEF Prepare
    <3>. QED
      BY <3>1, <3>2
  <2>3. w.task = "reconcile" => w.id \in Reports /\ w.id # r
    BY <1>1, <2>1 DEF WorkGood, Fresh
  <2>4. w.task = "commit" => publication'[w.id].state = "under way" /\ publication'[w.id].by = k
    BY <1>4, <2>1, <2>2 DEF WorkGood
  <2>5. w.task = "reconcile" =>
          /\ created'[w.id] > 0 /\ now' <= created'[w.id] + RECOVERY
          /\ publication'[w.id].by \in {None, k}
    BY <1>4, <1>6, <2>1, <2>3 DEF WorkGood, Fresh
  <2>6. \A d \in w.prior : Due(d)'
    BY <1>8, <2>1 DEF WorkGood, Work
  <2>7. ASSUME w.step \in {"warn", "delete"}, NEW d \in DOMAIN w.doomed
        PROVE  Due(d)' /\ Doing(d, work[k].doomed[d])'
    <3>1. d \in Debts /\ w.doomed \in Dooms
      BY <2>1, <2>7, DoomsAreDebts DEF Work
    <3>2. Due(d) /\ Doing(d, w.doomed[d])
      BY <2>1, <2>7 DEF WorkGood
    <3>. QED
      BY <1>6, <1>8, <3>1, <3>2 DEF Doing, Gone
  <2>. QED
    BY <1>6, <2>1, <2>2, <2>3, <2>4, <2>5, <2>6, <2>7 DEF WorkGood, Fresh
<1>. QED
  BY <1>5, <1>7, <1>9, <1>10, <1>11, <1>12 DEF Inv

\* The minimum of two numbers is at most the second.
LEMMA MinOfTwo ==
    ASSUME NEW m \in Nat, NEW n \in Nat
    PROVE  Min({m, n}) <= n
<1>1. \E x \in {m, n} : \A y \in {m, n} : x <= y
  BY SMT
<1>. QED
  BY <1>1 DEF Min

\* Who is at a report is done in time: time only makes shares ripe.
LEMMA TickKeeps ==
    ASSUME Inv, Tick
    PROVE  Inv'
<1>1. /\ TypeOK /\ now \in Nat \ {0} /\ now' = now + 1
      /\ created' = created /\ primaries' = primaries /\ sidecars' = sidecars /\ debts' = debts
      /\ maintenance' = maintenance /\ puts' = puts /\ publication' = publication /\ work' = work
  BY DEF Inv, TypeOK, Tick, objects, ledger
<1>2. TypeOK'
  BY <1>1 DEF TypeOK
<1>3. ASSUME NEW r \in Reports, Ripe(r)
      PROVE  Ripe(r)'
  <2>1. created[r] \in Nat
    BY <1>1 DEF TypeOK
  <2>. QED
    BY <1>1, <1>3, <2>1, Durations DEF Ripe
<1>4. ASSUME NEW d \in Debts, Due(d)
      PROVE  Due(d)'
  <2>1. Ripe(d.id)'
    BY <1>3, <1>4 DEF Due, Debts
  <2>. QED
    BY <1>1, <1>4, <2>1 DEF Due
<1>5. \A d \in debts' : Due(d)'
  BY <1>1, <1>4 DEF Inv, TypeOK
<1>6. ASSUME NEW p \in puts
      PROVE  PutGood(p)'
  <2>1. now < p.by /\ p.by \in Nat /\ PutGood(p)
    BY <1>1 DEF Tick, Inv, TypeOK
  <2>2. now + 1 <= p.by
    BY <1>1, <2>1
  <2>. QED
    BY <1>1, <2>1, <2>2 DEF PutGood
<1>7. ASSUME NEW r \in Reports
      PROVE  PublicationGood(r)'
  <2>1. PublicationGood(r) /\ created[r] \in Nat
    BY <1>1 DEF Inv, TypeOK
  <2>2. publication[r].by # None => now + 1 <= created[r] + PUBLICATION_TIMEOUT
    BY <1>1, <2>1, Durations DEF Tick
  <2>3. (Whole(r)' <=> Whole(r)) /\ (Gone(r)' <=> Gone(r)) /\ (Owed(r)' <=> Owed(r)) /\ (Ripe(r) => Ripe(r)')
    BY <1>1, <1>3 DEF Whole, Gone, Owed
  <2>. QED
    BY <1>1, <2>1, <2>2, <2>3 DEF PublicationGood
<1>8. ASSUME NEW c \in Containers
      PROVE  WorkGood(c)'
  <2> DEFINE w == work[c]
  <2>1. WorkGood(c) /\ w \in Work /\ w.at \in Nat
    BY <1>1 DEF Inv, TypeOK, Work
  <2>2. ASSUME w.task = "reconcile"
        PROVE  created[w.id] > 0 /\ now + 1 <= created[w.id] + RECOVERY
    <3>1. w.id \in Reports /\ created[w.id] \in Nat /\ created[w.id] > 0
      BY <1>1, <2>1, <2>2 DEF WorkGood, Fresh, TypeOK
    <3>2. w # Free
      BY <2>2 DEF Free
    <3>3. now < Min({w.at + PUBLICATION_TIMEOUT, created[w.id] + RECOVERY})
      BY <2>2, <3>2 DEF Tick, Deadline
    <3>4. w.at + PUBLICATION_TIMEOUT \in Nat /\ created[w.id] + RECOVERY \in Nat
      BY <2>1, <3>1, Durations
    <3>5. Min({w.at + PUBLICATION_TIMEOUT, created[w.id] + RECOVERY}) <= created[w.id] + RECOVERY
      BY <3>4, MinOfTwo
    <3>6. Min({w.at + PUBLICATION_TIMEOUT, created[w.id] + RECOVERY}) \in Nat
      <4>1. \E x \in {w.at + PUBLICATION_TIMEOUT, created[w.id] + RECOVERY} :
              \A y \in {w.at + PUBLICATION_TIMEOUT, created[w.id] + RECOVERY} : x <= y
        BY <3>4
      <4>. QED
        BY <3>4, <4>1 DEF Min
    <3>. QED
      BY <1>1, <3>1, <3>3, <3>4, <3>5, <3>6
  <2>3. \A d \in w.prior : Due(d)'
    BY <1>4, <2>1 DEF WorkGood, Work
  <2>4. ASSUME w.step \in {"warn", "delete"}, NEW d \in DOMAIN w.doomed
        PROVE  Due(d)' /\ Doing(d, work[c].doomed[d])'
    <3>1. d \in Debts
      BY <2>1, <2>4, DoomsAreDebts DEF Work
    <3>2. Due(d) /\ Doing(d, w.doomed[d])
      BY <2>1, <2>4 DEF WorkGood
    <3>. QED
      BY <1>1, <1>4, <3>1, <3>2 DEF Doing, Gone
  <2>0. w.at <= now
    BY <2>1 DEF WorkGood
  <2>5. w.at <= now'
    BY <1>1, <2>0, <2>1
  <2>. QED
    BY <1>1, <2>1, <2>2, <2>3, <2>4, <2>5 DEF WorkGood, Fresh
<1>. QED
  BY <1>1, <1>2, <1>5, <1>6, <1>7, <1>8 DEF Inv

-----------------------------------------------------------------------------
(* The theorems.                                                           *)

\* The store starts sound,
LEMMA InvInit == Init => Inv
<1> SUFFICES ASSUME Init
             PROVE  Inv
  OBVIOUS
<1>1. TypeOK
  <2>1. publication \in [Reports -> [state : PublicationStates, by : Containers \cup {None}]]
    BY DEF Init, PublicationStates
  <2>2. work \in [Containers -> Work]
    BY FreeIsWork DEF Init
  <2>3. created \in [Reports -> Nat]
    BY DEF Init
  <2>4. now = 1 /\ puts = {} /\ primaries = {} /\ sidecars = {} /\ debts = {}
    BY DEF Init
  <2>5. now \in Nat \ {0}
    BY <2>4
  <2>6. maintenance \in BOOLEAN
    BY DEF Init
  <2>. QED
    BY <2>1, <2>2, <2>3, <2>4, <2>5, <2>6 DEF TypeOK
<1>2. \A r \in Reports : PublicationGood(r)
  BY DEF Init, PublicationGood
<1>3. \A c \in Containers : WorkGood(c)
  <2> TAKE c \in Containers
  <2>1. work[c] = Free /\ now = 1
    BY DEF Init
  <2>2. Free.at = 0 /\ Free.task = "none" /\ Free.step = "none" /\ Free.prior = {}
    BY DEF Free
  <2>3. Free.at <= now
    BY <2>1, <2>2
  <2>. QED
    BY <2>1, <2>2, <2>3 DEF WorkGood, CommitSteps, ReconcileSteps, PassSteps
<1>. QED
  BY <1>1, <1>2, <1>3 DEF Init, Inv

\* whatever a container does with its lock keeps it so,
LEMMA ProceedSound ==
    ASSUME Inv, NEW c \in Containers, Proceed(c)
    PROVE  Sound(c)
BY ReadLedgerSound, ListSound, WarnSound, EndDeletesSound, ReadLedgerAgainSound, SignalSound,
   PutPrimarySound, PutSidecarSound, ReadExactStoredBundleSound, ReadPrimarySound,
   ReadSidecarSound, RepairSound, MarkDebtSound, RemoveSidecarSound, RemovePrimarySound,
   ClearDebtSound, RemovePrimaryOnlySound
   DEF Proceed, Delete

\* whatever fails keeps it so,
LEMMA TroubleSound ==
    ASSUME Inv, NEW c \in Containers, Trouble(c)
    PROVE  Sound(c)
BY PutFailsSound, AbortSound, CrashSound, DeleteFailsSound DEF Trouble

\* and so does every step.
LEMMA InvNext == Inv /\ [Next]_vars => Inv'
<1> SUFFICES ASSUME Inv, [Next]_vars
             PROVE  Inv'
  OBVIOUS
<1>1. CASE Tick
  BY <1>1, TickKeeps
<1>2. ASSUME NEW p \in puts, Lands(p)
      PROVE  Inv'
  BY <1>2, LandsMoves, MovesKeep, Durations
<1>3. ASSUME NEW c \in Containers, Sound(c)
      PROVE  Inv'
  BY <1>3, MovesKeep DEF Sound
<1>4. ASSUME NEW c \in Containers, Proceed(c) \/ Trouble(c) \/ StartPass(c)
      PROVE  Inv'
  BY <1>3, <1>4, ProceedSound, TroubleSound, StartPassSound
<1>5. ASSUME NEW c \in Containers, NEW r \in Reports,
             Prepare(c, r) \/ TakeUp(c, r) \/ Recover(c, r) \/ ReadExpired(c, r)
      PROVE  Inv'
  BY <1>3, <1>5, PrepareKeeps, TakeUpSound, RecoverSound, ReadExpiredSound
<1>6. CASE UNCHANGED vars
  <2>1. UNCHANGED <<now, primaries, sidecars, created, publication, debts, maintenance, puts, work>>
    BY <1>6 DEF vars, objects, ledger
  <2>2. TypeOK'
    BY <2>1 DEF Inv, TypeOK
  <2>3. \A d \in debts' : Due(d)'
    BY <2>1 DEF Inv, Due, Ripe
  <2>4. \A p \in puts' : PutGood(p)'
    BY <2>1 DEF Inv, PutGood
  <2>5. \A r \in Reports : PublicationGood(r)'
    BY <2>1 DEF Inv, PublicationGood, Whole, Ripe, Gone, Owed
  <2>6. \A c \in Containers : WorkGood(c)'
    <3>1. ASSUME NEW d
          PROVE  (Due(d)' <=> Due(d)) /\ \A step : Doing(d, step)' <=> Doing(d, step)
      BY <2>1 DEF Due, Doing, Ripe, Gone
    <3>2. \A r : Fresh(r)' <=> Fresh(r)
      BY <2>1 DEF Fresh
    <3>. QED
      BY <2>1, <3>1, <3>2 DEF Inv, WorkGood
  <2>. QED
    BY <2>1, <2>2, <2>3, <2>4, <2>5, <2>6 DEF Inv
<1>. QED
  BY <1>1, <1>2, <1>4, <1>5, <1>6 DEF Next

\* The inductive invariant: whoever writes a share does so before it is ripe, whoever
\* deletes one does so afterwards and under a debt, in every reachable state.
THEOREM StoreInvariant == Spec => []Inv
<1>1. Spec => Init /\ [][Next]_vars
  BY DEF Spec
<1>. QED
  BY <1>1, InvInit, InvNext, PTL

\* A share that was published and lost one of its objects is in the ledger of deletions
\* (deleteWithRetentionDebt records before it deletes, and forgets when both are gone):
\* for any number of containers that publish, repair and delete side by side, whatever
\* calls fail, take effect late, or lose their caller.
THEOREM LedgerTellsWhatIsHalf == Spec => []HealthyMeansWhole
<1>1. Inv => HealthyMeansWhole
  BY DEF Inv, PublicationGood, HealthyMeansWhole, Whole, Gone, Owed
<1>. QED
  BY <1>1, StoreInvariant, PTL

\* The first part of AnswersHold.
FoundIsWhole ==
    \A r \in Reports : publication[r].state = "found" /\ now < created[r] + SURVIVAL => Whole(r)

\* A report that its submitter was told is public (commitPreparedScanReportBundle,
\* reconcilePreparedScanReportBundle) can be read in full until it has had its time,
\* whoever lists and deletes meanwhile (pruneStoredReportsUnlocked).
THEOREM FoundStaysWhole == Spec => []FoundIsWhole
<1>1. Inv => FoundIsWhole
  <2> SUFFICES ASSUME Inv, NEW r \in Reports, publication[r].state = "found",
                      now < created[r] + SURVIVAL
               PROVE  Whole(r)
    BY DEF FoundIsWhole
  <2>1. created[r] \in Nat /\ now \in Nat
    BY DEF Inv, TypeOK
  <2>2. ~Ripe(r)
    BY <2>1, Durations DEF Ripe
  <2>. QED
    BY <2>2 DEF Inv, PublicationGood
<1>. QED
  BY <1>1, StoreInvariant, PTL

-----------------------------------------------------------------------------
(* What a publication is told when it fails.  An invariant that stands on   *)
(* Inv: a commit finds nothing of its share before it writes, for nobody    *)
(* else may write it, and what one failed call left behind is known to the  *)
(* reading back.                                                           *)

NoPut(r) == \A p \in puts : p.id # r
NoSidecarPut(r) == \A p \in puts : p.id = r => p.part # "sidecar"
Unwritten(r) == Gone(r) /\ NoPut(r)

\* Only trouble leaves PUTs behind, and a sidecar follows its report.
PartsAnswer ==
    /\ trouble \in Nat
    /\ trouble = 0 => puts = {}
    /\ \A r \in sidecars : r \in primaries \/ Ripe(r)
    /\ \A p \in puts : p.part = "sidecar" => p.id \in primaries \/ Ripe(p.id)

\* What a publisher knows of its share.
WorkAnswers(c) ==
    LET w == work[c]
    IN  /\ w.task = "commit" /\ w.step \in PassSteps \cup {"delete", "primary"} => Unwritten(w.id)
        /\ w.step = "sidecar" => w.id \in primaries /\ w.id \notin sidecars /\ NoPut(w.id)
        /\ w.step = "check" => Whole(w.id)
        /\ w.step = "adopt" => trouble >= 1
        /\ w.task = "reconcile" /\ trouble = 0 => Gone(w.id)
        /\ w.step = "absent" /\ trouble <= 1 => NoSidecarPut(w.id)
        /\ w.step = "reread" => w.id \in sidecars
        /\ w.step = "readopt" /\ trouble <= 1 => Whole(w.id)

\* What is behind what a publication was told.
PublicationAnswers(r) ==
    LET s == publication[r].state
    IN  /\ s \in {"none", "prepared", "refused"} => Unwritten(r)
        /\ s # "broken"
        /\ s \in {"readback", "unknown"} /\ trouble = 0 => Gone(r)
        /\ s = "lost" => trouble >= 1
        /\ s = "unknown" /\ trouble <= 1 => r \notin sidecars /\ NoSidecarPut(r)

AnswerInv ==
    /\ PartsAnswer
    /\ \A c \in Containers : WorkAnswers(c)
    /\ \A r \in Reports : PublicationAnswers(r)

\* A step writes nothing of a share, or takes nothing of it; trouble only adds up.
Untouched(r) ==
    /\ r \in primaries' => r \in primaries
    /\ r \in sidecars' => r \in sidecars
    /\ \A p \in puts' \ puts : p.id # r

Stays(r) ==
    /\ r \in primaries => r \in primaries'
    /\ r \in sidecars => r \in sidecars'

Later == trouble' \in Nat /\ trouble' >= trouble

\* What is known of a publication is what was, or its container stopped.
SameNews(r) ==
    \/ publication'[r].state = publication[r].state
    \/ publication'[r].state = "lost" /\ trouble' >= 1

\* A publisher whose share others leave alone still knows what it knew.
LEMMA WorkKept ==
    ASSUME Inv, AnswerInv, Later, NEW k \in Containers, work'[k] = work[k], NEW r, r = work[k].id,
           work[k].task \in {"commit", "reconcile"} => Stays(r),
           work[k].task = "commit" /\ NoPut(r) => Untouched(r),
           work[k].task = "reconcile" /\ trouble' = 0 => Untouched(r),
           work[k].task = "reconcile" /\ trouble' <= 1 /\ NoSidecarPut(r) => NoSidecarPut(r)'
    PROVE  WorkAnswers(k)'
<1>0. PICK w : w = work[k]
  OBVIOUS
<1>1. WorkGood(k) /\ WorkAnswers(k) /\ work[k] = w /\ work'[k] = w /\ w.id = r /\ trouble \in Nat
  BY <1>0 DEF Inv, AnswerInv, PartsAnswer
<1>2. /\ trouble' = 0 => trouble = 0
      /\ trouble' <= 1 => trouble <= 1
      /\ trouble >= 1 => trouble' >= 1
  BY <1>1 DEF Later
<1>3. /\ w.step \in {"sidecar", "check", "adopt"} => w.task = "commit"
      /\ w.step \in {"absent", "reread", "readopt"} => w.task = "reconcile"
  BY <1>1 DEF WorkGood, CommitSteps, ReconcileSteps
<1>4. w.task = "commit" /\ w.step \in PassSteps \cup {"delete", "primary"} => Unwritten(r)'
  BY <1>1 DEF WorkAnswers, Unwritten, Untouched, Gone, NoPut
<1>5. w.step = "sidecar" => r \in primaries' /\ r \notin sidecars' /\ NoPut(r)'
  BY <1>1, <1>3 DEF WorkAnswers, Untouched, Stays, NoPut
<1>6. w.step = "check" => Whole(r)'
  BY <1>1, <1>3 DEF WorkAnswers, Stays, Whole
<1>7. w.step = "adopt" => trouble' >= 1
  BY <1>1, <1>2 DEF WorkAnswers
<1>8. w.task = "reconcile" /\ trouble' = 0 => Gone(r)'
  BY <1>1, <1>2 DEF WorkAnswers, Untouched, Gone
<1>9. w.step = "absent" /\ trouble' <= 1 => NoSidecarPut(r)'
  BY <1>1, <1>2, <1>3 DEF WorkAnswers
<1>10. w.step = "reread" => r \in sidecars'
  BY <1>1, <1>3 DEF WorkAnswers, Stays
<1>11. w.step = "readopt" /\ trouble' <= 1 => Whole(r)'
  BY <1>1, <1>2, <1>3 DEF WorkAnswers, Stays, Whole
<1>. QED
  BY <1>1, <1>4, <1>5, <1>6, <1>7, <1>8, <1>9, <1>10, <1>11 DEF WorkAnswers

\* What was told of a publication stays so, if the share is left alone.
LEMMA NewsKept ==
    ASSUME AnswerInv, Later, NEW r \in Reports, SameNews(r),
           Unwritten(r) => Untouched(r),
           trouble' = 0 => Untouched(r),
           publication[r].state = "unknown" /\ trouble' <= 1 /\ r \notin sidecars /\ NoSidecarPut(r)
             => r \notin sidecars' /\ NoSidecarPut(r)'
    PROVE  PublicationAnswers(r)'
<1>1. PublicationAnswers(r) /\ trouble \in Nat
  BY DEF AnswerInv, PartsAnswer
<1>2. /\ trouble' = 0 => trouble = 0
      /\ trouble' <= 1 => trouble <= 1
      /\ trouble >= 1 => trouble' >= 1
  BY <1>1 DEF Later
<1>3. CASE publication'[r].state = "lost" /\ trouble' >= 1
  BY <1>3 DEF PublicationAnswers
<1>4. CASE publication'[r].state = publication[r].state
  <2> DEFINE s == publication[r].state
  <2>1. s \in {"none", "prepared", "refused"} => Unwritten(r)'
    BY <1>1 DEF PublicationAnswers, Unwritten, Untouched, Gone, NoPut
  <2>2. s # "broken" /\ (s = "lost" => trouble' >= 1)
    BY <1>1, <1>2 DEF PublicationAnswers
  <2>3. s \in {"readback", "unknown"} /\ trouble' = 0 => Gone(r)'
    BY <1>1, <1>2 DEF PublicationAnswers, Untouched, Gone
  <2>4. s = "unknown" /\ trouble' <= 1 => r \notin sidecars' /\ NoSidecarPut(r)'
    BY <1>1, <1>2 DEF PublicationAnswers
  <2>. QED
    BY <1>4, <2>1, <2>2, <2>3, <2>4 DEF PublicationAnswers
<1>. QED
  BY <1>3, <1>4 DEF SameNews

\* A share that is left alone tells the same.
LEMMA UntouchedNews ==
    ASSUME AnswerInv, Later, NEW r \in Reports, SameNews(r), Untouched(r)
    PROVE  PublicationAnswers(r)'
<1>1. r \notin sidecars /\ NoSidecarPut(r) => r \notin sidecars' /\ NoSidecarPut(r)'
  BY DEF Untouched, NoSidecarPut
<1>. QED
  BY <1>1, NewsKept

\* Sidecars follow their reports, if the new ones do.
LEMMA PartsKept ==
    ASSUME Inv, AnswerInv, NEW c, Moves(c), Later, trouble' = 0 => puts' = {},
           \A r \in sidecars' \ sidecars : r \in primaries' \/ Ripe(r),
           \A p \in puts' \ puts : p.part = "sidecar" => p.id \in primaries' \/ Ripe(p.id)
    PROVE  PartsAnswer'
<1>1. \A r \in Reports : /\ Ripe(r)' <=> Ripe(r)
                         /\ r \in primaries => r \in primaries' \/ Ripe(r)
  BY ObjectsAfter DEF Moves, ObjectsMove
<1>2. /\ sidecars' \subseteq Reports /\ \A p \in puts' : p.id \in Reports
  BY DEF Moves, TypeOK
<1>3. \A r \in sidecars' : r \in primaries' \/ Ripe(r)'
  BY <1>1, <1>2 DEF AnswerInv, PartsAnswer
<1>4. \A p \in puts' : p.part = "sidecar" => p.id \in primaries' \/ Ripe(p.id)'
  BY <1>1, <1>2 DEF AnswerInv, PartsAnswer
<1>. QED
  BY <1>3, <1>4 DEF PartsAnswer, Later

\* Nobody else is at a share that is committed.
LEMMA CommitsAlone ==
    ASSUME Inv, NEW c \in Containers, NEW k \in Containers \ {c}, work[c].task = "commit",
           work[k].task \in {"commit", "reconcile"}
    PROVE  work[k].id # work[c].id
<1>1. /\ work[c].id \in Reports /\ publication[work[c].id].by = c
  BY DEF Inv, WorkGood
<1>2. publication[work[k].id].by \in {None, k}
  BY DEF Inv, WorkGood
<1>. QED
  BY <1>1, <1>2, Durations

\* A step of container c that writes at most the share r, with which it is.
LEMMA AnswersAfter ==
    ASSUME Inv, AnswerInv, NEW c \in Containers, Moves(c), Later, NEW r,
           \A q \in Reports \ {r} : Untouched(q),
           \A q \in Reports : (Untouched(q) /\ SameNews(q)) \/ PublicationAnswers(q)',
           \/ Untouched(r)
           \/ work[c].task = "commit" /\ work[c].id = r
           \/ /\ work[c].task = "reconcile" /\ work[c].id = r /\ trouble' >= 1
              /\ trouble' <= 1 /\ NoSidecarPut(r) => NoSidecarPut(r)',
           PartsAnswer', WorkAnswers(c)'
    PROVE  AnswerInv'
<1>1. \A q \in Reports : PublicationAnswers(q)'
  BY UntouchedNews
<1>2. ASSUME NEW k \in Containers \ {c}
      PROVE  WorkAnswers(k)'
  <2>0. PICK q : q = work[k].id
    OBVIOUS
  <2>1. work'[k] = work[k] /\ WorkGood(k) /\ q = work[k].id
    BY <2>0 DEF Moves, Inv
  <2>2. CASE work[k].task \notin {"commit", "reconcile"}
    BY <2>1, <2>2, WorkKept
  <2>3. CASE work[k].task \in {"commit", "reconcile"}
    <3>1. q \in Reports /\ ~Ripe(q)
      BY <2>1, <2>3, WriterFresh, FreshNotRipe DEF Inv, WorkGood
    <3>2. Stays(q)
      BY <3>1 DEF Moves, ObjectsMove, Stays
    <3>3. CASE Untouched(q)
      <4>1. NoSidecarPut(q) => NoSidecarPut(q)'
        BY <3>3 DEF Untouched, NoSidecarPut
      <4>. QED
        BY <2>1, <3>2, <3>3, <4>1, WorkKept
    <3>4. CASE ~Untouched(q)
      <4>1. q = r /\ work[c].id = q
        BY <2>1, <3>1, <3>4
      <4>2. work[c].task # "commit"
        BY <2>1, <2>3, <4>1, CommitsAlone
      <4>3. /\ work[c].task = "reconcile" /\ trouble' >= 1
            /\ trouble' <= 1 /\ NoSidecarPut(q) => NoSidecarPut(q)'
        BY <3>4, <4>1, <4>2
      <4>4. work[k].task # "commit"
        BY <2>1, <4>1, <4>3, CommitsAlone
      <4>5. trouble' # 0
        BY <4>3
      <4>. QED
        BY <2>1, <3>2, <4>3, <4>4, <4>5, WorkKept
    <3>. QED
      BY <3>3, <3>4
  <2>. QED
    BY <2>2, <2>3
<1>. QED
  BY <1>1, <1>2 DEF AnswerInv

\* Nothing is written, though something may be taken.
Shrinks ==
    /\ primaries' \in SUBSET primaries /\ sidecars' \in SUBSET sidecars /\ puts' \in SUBSET puts
    /\ Later

LEMMA StillShrinks ==
    ASSUME AnswerInv, UNCHANGED <<objects, puts, trouble>>
    PROVE  Shrinks
<1>1. trouble \in Nat /\ primaries' = primaries /\ sidecars' = sidecars /\ puts' = puts /\ trouble' = trouble
  BY DEF AnswerInv, PartsAnswer, objects
<1>. QED
  BY <1>1 DEF Shrinks, Later

\* A step that writes nothing.
LEMMA ShrinkAnswers ==
    ASSUME Inv, AnswerInv, NEW c \in Containers, Moves(c), Shrinks, WorkAnswers(c)',
           \A q \in Reports : SameNews(q) \/ PublicationAnswers(q)'
    PROVE  AnswerInv'
<1>1. Later /\ \A q : Untouched(q)
  BY DEF Shrinks, Untouched
<1>2. /\ trouble' = 0 => puts' = {}
      /\ sidecars' \ sidecars = {} /\ puts' \ puts = {}
  BY DEF AnswerInv, PartsAnswer, Shrinks, Later
<1>3. PartsAnswer'
  BY <1>1, <1>2, PartsKept
<1>. QED
  BY <1>1, <1>3, AnswersAfter

\* A container that holds no lock, or is at no publication, knows nothing of one.
LEMMA IdleAnswers ==
    ASSUME NEW c \in Containers, work'[c].task \notin {"commit", "reconcile"},
           work'[c].step \in PassSteps \cup {"none", "delete"}
    PROVE  WorkAnswers(c)'
BY DEF WorkAnswers, PassSteps

LEMMA ReleaseIsIdle ==
    ASSUME TypeOK, NEW c \in Containers, Release(c)
    PROVE  WorkAnswers(c)'
<1>1. work'[c] = Free
  BY FreeIsWork, WorkAfter DEF Release
<1>. QED
  BY <1>1, IdleAnswers DEF Free

\* What may be told of a publication.
Tells(state, r) ==
    /\ state \in {"found", "refused", "unknown"}
    /\ state = "refused" => Unwritten(r)
    /\ state = "unknown" /\ trouble = 0 => Gone(r)
    /\ state = "unknown" /\ trouble <= 1 => r \notin sidecars /\ NoSidecarPut(r)

\* A publication ends.
LEMMA AnswerNews ==
    ASSUME TypeOK, NEW c \in Containers, NEW r \in Reports, r = work[c].id, NEW state, Answer(c, state),
           Tells(state, r)'
    PROVE  /\ WorkAnswers(c)' /\ PublicationAnswers(r)'
           /\ \A q \in Reports \ {r} : publication'[q] = publication[q]
<1>1. Release(c) /\ publication' = [publication EXCEPT ![r] =
                        IF publication[r].state = "found" THEN publication[r]
                        ELSE [state |-> state, by |-> None]]
  BY DEF Answer
<1>2. /\ publication'[r].state \in {"found", state}
      /\ \A q \in Reports \ {r} : publication'[q] = publication[q]
  BY <1>1 DEF TypeOK
<1>3. PublicationAnswers(r)'
  BY <1>2 DEF PublicationAnswers, Tells
<1>. QED
  BY <1>1, <1>2, <1>3, ReleaseIsIdle

\* A commit fails.
LEMMA CommitFailsNews ==
    ASSUME TypeOK, NEW c \in Containers, NEW r \in Reports, r = work[c].id, CommitFails(c),
           trouble' = 0 => Gone(r)'
    PROVE  /\ WorkAnswers(c)' /\ PublicationAnswers(r)'
           /\ \A q \in Reports \ {r} : publication'[q] = publication[q]
<1>1. Release(c) /\ publication' = [publication EXCEPT ![r] = [publication[r] EXCEPT !.state = "readback"]]
  BY DEF CommitFails
<1>2. /\ publication'[r].state = "readback"
      /\ \A q \in Reports \ {r} : publication'[q] = publication[q]
  BY <1>1 DEF TypeOK
<1>3. PublicationAnswers(r)'
  BY <1>2 DEF PublicationAnswers
<1>. QED
  BY <1>1, <1>2, <1>3, ReleaseIsIdle

-----------------------------------------------------------------------------
(* Of passes, and of what a container takes up.                            *)

\* A share that is about to be committed is as unwritten as it was.
LEMMA ShrinkUnwritten ==
    ASSUME NEW r, Unwritten(r), Shrinks
    PROVE  Unwritten(r)'
BY DEF Unwritten, Gone, NoPut, Shrinks

\* A pass goes on, for itself or for a commit.
LEMMA PassAnswers ==
    ASSUME Inv, AnswerInv, NEW c \in Containers, Moves(c), Shrinks, publication' = publication,
           work[c].step \in PassSteps \cup {"delete"}, work'[c].step \in PassSteps \cup {"delete"},
           work'[c].task = work[c].task, work'[c].id = work[c].id
    PROVE  AnswerInv'
<1>0. PICK r : r = work[c].id
  OBVIOUS
<1>1. /\ WorkGood(c) /\ WorkAnswers(c) /\ work'[c].id = r /\ work[c].id = r
      /\ \A q \in Reports : SameNews(q)
  BY <1>0 DEF Inv, AnswerInv, SameNews
<1>2. work[c].task # "reconcile"
  BY <1>1 DEF WorkGood, PassSteps
<1>3. work[c].task = "commit" => Unwritten(r)'
  BY <1>1, ShrinkUnwritten DEF WorkAnswers
<1>4. WorkAnswers(c)'
  <2>1. CASE work[c].task = "commit"
    BY <1>1, <1>3, <2>1 DEF WorkAnswers, PassSteps
  <2>2. CASE work[c].task # "commit"
    BY <1>2, <2>2, IdleAnswers
  <2>. QED
    BY <2>1, <2>2
<1>. QED
  BY <1>1, <1>4, ShrinkAnswers

\* A publication is told, or is to be read back, and nothing was written.
LEMMA EndsQuietly ==
    ASSUME Inv, AnswerInv, NEW c \in Containers, Moves(c), Shrinks, NEW r \in Reports, r = work[c].id,
           \/ CommitFails(c) /\ (trouble' = 0 => Gone(r)')
           \/ \E state : Answer(c, state) /\ Tells(state, r)'
    PROVE  AnswerInv'
<1>1. /\ WorkAnswers(c)' /\ PublicationAnswers(r)'
      /\ \A q \in Reports \ {r} : publication'[q] = publication[q]
  BY AnswerNews, CommitFailsNews DEF Inv
<1>2. \A q \in Reports : SameNews(q) \/ PublicationAnswers(q)'
  BY <1>1 DEF SameNews
<1>. QED
  BY <1>1, <1>2, ShrinkAnswers

\* What follows a pass.
LEMMA AfterPassAnswers ==
    ASSUME Inv, AnswerInv, NEW c \in Containers, Moves(c), Shrinks, NEW w, AfterPass(c, w),
           w.task = work[c].task, w.id = work[c].id, work[c].step \in PassSteps
    PROVE  AnswerInv'
<1>0. PICK r : r = work[c].id
  OBVIOUS
<1>1. TypeOK /\ WorkGood(c) /\ WorkAnswers(c) /\ r = work[c].id /\ now \in Nat
  BY <1>0 DEF Inv, AnswerInv, TypeOK
<1>2. CASE w.task = "pass"
  <2>1. Release(c) /\ \A q \in Reports : SameNews(q)
    BY <1>2 DEF AfterPass, SameNews
  <2>. QED
    BY <1>1, <2>1, ReleaseIsIdle, ShrinkAnswers
<1>3. CASE w.task # "pass"
  <2>1. work[c].task = "commit" /\ r \in Reports
    BY <1>1, <1>3 DEF WorkGood, PassSteps
  <2>2. Unwritten(r)'
    BY <1>1, <2>1, ShrinkUnwritten DEF WorkAnswers
  <2>3. CASE CommitFails(c)
    BY <1>1, <2>1, <2>2, <2>3, EndsQuietly DEF Unwritten
  <2>4. CASE Answer(c, "refused")
    <3>1. Tells("refused", r)'
      BY <2>2 DEF Tells
    <3>. QED
      BY <1>1, <2>1, <2>4, <3>1, EndsQuietly
  <2>5. CASE publication' = publication /\ work' = [work EXCEPT ![c] = Begin("commit", "primary", w.id)]
    <3> DEFINE b == Begin("commit", "primary", w.id)
    <3>1. /\ "commit" \in Tasks /\ "primary" \in Steps /\ w.id \in Reports \cup {0}
      BY <1>1, <2>1 DEF Tasks, Steps, CommitSteps
    <3>2. /\ b \in Work /\ b.task = "commit" /\ b.step = "primary" /\ b.id = w.id
      BY <1>1, <3>1, BeginIsWork
    <3> HIDE DEF b
    <3>3. work'[c] = b
      BY <1>1, <2>5, <3>2, WorkAfter DEF b
    <3>4. WorkAnswers(c)'
      BY <1>1, <2>2, <3>2, <3>3 DEF WorkAnswers
    <3>5. \A q \in Reports : SameNews(q)
      BY <2>5 DEF SameNews
    <3>. QED
      BY <3>4, <3>5, ShrinkAnswers
  <2>. QED
    BY <1>3, <2>3, <2>4, <2>5 DEF AfterPass
<1>. QED
  BY <1>2, <1>3

\* What passes do to the ledger, and what they read.
LEMMA ReadLedgerAnswers ==
    ASSUME Inv, AnswerInv, NEW c \in Containers, ReadLedger(c) \/ Warn(c) \/ ReadLedgerAgain(c)
    PROVE  AnswerInv'
<1>1. Moves(c)
  BY ReadLedgerSound, WarnSound, ReadLedgerAgainSound DEF Sound
<1>2. Shrinks /\ publication' = publication
  BY StillShrinks DEF ReadLedger, Warn, ReadLedgerAgain
<1>3. work[c] \in Work /\ work \in [Containers -> Work]
  BY DEF Inv, TypeOK
<1>4. work[c].step \in PassSteps
  BY DEF ReadLedger, Warn, ReadLedgerAgain, At, PassSteps
<1>5. /\ work'[c].step \in {"list", "delete", "signal"} /\ work'[c].task = work[c].task
      /\ work'[c].id = work[c].id
  <2>1. CASE ReadLedger(c)
    BY <1>3, <2>1 DEF ReadLedger, Work
  <2>2. CASE Warn(c)
    BY <1>3, <2>2 DEF Warn, Go, Work
  <2>3. CASE ReadLedgerAgain(c)
    BY <1>3, <2>3 DEF ReadLedgerAgain, Work
  <2>. QED
    BY <2>1, <2>2, <2>3
<1>6. work'[c].step \in PassSteps \cup {"delete"}
  BY <1>5 DEF PassSteps
<1>. QED
  BY <1>1, <1>2, <1>4, <1>5, <1>6, PassAnswers

\* The listing, and the end of a pass.
LEMMA ListAnswers ==
    ASSUME Inv, AnswerInv, NEW c \in Containers, List(c)
    PROVE  AnswerInv'
<1>1. Moves(c) /\ Shrinks
  BY ListSound, StillShrinks DEF List, Sound
<1>2. work[c].step \in PassSteps /\ work[c] \in Work /\ work \in [Containers -> Work]
  BY DEF List, At, PassSteps, Inv, TypeOK
<1>3. PICK selected \in Selections(c, Incoming(c)) :
         LET partial == Unread(work[c].at) # {}
             w == [work[c] EXCEPT !.full = Full(c, selected),
                                  !.doomed = [d \in selected |-> "mark"]]
             further == partial \/ Deletions(c, Incoming(c)) # selected
         IN  \/ /\ selected # {}
                /\ work' = [work EXCEPT ![c] = [w EXCEPT !.step = "warn", !.flagged = further]]
                /\ UNCHANGED publication
             \/ /\ selected = {} /\ w.flagged # partial
                /\ work' = [work EXCEPT ![c] = [w EXCEPT !.step = "signal", !.flagged = partial]]
                /\ UNCHANGED publication
             \/ selected = {} /\ w.flagged = partial /\ AfterPass(c, w)
  BY DEF List
<1> DEFINE full == Full(c, selected)
           marks == [d \in selected |-> "mark"]
           w == [work[c] EXCEPT !.full = full, !.doomed = marks]
           partial == Unread(work[c].at) # {}
           further == partial \/ Deletions(c, Incoming(c)) # selected
<1> HIDE DEF full, marks, partial, further
<1>4. w.task = work[c].task /\ w.id = work[c].id
  BY <1>2 DEF Work
<1>5. ASSUME NEW step \in {"warn", "signal"}, NEW flagged, publication' = publication,
             work' = [work EXCEPT ![c] = [w EXCEPT !.step = step, !.flagged = flagged]]
      PROVE  AnswerInv'
  <2>1. /\ work'[c].step = step /\ work'[c].task = work[c].task /\ work'[c].id = work[c].id
    BY <1>2, <1>5 DEF Work
  <2>2. work'[c].step \in PassSteps
    BY <2>1 DEF PassSteps
  <2>. QED
    BY <1>1, <1>2, <1>5, <2>1, <2>2, PassAnswers
<1>6. CASE AfterPass(c, w)
  BY <1>1, <1>2, <1>4, <1>6, AfterPassAnswers
<1>. QED
  BY <1>3, <1>5, <1>6 DEF full, marks, partial, further

LEMMA SignalAnswers ==
    ASSUME Inv, AnswerInv, NEW c \in Containers, Signal(c)
    PROVE  AnswerInv'
<1>1. Moves(c) /\ Shrinks
  BY SignalSound, StillShrinks DEF Signal, Sound
<1>2. AfterPass(c, work[c]) /\ work[c].step \in PassSteps
  BY DEF Signal, At, PassSteps
<1>. QED
  BY <1>1, <1>2, AfterPassAnswers

\* Deletions take, whether their calls fail or not.
LEMMA DoomAnswers ==
    ASSUME Inv, AnswerInv, NEW c \in Containers, NEW d \in Debts, Delete(c, d) \/ DeleteFails(c, d)
    PROVE  AnswerInv'
<1>1. Moves(c)
  BY MarkDebtSound, RemoveSidecarSound, RemovePrimarySound, ClearDebtSound,
     RemovePrimaryOnlySound, DeleteFailsSound DEF Delete, Sound
<1>2. publication' = publication /\ puts' = puts
  BY DEF Delete, MarkDebt, RemoveSidecar, RemovePrimary, ClearDebt, RemovePrimaryOnly, DeleteFails
<1>3. primaries' \in {primaries, primaries \ {d.id}} /\ sidecars' \in {sidecars, sidecars \ {d.id}}
  BY DEF Delete, MarkDebt, RemoveSidecar, RemovePrimary, ClearDebt, RemovePrimaryOnly, DeleteFails,
         objects
<1>4. trouble \in Nat /\ trouble' \in {trouble, trouble + 1}
  BY DEF Delete, MarkDebt, RemoveSidecar, RemovePrimary, ClearDebt, RemovePrimaryOnly, DeleteFails,
         Fails, AnswerInv, PartsAnswer
<1>5. Shrinks
  BY <1>2, <1>3, <1>4 DEF Shrinks, Later
<1>6. At(c, "delete") /\ \E step : Doom(c, d, step)
  BY DEF Delete, MarkDebt, RemoveSidecar, RemovePrimary, ClearDebt, RemovePrimaryOnly, DeleteFails,
         DoomedAt
<1>7. /\ work[c].step = "delete" /\ work'[c].step = "delete" /\ work'[c].task = work[c].task
      /\ work'[c].id = work[c].id
  BY <1>6 DEF Inv, TypeOK, Work, Doom, At
<1>. QED
  BY <1>1, <1>2, <1>5, <1>7, PassAnswers

LEMMA EndDeletesAnswers ==
    ASSUME Inv, AnswerInv, NEW c \in Containers, EndDeletes(c)
    PROVE  AnswerInv'
<1>1. Moves(c) /\ Shrinks /\ work[c].step = "delete" /\ TypeOK
  BY EndDeletesSound, StillShrinks DEF EndDeletes, At, Sound, Inv
<1>2. CASE Release(c) /\ publication' = publication
  BY <1>1, <1>2, ReleaseIsIdle, ShrinkAnswers DEF SameNews
<1>3. CASE Go(c, "after") /\ publication' = publication
  <2>1. /\ work'[c].step \in PassSteps /\ work'[c].task = work[c].task /\ work'[c].id = work[c].id
    BY <1>1, <1>3 DEF TypeOK, Work, Go, PassSteps
  <2>. QED
    BY <1>1, <1>3, <2>1, PassAnswers
<1>4. CASE work[c].task = "commit" /\ CommitFails(c)
  <2>0. PICK r : r = work[c].id
    OBVIOUS
  <2>1. r \in Reports /\ Unwritten(r)
    BY <1>1, <1>4, <2>0 DEF Inv, WorkGood, AnswerInv, WorkAnswers
  <2>2. Gone(r)'
    BY <1>1, <2>1, ShrinkUnwritten DEF Unwritten
  <2>. QED
    BY <1>1, <1>4, <2>0, <2>1, <2>2, EndsQuietly
<1>. QED
  BY <1>2, <1>3, <1>4 DEF EndDeletes

\* A container begins something for which it needs to know little.
LEMMA BeginAnswers ==
    ASSUME TypeOK, NEW c \in Containers, NEW task \in Tasks, NEW step \in Steps,
           NEW r \in Reports \cup {0}, work' = [work EXCEPT ![c] = Begin(task, step, r)],
           \/ task = "pass" /\ step = "ledger"
           \/ task = "commit" /\ step = "ledger" /\ Unwritten(r)'
           \/ task = "reconcile" /\ step = "read" /\ (trouble' = 0 => Gone(r)')
    PROVE  WorkAnswers(c)'
<1>0. PICK b : b = Begin(task, step, r)
  OBVIOUS
<1>1. b \in Work /\ b.task = task /\ b.step = step /\ b.id = r
  BY <1>0, BeginIsWork DEF TypeOK
<1>2. work'[c] = b
  BY <1>0, <1>1, WorkAfter
<1>. QED
  BY <1>1, <1>2 DEF WorkAnswers, PassSteps

LEMMA StartAnswers ==
    ASSUME Inv, AnswerInv, NEW c \in Containers, StartPass(c)
    PROVE  AnswerInv'
<1>1. Moves(c) /\ Shrinks /\ TypeOK
  BY StartPassSound, StillShrinks DEF StartPass, Sound, Inv
<1>2. "pass" \in Tasks /\ "ledger" \in Steps /\ 0 \in Reports \cup {0}
  BY DEF Tasks, Steps, PassSteps
<1>3. WorkAnswers(c)'
  BY <1>1, <1>2, BeginAnswers DEF StartPass
<1>4. \A q \in Reports : SameNews(q)
  BY DEF StartPass, SameNews
<1>. QED
  BY <1>1, <1>3, <1>4, ShrinkAnswers

LEMMA ExpireAnswers ==
    ASSUME Inv, AnswerInv, NEW c \in Containers, NEW r \in Reports, ReadExpired(c, r)
    PROVE  AnswerInv'
<1>1. Moves(c) /\ Shrinks /\ TypeOK
  BY ReadExpiredSound, StillShrinks DEF ReadExpired, Sound, Inv
<1>2. PICK b : b = Begin("expire", "delete", r)
  OBVIOUS
<1>3. "expire" \in Tasks /\ "delete" \in Steps /\ r \in Reports \cup {0}
  BY DEF Tasks, Steps
<1>4. b \in Work /\ b.task = "expire" /\ b.step = "delete"
  BY <1>1, <1>2, <1>3, BeginIsWork DEF TypeOK
<1>5. \E marks : work' = [work EXCEPT ![c] = [b EXCEPT !.doomed = marks]]
  BY <1>2 DEF ReadExpired
<1>6. work'[c].task = "expire" /\ work'[c].step = "delete"
  BY <1>1, <1>4, <1>5 DEF Work, TypeOK
<1>7. \A q \in Reports : SameNews(q)
  BY DEF ReadExpired, SameNews
<1>. QED
  BY <1>1, <1>6, <1>7, IdleAnswers, ShrinkAnswers

\* What nobody wrote is committed; what a container stopped with is read back.
LEMMA TakeUpAnswers ==
    ASSUME Inv, AnswerInv, NEW c \in Containers, NEW r \in Reports, TakeUp(c, r)
    PROVE  AnswerInv'
<1>1. Moves(c) /\ Shrinks /\ TypeOK /\ PublicationAnswers(r) /\ trouble' = trouble
  BY TakeUpSound, StillShrinks DEF TakeUp, Sound, Inv, AnswerInv
<1>2. publication' = [publication EXCEPT ![r] = [publication[r] EXCEPT !.state = "under way"]]
  BY DEF TakeUp
<1>3. publication'[r].state = "under way" /\ \A q \in Reports \ {r} : SameNews(q)
  BY <1>1, <1>2 DEF TypeOK, SameNews
<1>4. PublicationAnswers(r)'
  BY <1>3 DEF PublicationAnswers
<1>5. {"commit", "reconcile"} \subseteq Tasks /\ {"ledger", "read"} \subseteq Steps
  BY DEF Tasks, Steps, PassSteps, ReconcileSteps
<1>6. WorkAnswers(c)'
  <2>1. CASE publication[r].state = "prepared" /\ work' = [work EXCEPT ![c] = Begin("commit", "ledger", r)]
    <3>1. Unwritten(r)'
      BY <1>1, <2>1, ShrinkUnwritten DEF PublicationAnswers
    <3>. QED
      BY <1>1, <1>5, <2>1, <3>1, BeginAnswers
  <2>2. CASE publication[r].state = "readback" /\ work' = [work EXCEPT ![c] = Begin("reconcile", "read", r)]
    <3>1. trouble' = 0 => Gone(r)'
      BY <1>1, <2>2 DEF PublicationAnswers, Gone, Shrinks
    <3>. QED
      BY <1>1, <1>5, <2>2, <3>1, BeginAnswers
  <2>. QED
    BY <2>1, <2>2 DEF TakeUp
<1>. QED
  BY <1>1, <1>3, <1>4, <1>6, ShrinkAnswers

LEMMA RecoverAnswers ==
    ASSUME Inv, AnswerInv, NEW c \in Containers, NEW r \in Reports, Recover(c, r)
    PROVE  AnswerInv'
<1>1. Moves(c) /\ Shrinks /\ TypeOK /\ PublicationAnswers(r) /\ trouble' = trouble
  BY RecoverSound, StillShrinks DEF Recover, Sound, Inv, AnswerInv
<1>2. "reconcile" \in Tasks /\ "read" \in Steps
  BY DEF Tasks, Steps, ReconcileSteps
<1>3. trouble' = 0 => Gone(r)'
  BY <1>1 DEF Recover, PublicationAnswers, Gone, Shrinks
<1>4. WorkAnswers(c)'
  BY <1>1, <1>2, <1>3, BeginAnswers DEF Recover
<1>5. \A q \in Reports : SameNews(q)
  BY DEF Recover, SameNews
<1>. QED
  BY <1>1, <1>4, <1>5, ShrinkAnswers

-----------------------------------------------------------------------------
(* Of publications.                                                        *)

\* A publication that is under way gets to another step.
LEMMA GoNews ==
    ASSUME TypeOK, NEW c \in Containers, NEW step \in CommitSteps \cup ReconcileSteps, Go(c, step)
    PROVE  /\ work'[c].step = step /\ work'[c].task = work[c].task /\ work'[c].id = work[c].id
<1>1. step \in Steps
  BY DEF Steps
<1>. QED
  BY <1>1, GoAfter

\* The PUT of a report finds nothing of it,
LEMMA PutPrimaryAnswers ==
    ASSUME Inv, AnswerInv, NEW c \in Containers, PutPrimary(c)
    PROVE  AnswerInv'
<1>0. PICK r : r = work[c].id
  OBVIOUS
<1>1. /\ Moves(c) /\ TypeOK /\ WorkGood(c) /\ WorkAnswers(c) /\ trouble \in Nat /\ trouble' = trouble
      /\ PartsAnswer
  BY PutPrimarySound DEF PutPrimary, Sound, Inv, AnswerInv, PartsAnswer
<1>2. work[c].task = "commit" /\ work[c].step = "primary" /\ r \in Reports
  BY <1>0, <1>1 DEF PutPrimary, At, WorkGood, CommitSteps
<1>3. /\ Unwritten(r) /\ publication' = publication /\ puts' = puts
      /\ primaries' = primaries \cup {r} /\ sidecars' = sidecars
  BY <1>0, <1>1, <1>2 DEF PutPrimary, WorkAnswers
<1>4. Go(c, "sidecar")
  BY <1>0, <1>3 DEF PutPrimary, Unwritten, Gone
<1>5. work'[c].step = "sidecar" /\ work'[c].task = "commit" /\ work'[c].id = r
  BY <1>0, <1>1, <1>2, <1>4, GoNews DEF CommitSteps
<1>6. WorkAnswers(c)'
  BY <1>3, <1>5 DEF WorkAnswers, Unwritten, Gone, NoPut, PassSteps
<1>7. Later /\ \A q \in Reports : SameNews(q)
  BY <1>1, <1>3 DEF Later, SameNews
<1>8. \A q \in Reports \ {r} : Untouched(q)
  BY <1>3 DEF Untouched
<1>9. PublicationAnswers(r)'
  <2>1. publication'[r].state = "under way"
    BY <1>0, <1>1, <1>2, <1>3 DEF WorkGood
  <2>. QED
    BY <2>1 DEF PublicationAnswers
<1>10. PartsAnswer'
  BY <1>1, <1>3, <1>7, PartsKept DEF PartsAnswer
<1>. QED
  BY <1>0, <1>1, <1>2, <1>6, <1>7, <1>8, <1>9, <1>10, AnswersAfter

\* and so does that of its sidecar.
LEMMA PutSidecarAnswers ==
    ASSUME Inv, AnswerInv, NEW c \in Containers, PutSidecar(c)
    PROVE  AnswerInv'
<1>0. PICK r : r = work[c].id
  OBVIOUS
<1>1. /\ Moves(c) /\ TypeOK /\ WorkGood(c) /\ WorkAnswers(c) /\ trouble \in Nat /\ trouble' = trouble
      /\ PartsAnswer
  BY PutSidecarSound DEF PutSidecar, Sound, Inv, AnswerInv, PartsAnswer
<1>2. work[c].task = "commit" /\ work[c].step = "sidecar" /\ r \in Reports
  BY <1>0, <1>1 DEF PutSidecar, At, WorkGood, CommitSteps
<1>3. /\ r \in primaries /\ r \notin sidecars /\ publication' = publication /\ puts' = puts
      /\ primaries' = primaries /\ sidecars' = sidecars \cup {r}
  BY <1>0, <1>1, <1>2 DEF PutSidecar, WorkAnswers
<1>4. Go(c, "check")
  BY <1>0, <1>3 DEF PutSidecar
<1>5. work'[c].step = "check" /\ work'[c].task = "commit" /\ work'[c].id = r
  BY <1>0, <1>1, <1>2, <1>4, GoNews DEF CommitSteps
<1>6. WorkAnswers(c)'
  BY <1>3, <1>5 DEF WorkAnswers, Whole, PassSteps
<1>7. Later /\ \A q \in Reports : SameNews(q)
  BY <1>1, <1>3 DEF Later, SameNews
<1>8. \A q \in Reports \ {r} : Untouched(q)
  BY <1>3 DEF Untouched
<1>9. PublicationAnswers(r)'
  <2>1. publication'[r].state = "under way"
    BY <1>0, <1>1, <1>2, <1>3 DEF WorkGood
  <2>. QED
    BY <2>1 DEF PublicationAnswers
<1>10. PartsAnswer'
  BY <1>1, <1>3, <1>7, PartsKept DEF PartsAnswer
<1>. QED
  BY <1>0, <1>1, <1>2, <1>6, <1>7, <1>8, <1>9, <1>10, AnswersAfter

\* A publication goes on, and nothing was written.
LEMMA GoesOnQuietly ==
    ASSUME Inv, AnswerInv, NEW c \in Containers, Moves(c), Shrinks, publication' = publication,
           WorkAnswers(c)'
    PROVE  AnswerInv'
<1>1. \A q \in Reports : SameNews(q)
  BY DEF SameNews
<1>. QED
  BY <1>1, ShrinkAnswers

\* A bundle that was committed is there, unless something went wrong; a sidecar that is
\* there has its report.
LEMMA ReadBundleAnswers ==
    ASSUME Inv, AnswerInv, NEW c \in Containers, ReadExactStoredBundle(c)
    PROVE  AnswerInv'
<1>0. PICK r : r = work[c].id
  OBVIOUS
<1>1. /\ Moves(c) /\ Shrinks /\ TypeOK /\ WorkGood(c) /\ WorkAnswers(c) /\ PartsAnswer
      /\ trouble \in Nat /\ trouble' = trouble /\ primaries' = primaries /\ sidecars' = sidecars
  BY ReadExactStoredBundleSound, StillShrinks
     DEF ReadExactStoredBundle, Sound, Inv, AnswerInv, PartsAnswer, objects
<1>2. /\ work[c].step \in {"adopt", "check"} => work[c].task = "commit"
      /\ work[c].step \in {"reread", "readopt"} => work[c].task = "reconcile"
      /\ work[c].step \in {"adopt", "check", "reread", "readopt"}
  BY <1>1 DEF ReadExactStoredBundle, At, WorkGood, CommitSteps, ReconcileSteps
<1>3. r \in Reports /\ ~Ripe(r)
  BY <1>0, <1>2, WriterFresh
<1>4. Tells("found", r)'
  BY DEF Tells
<1>5. CASE At(c, "adopt")
  <2>1. trouble' >= 1
    BY <1>1, <1>5 DEF WorkAnswers, At
  <2>2. CASE Whole(r) /\ Go(c, "check") /\ UNCHANGED publication
    <3>1. work'[c].step = "check" /\ work'[c].task = work[c].task /\ work'[c].id = r
      BY <1>0, <1>1, <2>2, GoNews DEF CommitSteps
    <3>2. WorkAnswers(c)'
      BY <1>1, <1>2, <1>5, <2>2, <3>1 DEF WorkAnswers, Whole, PassSteps, At
    <3>. QED
      BY <1>1, <2>2, <3>2, GoesOnQuietly
  <2>3. CASE CommitFails(c)
    <3>1. trouble' # 0
      BY <2>1
    <3>. QED
      BY <1>0, <1>1, <1>3, <2>3, <3>1, EndsQuietly
  <2>. QED
    BY <1>0, <1>5, <2>2, <2>3 DEF ReadExactStoredBundle, At
<1>6. CASE At(c, "check")
  <2>1. Answer(c, "found")
    BY <1>1, <1>6 DEF WorkAnswers, At, ReadExactStoredBundle
  <2>. QED
    BY <1>0, <1>1, <1>3, <1>4, <2>1, EndsQuietly
<1>7. CASE At(c, "reread")
  <2>1. Whole(r)
    BY <1>0, <1>1, <1>3, <1>7 DEF WorkAnswers, At, PartsAnswer, Whole
  <2>2. Answer(c, "found")
    BY <1>0, <1>7, <2>1 DEF ReadExactStoredBundle, At
  <2>. QED
    BY <1>0, <1>1, <1>3, <1>4, <2>2, EndsQuietly
<1>8. CASE At(c, "readopt")
  <2>1. CASE Answer(c, "found")
    BY <1>0, <1>1, <1>3, <1>4, <2>1, EndsQuietly
  <2>2. CASE ~Whole(r) /\ Answer(c, "unknown")
    <3>1. ~(trouble' <= 1) /\ trouble' # 0
      BY <1>0, <1>1, <1>8, <2>2 DEF WorkAnswers, At
    <3>2. Tells("unknown", r)'
      BY <3>1 DEF Tells
    <3>. QED
      BY <1>0, <1>1, <1>3, <2>2, <3>2, EndsQuietly
  <2>. QED
    BY <1>0, <1>8, <2>1, <2>2 DEF ReadExactStoredBundle, At
<1>. QED
  BY <1>2, <1>5, <1>6, <1>7, <1>8 DEF At

\* Of a report that is not there, no sidecar is on its way.
LEMMA ReadPrimaryAnswers ==
    ASSUME Inv, AnswerInv, NEW c \in Containers, ReadPrimary(c)
    PROVE  AnswerInv'
<1>0. PICK r : r = work[c].id
  OBVIOUS
<1>1. /\ Moves(c) /\ Shrinks /\ TypeOK /\ WorkGood(c) /\ WorkAnswers(c) /\ PartsAnswer
      /\ trouble' = trouble /\ primaries' = primaries /\ sidecars' = sidecars /\ puts' = puts
      /\ publication' = publication
  BY ReadPrimarySound, StillShrinks
     DEF ReadPrimary, Sound, Inv, AnswerInv, objects
<1>2. work[c].task = "reconcile"
  BY <1>1 DEF ReadPrimary, At, WorkGood, ReconcileSteps
<1>3. r \in Reports /\ ~Ripe(r)
  BY <1>0, <1>2, WriterFresh
<1>4. r \notin primaries => NoSidecarPut(r)'
  BY <1>1, <1>3 DEF PartsAnswer, NoSidecarPut
<1>5. PICK step \in {"present", "absent"} : Go(c, step) /\ (step = "absent" => r \notin primaries)
  BY <1>0 DEF ReadPrimary
<1>6. work'[c].step = step /\ work'[c].task = "reconcile" /\ work'[c].id = r
  BY <1>0, <1>1, <1>2, <1>5, GoNews DEF ReconcileSteps
<1>7. trouble' = 0 => Gone(r)'
  BY <1>0, <1>1, <1>2 DEF WorkAnswers, Gone
<1>8. WorkAnswers(c)'
  BY <1>4, <1>5, <1>6, <1>7 DEF WorkAnswers
<1>. QED
  BY <1>1, <1>8, GoesOnQuietly

\* A publication of which neither object was there is not public.
LEMMA ReadSidecarAnswers ==
    ASSUME Inv, AnswerInv, NEW c \in Containers, ReadSidecar(c)
    PROVE  AnswerInv'
<1>0. PICK r : r = work[c].id
  OBVIOUS
<1>1. /\ Moves(c) /\ Shrinks /\ TypeOK /\ WorkGood(c) /\ WorkAnswers(c)
      /\ trouble' = trouble /\ primaries' = primaries /\ sidecars' = sidecars /\ puts' = puts
  BY ReadSidecarSound, StillShrinks DEF ReadSidecar, Sound, Inv, AnswerInv, objects
<1>2. work[c].task = "reconcile"
  BY <1>1 DEF ReadSidecar, At, WorkGood, ReconcileSteps
<1>3. r \in Reports
  BY <1>0, <1>2, WriterFresh
<1>4. trouble' = 0 => Gone(r)'
  BY <1>0, <1>1, <1>2 DEF WorkAnswers, Gone
<1>5. CASE Answer(c, "found")
  <2>1. Tells("found", r)'
    BY DEF Tells
  <2>. QED
    BY <1>0, <1>1, <1>3, <1>5, <2>1, EndsQuietly
<1>6. CASE At(c, "absent") /\ r \notin sidecars /\ Answer(c, "unknown")
  <2>1. trouble' <= 1 => NoSidecarPut(r)'
    BY <1>0, <1>1, <1>6 DEF WorkAnswers, At, NoSidecarPut
  <2>2. Tells("unknown", r)'
    BY <1>1, <1>4, <1>6, <2>1 DEF Tells
  <2>. QED
    BY <1>0, <1>1, <1>3, <1>6, <2>2, EndsQuietly
<1>7. ASSUME NEW step \in {"repair", "reread"}, Go(c, step), publication' = publication,
             step = "reread" => r \in sidecars
      PROVE  AnswerInv'
  <2>1. work'[c].step = step /\ work'[c].task = "reconcile" /\ work'[c].id = r
    BY <1>0, <1>1, <1>2, <1>7, GoNews DEF ReconcileSteps
  <2>2. WorkAnswers(c)'
    BY <1>1, <1>4, <1>7, <2>1 DEF WorkAnswers
  <2>. QED
    BY <1>1, <1>7, <2>2, GoesOnQuietly
<1>. QED
  BY <1>0, <1>5, <1>6, <1>7 DEF ReadSidecar

\* What is repaired was committed, and something went wrong since.
LEMMA RepairAnswers ==
    ASSUME Inv, AnswerInv, NEW c \in Containers, Repair(c)
    PROVE  AnswerInv'
<1>0. PICK r : r = work[c].id
  OBVIOUS
<1>1. /\ Moves(c) /\ TypeOK /\ WorkGood(c) /\ WorkAnswers(c) /\ PartsAnswer /\ trouble \in Nat
      /\ trouble' = trouble /\ primaries' = primaries /\ sidecars' = sidecars \cup {r} /\ puts' = puts
  BY <1>0, RepairSound DEF Repair, Sound, Inv, AnswerInv, PartsAnswer
<1>2. work[c].task = "reconcile" /\ r \in primaries
  BY <1>0, <1>1 DEF Repair, At, WorkGood, ReconcileSteps
<1>3. r \in Reports
  BY <1>0, <1>2, WriterFresh
<1>4. trouble >= 1 /\ Later
  BY <1>0, <1>1, <1>2 DEF WorkAnswers, Gone, Later
<1>5. CASE r \in sidecars
  <2>1. Go(c, "readopt") /\ publication' = publication /\ sidecars' = sidecars
    BY <1>0, <1>1, <1>5 DEF Repair
  <2>2. work'[c].step = "readopt" /\ work'[c].task = "reconcile" /\ work'[c].id = r
    BY <1>0, <1>1, <1>2, <2>1, GoNews DEF ReconcileSteps
  <2>3. WorkAnswers(c)'
    BY <1>1, <1>2, <1>4, <1>5, <2>1, <2>2 DEF WorkAnswers, Whole
  <2>4. Shrinks
    BY <1>1, <1>4, <2>1 DEF Shrinks
  <2>. QED
    BY <1>1, <2>1, <2>3, <2>4, GoesOnQuietly
<1>6. CASE r \notin sidecars
  <2>1. Answer(c, "found") /\ Tells("found", r)'
    BY <1>0, <1>6 DEF Repair, Tells
  <2>2. /\ WorkAnswers(c)' /\ PublicationAnswers(r)'
        /\ \A q \in Reports \ {r} : publication'[q] = publication[q]
    BY <1>0, <1>1, <1>3, <2>1, AnswerNews
  <2>3. \A q \in Reports \ {r} : Untouched(q) /\ SameNews(q)
    BY <1>1, <2>2 DEF Untouched, SameNews
  <2>4. PartsAnswer'
    BY <1>1, <1>2, <1>4, PartsKept DEF PartsAnswer
  <2>5. trouble' >= 1 /\ (NoSidecarPut(r) => NoSidecarPut(r)')
    BY <1>1, <1>4 DEF NoSidecarPut
  <2>. QED
    BY <1>0, <1>1, <1>2, <1>4, <2>2, <2>3, <2>4, <2>5, AnswersAfter
<1>. QED
  BY <1>5, <1>6

-----------------------------------------------------------------------------
(* Of trouble.                                                             *)

\* A container was in trouble with share r, and left at most a PUT of it behind.
Fallout(c, r) ==
    /\ Later /\ trouble' >= 1 /\ PartsAnswer'
    /\ UNCHANGED objects
    /\ \A q \in Reports \ {r} : Untouched(q)
    /\ \/ Untouched(r)
       \/ work[c].task = "commit"
       \/ work[c].task = "reconcile" /\ trouble' >= 2 /\ r \in primaries

LEMMA TroubleFallout ==
    ASSUME Inv, AnswerInv, NEW c \in Containers, Moves(c), NEW r, r = work[c].id,
           Fails, LoseOrAbandon(c), UNCHANGED objects
    PROVE  Fallout(c, r)
<1>1. /\ trouble \in Nat /\ trouble' = trouble + 1 /\ primaries' = primaries /\ sidecars' = sidecars
      /\ WorkGood(c) /\ WorkAnswers(c) /\ PartsAnswer
  BY DEF Fails, objects, Inv, AnswerInv, PartsAnswer
<1>2. Later /\ trouble' >= 1 /\ trouble' # 0
  BY <1>1 DEF Later
<1>3. CASE puts' = puts
  <2>1. \A q : Untouched(q)
    BY <1>1, <1>3 DEF Untouched
  <2>2. PartsAnswer'
    BY <1>1, <1>2, <1>3, PartsKept
  <2>. QED
    BY <1>2, <2>1, <2>2 DEF Fallout
<1>4. ASSUME NEW part \in Putting(c),
             puts' = puts \cup {[part |-> part, id |-> work[c].id, by |-> now + PUT_LAG]}
      PROVE  Fallout(c, r)
  <2>0. PICK p : p = [part |-> part, id |-> r, by |-> now + PUT_LAG]
    OBVIOUS
  <2>1. puts' = puts \cup {p} /\ p.id = r /\ p.part = part
    BY <1>4, <2>0
  <2>2. \A q \in Reports \ {r} : Untouched(q)
    BY <1>1, <2>1 DEF Untouched
  <2>3. /\ work[c].step \in {"primary", "sidecar", "repair"}
        /\ work[c].step = "primary" => part = "primary"
    BY <1>4 DEF Putting, At
  <2>4. work[c].step \in {"primary", "sidecar"} => work[c].task = "commit"
    BY <1>1 DEF WorkGood, CommitSteps
  <2>5. work[c].step = "repair" => work[c].task = "reconcile" /\ r \in primaries
    BY <1>1 DEF WorkGood, ReconcileSteps
  <2>6. work[c].step = "sidecar" => r \in primaries
    BY <1>1 DEF WorkAnswers
  <2>7. work[c].step = "repair" => trouble # 0
    BY <1>1, <2>5 DEF WorkAnswers, Gone
  <2>8. work[c].step = "repair" => trouble' >= 2
    BY <1>1, <2>7
  <2>9. PartsAnswer'
    BY <1>1, <1>2, <2>1, <2>3, <2>5, <2>6, PartsKept
  <2>. QED
    BY <1>2, <2>2, <2>3, <2>4, <2>5, <2>8, <2>9 DEF Fallout
<1>. QED
  BY <1>3, <1>4 DEF LoseOrAbandon

\* What is known of the others stands.
LEMMA FalloutAnswers ==
    ASSUME Inv, AnswerInv, NEW c \in Containers, Moves(c), NEW r, r = work[c].id, Fallout(c, r),
           WorkAnswers(c)', \A q \in Reports : SameNews(q) \/ PublicationAnswers(q)'
    PROVE  AnswerInv'
<1>1. /\ Later /\ trouble' >= 1 /\ PartsAnswer' /\ \A q \in Reports \ {r} : Untouched(q)
      /\ trouble' # 0
  BY DEF Fallout
<1>2. ASSUME r \in Reports, ~Untouched(r), SameNews(r)
      PROVE  PublicationAnswers(r)'
  <2>1. CASE work[c].task = "commit"
    <3>1. publication[r].state = "under way"
      BY <2>1 DEF Inv, WorkGood
    <3>. QED
      BY <1>2, <3>1 DEF PublicationAnswers, SameNews
  <2>2. CASE trouble' >= 2 /\ r \in primaries
    <3>1. ~Unwritten(r) /\ ~(trouble' <= 1)
      BY <1>1, <2>2 DEF Unwritten, Gone, Later
    <3>. QED
      BY <1>1, <1>2, <3>1, NewsKept
  <2>. QED
    BY <1>2, <2>1, <2>2 DEF Fallout
<1>3. \A q \in Reports : (Untouched(q) /\ SameNews(q)) \/ PublicationAnswers(q)'
  BY <1>1, <1>2
<1>4. trouble' >= 2 => ~(trouble' <= 1)
  BY <1>1 DEF Later
<1>. QED
  BY <1>1, <1>3, <1>4, AnswersAfter DEF Fallout

\* A PUT that failed is looked after.
LEMMA PutFailsAnswers ==
    ASSUME Inv, AnswerInv, NEW c \in Containers, PutFails(c)
    PROVE  AnswerInv'
<1>0. PICK r : r = work[c].id
  OBVIOUS
<1>1. /\ Moves(c) /\ TypeOK /\ WorkGood(c) /\ WorkAnswers(c) /\ publication' = publication
      /\ Fails /\ LoseOrAbandon(c) /\ UNCHANGED objects
  BY PutFailsSound DEF PutFails, Sound, Inv, AnswerInv
<1>2. Fallout(c, r)
  BY <1>0, <1>1, TroubleFallout
<1>3. work[c].step \in {"primary", "sidecar", "repair"}
  BY DEF PutFails, Putting, At
<1>4. \A q \in Reports : SameNews(q)
  BY <1>1 DEF SameNews
<1>5. CASE work[c].step = "repair"
  <2>1. Go(c, "readopt") /\ work[c].task = "reconcile" /\ r \in primaries
    BY <1>0, <1>1, <1>5 DEF PutFails, At, WorkGood, ReconcileSteps
  <2>2. work'[c].step = "readopt" /\ work'[c].task = "reconcile" /\ work'[c].id = r
    BY <1>0, <1>1, <2>1, GoNews DEF ReconcileSteps
  <2>3. trouble' >= 2 /\ trouble' \in Nat
    <3>1. trouble \in Nat /\ trouble' = trouble + 1
      BY <1>1 DEF Fails, AnswerInv, PartsAnswer
    <3>2. trouble # 0
      BY <1>0, <1>1, <2>1 DEF WorkAnswers, Gone
    <3>. QED
      BY <3>1, <3>2
  <2>4. trouble' # 0 /\ ~(trouble' <= 1)
    BY <2>3
  <2>5. WorkAnswers(c)'
    BY <2>2, <2>4 DEF WorkAnswers
  <2>. QED
    BY <1>0, <1>1, <1>2, <1>4, <2>5, FalloutAnswers
<1>6. CASE work[c].step # "repair"
  <2>1. Go(c, "adopt") /\ work[c].task = "commit"
    BY <1>1, <1>3, <1>6 DEF PutFails, At, WorkGood, CommitSteps
  <2>2. work'[c].step = "adopt" /\ work'[c].task = "commit"
    BY <1>1, <2>1, GoNews DEF CommitSteps
  <2>3. WorkAnswers(c)'
    BY <1>2, <2>2 DEF WorkAnswers, PassSteps, Fallout
  <2>. QED
    BY <1>0, <1>1, <1>2, <1>4, <2>3, FalloutAnswers
<1>. QED
  BY <1>5, <1>6

\* What is cut short is read back; a reading back that was cut short was of a commit that
\* something had gone wrong with, or that had written nothing.
LEMMA AbortAnswers ==
    ASSUME Inv, AnswerInv, NEW c \in Containers, Abort(c)
    PROVE  AnswerInv'
<1>0. PICK r : r = work[c].id
  OBVIOUS
<1>1. /\ Moves(c) /\ TypeOK /\ WorkGood(c) /\ WorkAnswers(c) /\ PartsAnswer
      /\ Fails /\ LoseOrAbandon(c) /\ UNCHANGED objects
  BY AbortSound DEF Abort, Sound, Inv, AnswerInv
<1>2. Fallout(c, r)
  BY <1>0, <1>1, TroubleFallout
<1>3. trouble \in Nat /\ trouble' = trouble + 1
  BY <1>1 DEF Fails, PartsAnswer
<1>4. CASE work[c].task = "commit"
  <2>1. CommitFails(c) /\ r \in Reports /\ trouble' # 0
    BY <1>0, <1>3, <1>4, WriterFresh DEF Abort
  <2>2. /\ WorkAnswers(c)' /\ PublicationAnswers(r)'
        /\ \A q \in Reports \ {r} : publication'[q] = publication[q]
    BY <1>0, <1>1, <2>1, CommitFailsNews
  <2>3. \A q \in Reports : SameNews(q) \/ PublicationAnswers(q)'
    BY <2>2 DEF SameNews
  <2>. QED
    BY <1>0, <1>1, <1>2, <2>2, <2>3, FalloutAnswers
<1>5. CASE work[c].task = "reconcile"
  <2>1. Answer(c, "unknown") /\ r \in Reports /\ trouble' # 0
    BY <1>0, <1>3, <1>5, WriterFresh DEF Abort
  <2>2. ASSUME trouble' <= 1
        PROVE  r \notin sidecars' /\ NoSidecarPut(r)'
    <3>1. trouble = 0 /\ ~(trouble' >= 2)
      BY <1>3, <2>2
    <3>2. Gone(r) /\ puts = {}
      BY <1>0, <1>1, <1>5, <3>1 DEF WorkAnswers, PartsAnswer
    <3>3. Untouched(r)
      BY <1>2, <1>5, <3>1 DEF Fallout
    <3>. QED
      BY <3>2, <3>3 DEF Untouched, Gone, NoSidecarPut
  <2>3. Tells("unknown", r)'
    BY <2>1, <2>2 DEF Tells
  <2>4. /\ WorkAnswers(c)' /\ PublicationAnswers(r)'
        /\ \A q \in Reports \ {r} : publication'[q] = publication[q]
    BY <1>0, <1>1, <2>1, <2>3, AnswerNews
  <2>5. \A q \in Reports : SameNews(q) \/ PublicationAnswers(q)'
    BY <2>4 DEF SameNews
  <2>. QED
    BY <1>0, <1>1, <1>2, <2>4, <2>5, FalloutAnswers
<1>6. CASE work[c].task \in {"pass", "expire"}
  <2>1. Release(c) /\ publication' = publication
    BY <1>6 DEF Abort
  <2>2. WorkAnswers(c)' /\ \A q \in Reports : SameNews(q)
    BY <1>1, <2>1, ReleaseIsIdle DEF SameNews
  <2>. QED
    BY <1>0, <1>1, <1>2, <2>2, FalloutAnswers
<1>. QED
  BY <1>4, <1>5, <1>6 DEF Abort

\* A container that stops is trouble.
LEMMA CrashAnswers ==
    ASSUME Inv, AnswerInv, NEW c \in Containers, Crash(c)
    PROVE  AnswerInv'
<1>0. PICK r : r = work[c].id
  OBVIOUS
<1>1. Moves(c) /\ TypeOK /\ Fails /\ LoseOrAbandon(c) /\ UNCHANGED objects /\ Release(c)
  BY CrashSound DEF Crash, Sound, Inv
<1>2. Fallout(c, r)
  BY <1>0, <1>1, TroubleFallout
<1>3. trouble' >= 1
  BY <1>2 DEF Fallout
<1>4. ASSUME NEW q \in Reports
      PROVE  SameNews(q)
  <2>1. publication'[q] \in {[state |-> "lost", by |-> None], publication[q]}
    BY DEF Crash
  <2>. QED
    BY <1>3, <2>1 DEF SameNews
<1>5. WorkAnswers(c)'
  BY <1>1, ReleaseIsIdle
<1>. QED
  BY <1>0, <1>1, <1>2, <1>4, <1>5, FalloutAnswers

\* A PUT that lands is of a share of which more is known than that it is not there.
LEMMA LandsAnswers ==
    ASSUME Inv, AnswerInv, NEW p \in puts, Lands(p)
    PROVE  AnswerInv'
<1>1. /\ Moves(None) /\ PartsAnswer /\ trouble \in Nat /\ trouble' = trouble /\ trouble # 0
      /\ puts' = puts \ {p} /\ work' = work /\ publication' = publication
      /\ primaries' = IF p.part = "primary" THEN primaries \cup {p.id} ELSE primaries
      /\ sidecars' = IF p.part = "sidecar" THEN sidecars \cup {p.id} ELSE sidecars
  BY LandsMoves DEF Lands, AnswerInv, PartsAnswer
<1>2. Later /\ \A q \in Reports : SameNews(q)
  BY <1>1 DEF Later, SameNews
<1>3. ASSUME NEW q
      PROVE  /\ NoPut(q) => Untouched(q)
             /\ Stays(q)
             /\ NoSidecarPut(q) => NoSidecarPut(q)'
             /\ q \notin sidecars /\ NoSidecarPut(q) => q \notin sidecars'
  BY <1>1 DEF NoPut, NoSidecarPut, Untouched, Stays
<1>4. PartsAnswer'
  BY <1>1, <1>2, PartsKept DEF PartsAnswer
<1>5. \A c \in Containers : WorkAnswers(c)'
  BY <1>1, <1>2, <1>3, WorkKept
<1>6. \A q \in Reports : PublicationAnswers(q)'
  BY <1>1, <1>2, <1>3, NewsKept DEF Unwritten
<1>. QED
  BY <1>4, <1>5, <1>6 DEF AnswerInv

-----------------------------------------------------------------------------
(* Of time, and the theorem.                                               *)

\* Nothing but time or news of reports changes.
LEMMA NothingMoves ==
    ASSUME Inv, AnswerInv, UNCHANGED <<objects, puts, work, trouble>>,
           \A r \in Reports : SameNews(r) \/ PublicationAnswers(r)',
           \A r \in Reports : Ripe(r) => Ripe(r)'
    PROVE  AnswerInv'
<1>1. /\ primaries' = primaries /\ sidecars' = sidecars /\ puts' = puts /\ work' = work
      /\ trouble' = trouble /\ trouble \in Nat /\ TypeOK
  BY DEF objects, AnswerInv, PartsAnswer, Inv
<1>2. Later /\ \A q : Untouched(q) /\ Stays(q) /\ (NoSidecarPut(q) => NoSidecarPut(q)')
  BY <1>1 DEF Later, Untouched, Stays, NoSidecarPut
<1>3. sidecars \subseteq Reports /\ \A p \in puts : p.id \in Reports
  BY <1>1 DEF TypeOK
<1>4. PartsAnswer'
  BY <1>1, <1>3 DEF AnswerInv, PartsAnswer
<1>5. \A c \in Containers : WorkAnswers(c)'
  BY <1>1, <1>2, WorkKept
<1>6. \A q \in Reports : PublicationAnswers(q)'
  BY <1>2, UntouchedNews
<1>. QED
  BY <1>4, <1>5, <1>6 DEF AnswerInv

LEMMA TickAnswers ==
    ASSUME Inv, AnswerInv, Tick
    PROVE  AnswerInv'
<1>1. /\ TypeOK /\ now \in Nat /\ now' = now + 1 /\ created' = created /\ publication' = publication
  BY DEF Inv, TypeOK, Tick
<1>2. \A r \in Reports : Ripe(r) => Ripe(r)'
  BY <1>1, Durations DEF Ripe, TypeOK
<1>. QED
  BY <1>1, <1>2, NothingMoves DEF Tick, SameNews

\* A report that is prepared was never written.
LEMMA PrepareAnswers ==
    ASSUME Inv, AnswerInv, NEW c \in Containers, NEW r \in Reports, Prepare(c, r)
    PROVE  AnswerInv'
<1>1. /\ TypeOK /\ PublicationGood(r) /\ PublicationAnswers(r) /\ publication[r].state = "none"
      /\ now' = now /\ puts' = puts /\ primaries' = primaries /\ sidecars' = sidecars
  BY DEF Inv, AnswerInv, Prepare, objects
<1>2. Unwritten(r)' /\ created[r] = 0
  BY <1>1 DEF PublicationAnswers, PublicationGood, Unwritten, Gone, NoPut
<1>3. /\ publication'[r].state = "prepared"
      /\ \A q \in Reports \ {r} : SameNews(q) /\ created'[q] = created[q]
  BY <1>1 DEF Prepare, TypeOK, SameNews
<1>4. \A q \in Reports : Ripe(q) => Ripe(q)'
  BY <1>1, <1>2, <1>3 DEF Ripe
<1>5. PublicationAnswers(r)'
  BY <1>2, <1>3 DEF PublicationAnswers
<1>. QED
  BY <1>3, <1>4, <1>5, NothingMoves DEF Prepare

LEMMA AnswerInit == Init => AnswerInv
<1> SUFFICES ASSUME Init
             PROVE  AnswerInv
  OBVIOUS
<1>1. /\ primaries = {} /\ sidecars = {} /\ puts = {} /\ trouble = 0
      /\ \A r \in Reports : publication[r].state = "none"
      /\ \A c \in Containers : work[c].task = "none" /\ work[c].step = "none"
  BY DEF Init, Free
<1>2. PartsAnswer
  BY <1>1 DEF PartsAnswer
<1>3. \A c \in Containers : WorkAnswers(c)
  BY <1>1 DEF WorkAnswers, PassSteps
<1>4. \A r \in Reports : PublicationAnswers(r)
  BY <1>1 DEF PublicationAnswers, Unwritten, Gone, NoPut
<1>. QED
  BY <1>2, <1>3, <1>4 DEF AnswerInv

LEMMA ProceedAnswers ==
    ASSUME Inv, AnswerInv, NEW c \in Containers, Proceed(c)
    PROVE  AnswerInv'
BY ReadLedgerAnswers, ListAnswers, EndDeletesAnswers, SignalAnswers, PutPrimaryAnswers,
   PutSidecarAnswers, ReadBundleAnswers, ReadPrimaryAnswers, ReadSidecarAnswers, RepairAnswers,
   DoomAnswers DEF Proceed

LEMMA TroubleAnswers ==
    ASSUME Inv, AnswerInv, NEW c \in Containers, Trouble(c)
    PROVE  AnswerInv'
BY PutFailsAnswers, AbortAnswers, CrashAnswers, DoomAnswers DEF Trouble

LEMMA AnswerNext == Inv /\ AnswerInv /\ [Next]_vars => AnswerInv'
<1> SUFFICES ASSUME Inv, AnswerInv, [Next]_vars
             PROVE  AnswerInv'
  OBVIOUS
<1>1. CASE Tick
  BY <1>1, TickAnswers
<1>2. ASSUME NEW p \in puts, Lands(p)
      PROVE  AnswerInv'
  BY <1>2, LandsAnswers
<1>3. ASSUME NEW c \in Containers, Proceed(c) \/ Trouble(c) \/ StartPass(c)
      PROVE  AnswerInv'
  BY <1>3, ProceedAnswers, TroubleAnswers, StartAnswers
<1>4. ASSUME NEW c \in Containers, NEW r \in Reports,
             Prepare(c, r) \/ TakeUp(c, r) \/ Recover(c, r) \/ ReadExpired(c, r)
      PROVE  AnswerInv'
  BY <1>4, PrepareAnswers, TakeUpAnswers, RecoverAnswers, ExpireAnswers
<1>5. CASE UNCHANGED vars
  <2>1. UNCHANGED <<now, created, objects, puts, work, trouble, publication>>
    BY <1>5 DEF vars
  <2>2. \A r \in Reports : SameNews(r) /\ (Ripe(r) => Ripe(r)')
    BY <2>1 DEF SameNews, Ripe
  <2>. QED
    BY <2>1, <2>2, NothingMoves
<1>. QED
  BY <1>1, <1>2, <1>3, <1>4, <1>5 DEF Next

\* Whatever a publication was told is so (commitPreparedBundleOrReconcile,
\* reconcilePreparedScanReportBundle): what was found is public until it has had its time,
\* what was refused was never written, nothing is found broken, and what one failed call
\* hid was read back before the publication was given up as unknown.
THEOREM PublicationsAreToldTheTruth == Spec => []AnswersHold
<1>1. Inv /\ AnswerInv /\ FoundIsWhole => AnswersHold
  BY DEF AnswerInv, PublicationAnswers, FoundIsWhole, AnswersHold, Unwritten, Gone, Whole
<1>. QED
  BY <1>1, StoreInvariant, FoundStaysWhole, AnswerInit, AnswerNext, PTL DEF Spec
=============================================================================
