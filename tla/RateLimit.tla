------------------------------ MODULE RateLimit ------------------------------
(***************************************************************************)
(* The quota decisions of the coordinating Durable Object, as functions of *)
(* the stored rows and the clock: the fixed windows and the rolling window *)
(* of lib/public-scan-rate-limit-store.ts, and the attempt ceiling of      *)
(* lib/admission-attempt-limit.ts.  Nothing here has state.                *)
(*                                                                         *)
(* A fixed-window row is keyed by <<namespace, who, duration, window id>>. *)
(* A rolling log is a sequence of charges in the order they were made.     *)
(***************************************************************************)
EXTENDS Integers, FiniteSets, FiniteSetsExt, Sequences

CONSTANTS
    SECOND, MINUTE, DAY,                    \* ticks of the Durable Object clock
    PER_MINUTE, PER_DAY,                    \* one client's public scans
    GLOBAL_PER_MINUTE, GLOBAL_PER_DAY,      \* everyone's public scans
    AUTH_PER_MINUTE, AUTH_GLOBAL_PER_MINUTE,
    READS, READ_LIMIT, READ_GLOBAL_LIMIT,   \* namespaces of public reads
    ATTEMPT_WINDOW, ATTEMPT_CLIENT_LIMIT, ATTEMPT_GLOBAL_LIMIT,
    CLEANUP_MAX_ROWS

ASSUME QuotaAssumption ==
    /\ \A n \in {SECOND, MINUTE, DAY, PER_MINUTE, PER_DAY, GLOBAL_PER_MINUTE,
                 GLOBAL_PER_DAY, AUTH_PER_MINUTE, AUTH_GLOBAL_PER_MINUTE,
                 READ_LIMIT, READ_GLOBAL_LIMIT, ATTEMPT_WINDOW,
                 ATTEMPT_CLIENT_LIMIT, ATTEMPT_GLOBAL_LIMIT, CLEANUP_MAX_ROWS} :
          n \in Nat \ {0}
    /\ DAY % MINUTE = 0
    /\ ATTEMPT_WINDOW <= MINUTE

Everyone == "everyone"
Costs == {1, 2}

Allowed == [allowed |-> TRUE, retryAfter |-> 0]

\* A refusal names whole seconds, at least one.
Refused(until, now) ==
    [allowed |-> FALSE,
     retryAfter |-> Max({1, (until - now + SECOND - 1) \div SECOND})]

-----------------------------------------------------------------------------
(* Fixed windows.                                                          *)

Window(namespace, who, duration, limit, now) ==
    [bucket    |-> <<namespace, who, duration, now \div duration>>,
     limit     |-> limit,
     expiresAt |-> (now \div duration + 1) * duration]

PublicWindows(client, now) ==
    {Window("public-scan", Everyone, MINUTE, GLOBAL_PER_MINUTE, now),
     Window("public-scan", Everyone, DAY, GLOBAL_PER_DAY, now),
     Window("public-scan", client, MINUTE, PER_MINUTE, now),
     Window("public-scan", client, DAY, PER_DAY, now)}

ReadWindows(namespace, client, now) ==
    {Window(namespace, Everyone, MINUTE, READ_GLOBAL_LIMIT, now),
     Window(namespace, client, MINUTE, READ_LIMIT, now)}

\* A row whose window has passed counts as no row, swept or not.
Used(rows, bucket, now) ==
    IF bucket \in DOMAIN rows /\ rows[bucket].expiresAt > now
    THEN rows[bucket].used
    ELSE 0

\* Faulty: leaves the global ceiling out.
ExceededByClient(rows, windows, cost, now) ==
    {w \in windows : w.bucket[2] # Everyone /\ Used(rows, w.bucket, now) + cost > w.limit}

Exceeded(rows, windows, cost, now) ==
    {w \in windows : Used(rows, w.bucket, now) + cost > w.limit}

\* Faulty: names the nearest of the exceeded windows.
FixedDecisionNearest(rows, windows, cost, now) ==
    LET exceeded == Exceeded(rows, windows, cost, now)
    IN IF exceeded = {} THEN Allowed
       ELSE Refused(Min({w.expiresAt : w \in exceeded}), now)

FixedDecision(rows, windows, cost, now) ==
    LET exceeded == Exceeded(rows, windows, cost, now)
    IN IF exceeded = {} THEN Allowed
       ELSE Refused(Max({w.expiresAt : w \in exceeded}), now)

\* Faulty: writes the rows back without the cost.
ConsumedNothing(rows, windows, cost, now) ==
    [b \in DOMAIN rows \union {w.bucket : w \in windows} |->
       [used |-> Used(rows, b, now), expiresAt |-> now + MINUTE]]

Consumed(rows, windows, cost, now) ==
    LET rowOf(w) == [used |-> Used(rows, w.bucket, now) + cost, expiresAt |-> w.expiresAt]
        charged  == {w.bucket : w \in windows}
    IN [b \in DOMAIN rows \union charged |->
          IF b \in charged THEN rowOf(CHOOSE w \in windows : w.bucket = b) ELSE rows[b]]

\* Faulty: charges the windows that still had room when another had none.
ChargedRowsPartly(rows, windows, cost, now) ==
    Consumed(rows, windows \ Exceeded(rows, windows, cost, now), cost, now)

\* Every window is charged or none is.
ChargedRows(rows, windows, cost, now) ==
    IF FixedDecision(rows, windows, cost, now).allowed
    THEN Consumed(rows, windows, cost, now)
    ELSE rows

\* The tables left by one bounded cleanup, which deletes the rows that expired
\* first.  Rows of one expiry go in the order of their names, left open here.
Cleaned(rows, now) ==
    LET expired == {b \in DOMAIN rows : rows[b].expiresAt <= now}
        batch   == Min({CLEANUP_MAX_ROWS, Cardinality(expired)})
        oldest  == {D \in kSubset(batch, expired) :
                      \A d \in D, e \in expired \ D : rows[d].expiresAt <= rows[e].expiresAt}
    IN {[b \in DOMAIN rows \ D |-> rows[b]] : D \in oldest}

-----------------------------------------------------------------------------
(* The rolling window of authenticated scans.  Rows of a log are given by   *)
(* their places in it.                                                     *)

\* Faulty: lets a charge go one tick early.
LiveChargesEarly(log, window, now) == {i \in DOMAIN log : log[i].at + window > now + 1}

LiveCharges(log, window, now) == {i \in DOMAIN log : log[i].at + window > now}

ChargesOf(log, rows, client) == {i \in rows : log[i].client = client}

FirstRows(rows, n) == {i \in rows : Cardinality({j \in rows : j < i}) < n}

\* The sum of the costs, as the number of units that the rows stand for.
Units(log, rows) == {u \in rows \X Costs : u[2] <= log[u[1]].cost}

Cost(log, rows) == Cardinality(Units(log, rows))

\* Refusals wait until enough of the oldest charges have left the window.
RollingDecision(log, rows, cost, limit, now) ==
    LET excess == Cost(log, rows) + cost - limit
        enough == {i \in rows : Cost(log, {j \in rows : j <= i}) >= excess}
    IN IF excess <= 0 THEN Allowed
       ELSE IF rows = {} THEN Refused(now + MINUTE, now)
       ELSE Refused(log[Min(enough \union {Max(rows)})].at + MINUTE, now)

AuthenticatedDecision(log, client, cost, now) ==
    LET live   == LiveCharges(log, MINUTE, now)
        global == RollingDecision(log, FirstRows(live, AUTH_GLOBAL_PER_MINUTE + 1), cost,
                                  AUTH_GLOBAL_PER_MINUTE, now)
        own    == RollingDecision(log, FirstRows(ChargesOf(log, live, client), AUTH_PER_MINUTE + 1),
                                  cost, AUTH_PER_MINUTE, now)
    IN IF global.allowed THEN own ELSE global

\* The log is ordered, so a bounded cleanup drops a prefix of it.
CleanedLog(log, window, batch, now) ==
    LET expired == Cardinality(DOMAIN log \ LiveCharges(log, window, now))
    IN SubSeq(log, Min({batch, expired}) + 1, Len(log))

-----------------------------------------------------------------------------
(* The ceiling on admission attempts.                                      *)

\* When the last of the events that leave room for one more has left: nothing if
\* there is room.
FreesAt(log, events, limit) ==
    {log[i].at + ATTEMPT_WINDOW :
       i \in {e \in events : Cardinality({j \in events : j > e}) = limit - 1}}

AttemptDecision(log, client, now) ==
    LET live  == FirstRows(LiveCharges(log, ATTEMPT_WINDOW, now), ATTEMPT_GLOBAL_LIMIT + 1)
        until == FreesAt(log, live, ATTEMPT_GLOBAL_LIMIT)
                   \union FreesAt(log, ChargesOf(log, live, client), ATTEMPT_CLIENT_LIMIT)
    IN IF until = {} THEN Allowed ELSE Refused(Max(until), now)

=============================================================================
