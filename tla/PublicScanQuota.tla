--------------------------- MODULE PublicScanQuota ---------------------------
(***************************************************************************)
(* The quota tables of the coordinating Durable Object: fixed windows for  *)
(* public scans and public reads, a rolling log for authenticated scans,   *)
(* and a rolling log of admission attempts.  Every operation is one        *)
(* transactionSync, so it is one action; a charge and the sweep before it  *)
(* stand or fall together.                                                 *)
(***************************************************************************)
EXTENDS RateLimit

CONSTANTS
    Clients,
    MAX_TIME    \* bound: the last tick an instance reaches

ASSUME PublicScanQuotaAssumption ==
    /\ MAX_TIME \in Nat /\ Everyone \notin Clients
    /\ READS \intersect {"public-scan", "authenticated", "attempt"} = {}

VARIABLES
    now,        \* the Durable Object's clock
    buckets,    \* public_scan_rate_limits: bucket -> [used, expiresAt]
    rolling,    \* authenticated_scan_rate_limits, oldest first
    attempts,   \* admission_attempts, oldest first
    granted     \* history: a token for each unit of cost that was granted, kept
                \* for a day; fixed windows note the minute's first tick

vars == <<now, buckets, rolling, attempts, granted>>

FixedNamespaces == {"public-scan"} \union READS

Init ==
    /\ now = 0
    /\ buckets = << >>
    /\ rolling = << >>
    /\ attempts = << >>
    /\ granted = {}

Token(namespace, client, at, nth) ==
    [namespace |-> namespace, client |-> client, at |-> at, nth |-> nth]

Grant(namespace, client, cost, at) ==
    LET before == {g \in granted : <<g.namespace, g.client, g.at>> = <<namespace, client, at>>}
    IN granted' = granted \union {Token(namespace, client, at, Cardinality(before) + n) : n \in 1..cost}

Charge(client, cost) == [client |-> client, at |-> now, cost |-> cost]

-----------------------------------------------------------------------------

\* evaluatePublicScanRateLimit on fixed windows.  A peek sweeps and decides; a
\* charge also consumes when the decision allows it.
EvaluateFixed(namespace, client, windows, cost, consume) ==
    \E swept \in Cleaned(buckets, now) :
      LET allowed == FixedDecision(swept, windows, cost, now).allowed IN
      /\ buckets' = IF consume THEN ChargedRows(swept, windows, cost, now) ELSE swept
      /\ IF allowed /\ consume
         THEN Grant(namespace, client, cost, (now \div MINUTE) * MINUTE)
         ELSE UNCHANGED granted
      /\ UNCHANGED <<now, rolling, attempts>>

ChargePublicScan(client, cost) ==
    EvaluateFixed("public-scan", client, PublicWindows(client, now), cost, TRUE)

PeekPublicScan(client, cost) ==
    EvaluateFixed("public-scan", client, PublicWindows(client, now), cost, FALSE)

\* Job status, watch and report reads, and the recovery of an admission.
ChargeRead(namespace, client) ==
    EvaluateFixed(namespace, client, ReadWindows(namespace, client, now), 1, TRUE)

EvaluateRolling(client, cost, consume) ==
    LET kept    == CleanedLog(rolling, MINUTE, CLEANUP_MAX_ROWS, now)
        allowed == AuthenticatedDecision(kept, client, cost, now).allowed
    IN /\ IF allowed /\ consume
          THEN /\ rolling' = Append(kept, Charge(client, cost))
               /\ Grant("authenticated", client, cost, now)
          ELSE /\ rolling' = kept
               /\ UNCHANGED granted
       /\ UNCHANGED <<now, buckets, attempts>>

ChargeAuthenticatedScan(client, cost) == EvaluateRolling(client, cost, TRUE)

PeekAuthenticatedScan(client, cost) == EvaluateRolling(client, cost, FALSE)

ChargeAdmissionAttempt(client) ==
    LET kept == CleanedLog(attempts, ATTEMPT_WINDOW, ATTEMPT_GLOBAL_LIMIT, now)
    IN /\ IF AttemptDecision(kept, client, now).allowed
          THEN /\ attempts' = Append(kept, Charge(client, 1))
               /\ Grant("attempt", client, 1, now)
          ELSE /\ attempts' = kept
               /\ UNCHANGED granted
       /\ UNCHANGED <<now, buckets, rolling>>

Tick ==
    /\ now < MAX_TIME
    /\ now' = now + 1
    /\ granted' = {g \in granted : g.at + DAY > now'}
    /\ UNCHANGED <<buckets, rolling, attempts>>

Next ==
    \/ Tick
    \/ \E client \in Clients :
         \/ \E cost \in Costs :
              \/ ChargePublicScan(client, cost)
              \/ PeekPublicScan(client, cost)
              \/ ChargeAuthenticatedScan(client, cost)
              \/ PeekAuthenticatedScan(client, cost)
         \/ \E namespace \in READS : ChargeRead(namespace, client)
         \/ ChargeAdmissionAttempt(client)

Spec == Init /\ [][Next]_vars

-----------------------------------------------------------------------------
(* What the quotas promise.                                                *)

\* What a set of clients has been granted in a namespace since a tick.
GrantedSince(namespace, who, start) ==
    Cardinality({g \in granted : g.namespace = namespace /\ g.client \in who /\ g.at >= start})

Who(name) == IF name = Everyone THEN Clients ELSE {name}

\* The fixed windows a call that a client made at a tick would touch.
WindowsOf(namespace, client, t) ==
    IF namespace = "public-scan" THEN PublicWindows(client, t) ELSE ReadWindows(namespace, client, t)

CurrentWindows == UNION {WindowsOf(ns, c, now) : ns \in FixedNamespaces, c \in Clients}

GrantedIn(w) == GrantedSince(w.bucket[1], Who(w.bucket[2]), w.bucket[4] * w.bucket[3])

\* A stored counter is exactly what was granted in its window: a refusal, a
\* peek, a sweep or another namespace's charge never moves it, and a window
\* never starts from an old count.
CountersMatchGrants == \A w \in CurrentWindows : Used(buckets, w.bucket, now) = GrantedIn(w)

\* No client and no crowd of clients is granted more than the policy allows,
\* however its calls interleave: in a fixed window, and, for the rolling ceilings,
\* over the interval of their length that ends at any instant, also where it
\* straddles a minute.
QuotaHolds ==
    LET lately(namespace, who, window) == GrantedSince(namespace, who, now + 1 - window)
    IN /\ \A w \in CurrentWindows : GrantedIn(w) <= w.limit
       /\ lately("authenticated", Clients, MINUTE) <= AUTH_GLOBAL_PER_MINUTE
       /\ lately("attempt", Clients, ATTEMPT_WINDOW) <= ATTEMPT_GLOBAL_LIMIT
       /\ \A c \in Clients :
            /\ lately("authenticated", {c}, MINUTE) <= AUTH_PER_MINUTE
            /\ lately("attempt", {c}, ATTEMPT_WINDOW) <= ATTEMPT_CLIENT_LIMIT

\* Rotating identities cannot grow the tables: a namespace holds no more client
\* rows of one window than the global ceiling has tokens, and the logs never
\* hold more rows than their ceilings admit, although each sweep is bounded.
TablesStayBounded ==
    /\ \A w \in CurrentWindows :
         w.bucket[2] = Everyone =>
           Cardinality({b \in DOMAIN buckets :
                          /\ b[2] # Everyone
                          /\ <<b[1], b[3], b[4]>> = <<w.bucket[1], w.bucket[3], w.bucket[4]>>})
             <= w.limit
    /\ Len(rolling) <= AUTH_GLOBAL_PER_MINUTE
    /\ Len(attempts) <= ATTEMPT_GLOBAL_LIMIT

\* The wait a refusal names is enough: if nobody charges meanwhile, the same
\* call made after it is allowed, unless it costs more than a window ever has.
\* (Of two exceeded rolling ceilings only the global one is reported, so this is
\* about the fixed windows and attempts.)
RetryAfterSuffices ==
    LET suffices(decision, DecisionAt(_)) ==
          decision.allowed \/ DecisionAt(now + decision.retryAfter * SECOND).allowed
    IN \A c \in Clients :
         /\ \A ns \in FixedNamespaces, cost \in Costs :
              LET fixed(t) == FixedDecision(buckets, WindowsOf(ns, c, t), cost, t)
              IN (\A w \in WindowsOf(ns, c, now) : cost <= w.limit) => suffices(fixed(now), fixed)
         /\ LET attempt(t) == AttemptDecision(attempts, c, t)
            IN suffices(attempt(now), attempt)
=============================================================================
