--------------------------- MODULE AdmissionPromise ---------------------------
(***************************************************************************)
(* What submitting a scan promises to whoever holds an admission           *)
(* capability, whatever is replayed, lost or late underneath:              *)
(*                                                                         *)
(*   - a capability is bound to at most one job at a time, and the binding *)
(*     lasts for a fixed time from the job's creation;                     *)
(*   - a job is bound once and only to the capability it was prepared for; *)
(*   - an acceptance names the job that is bound at that moment, and goes  *)
(*     only to a request with the same commitment as the bound one.        *)
(*                                                                         *)
(* An attempt is one request of the holder; the job prepared for it, if    *)
(* any, goes by the attempt's name.                                        *)
(***************************************************************************)
EXTENDS Integers

CONSTANTS
    Attempts, Capabilities, None,
    CapabilityOf, CommitmentOf,   \* what each attempt presents
    MAX_LEAD, MAX_AGE,            \* how far a creation may be from its binding
    TTL                           \* how long a binding lasts

VARIABLES now, bound, told

Unbound == [job |-> None, until |-> 0]

Init ==
    /\ now = 0
    /\ bound = [c \in Capabilities |-> Unbound]
    /\ told = [a \in Attempts |-> None]

Wait == now' = now + 1 /\ UNCHANGED <<bound, told>>

\* Lapsed bindings may be forgotten at any time, and by a creation that is ahead
\* of the clock the others too that have lapsed by then.
Forgotten(lapsed) == [c \in Capabilities |-> IF c \in lapsed THEN Unbound ELSE bound[c]]

Lapsed == {c \in Capabilities : bound[c].until <= now + MAX_LEAD}

Bind(kept, a) ==
    /\ kept[CapabilityOf[a]] = Unbound
    /\ \E createdAt \in (now - MAX_AGE)..(now + MAX_LEAD) :
         bound' = [kept EXCEPT ![CapabilityOf[a]] = [job |-> a, until |-> createdAt + TTL]]

Tell(a) ==
    LET job == bound'[CapabilityOf[a]].job
    IN /\ told[a] = None /\ job # None
       /\ CommitmentOf[job] = CommitmentOf[a]
       /\ told' = [told EXCEPT ![a] = job]

Serve ==
    /\ \E lapsed \in SUBSET Lapsed :
         LET kept == Forgotten(lapsed)
         IN bound' = kept \/ \E a \in Attempts : Bind(kept, a)
    /\ UNCHANGED told \/ \E a \in Attempts : Tell(a)
    /\ UNCHANGED now

Next == Wait \/ Serve

Spec == Init /\ [][Next]_<<now, bound, told>>
=============================================================================
