--------------------------- MODULE AdmissionLedger ---------------------------
(***************************************************************************)
(* The two logs of the admission ledger: every decision it made, and every *)
(* admitted action that was dispatched.  Admission puts the callers around *)
(* it.                                                                     *)
(***************************************************************************)
EXTENDS PermissionGrants

VARIABLES admissions,  \* every decision, oldest first; a position is an id
          dispatches   \* admission -> "started" or "completed"

ledgerVars == <<grantVars, admissions, dispatches>>

\* A decision names its grant by its position, or 0.
AdmissionRecords == [request: Requests, decision: {"allow", "hold", "deny"},
                     reason: Reasons, grant: Nat]

LedgerTypeOK ==
    /\ GrantsTypeOK
    /\ admissions \in Seq(AdmissionRecords)
    /\ DOMAIN dispatches \subseteq DOMAIN admissions
    /\ \A a \in DOMAIN dispatches : dispatches[a] \in {"started", "completed"}

LedgerInit ==
    /\ GrantsInit
    /\ admissions = <<>>
    /\ dispatches = <<>>

\* The log with one more decision; its position is the admission's id.
Decided(request) ==
    LET d == Evaluate(request)
    IN  Append(admissions, [request |-> request, decision |-> d.decision,
                            reason |-> d.reason, grant |-> d.grant])

\* admit(): the id is always a new one.  A caller in the same thread dispatches
\* in the same step, so dispatches is left to the caller.
Admit(request) ==
    /\ admissions' = Decided(request)
    /\ UNCHANGED grantVars

CanDispatch(log, a) == /\ a \in DOMAIN log
                       /\ log[a].decision = "allow"
                       /\ a \notin DOMAIN dispatches
Started(a) == [b \in DOMAIN dispatches \cup {a} |-> IF b = a THEN "started" ELSE dispatches[b]]

\* dispatch(): throws unless the admission was allowed and not dispatched
\* before; it does not ask again whether the grant is still live.
Dispatch(a) ==
    /\ dispatches' = IF CanDispatch(admissions, a) THEN Started(a) ELSE dispatches
    /\ UNCHANGED <<grantVars, admissions>>

CanComplete(a) == a \in DOMAIN dispatches /\ dispatches[a] = "started"

\* complete(): whatever became of the grant since.
Complete(a) ==
    /\ dispatches' = IF CanComplete(a) THEN [dispatches EXCEPT ![a] = "completed"]
                                       ELSE dispatches
    /\ UNCHANGED <<grantVars, admissions>>

LedgerStep(scopes, roundIds) ==
    GrantStep(scopes, roundIds) /\ UNCHANGED <<admissions, dispatches>>
=============================================================================
