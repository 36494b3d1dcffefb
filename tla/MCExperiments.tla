---------------------------- MODULE MCExperiments ----------------------------
(***************************************************************************)
(* The experiments that share nothing: a behaviour is one of them, the     *)
(* others are at rest.                                                     *)
(***************************************************************************)
EXTENDS Admission, GitHubDelivery, DurableInput, UsageRecords

CONSTANTS b1, t1, m1, tick

\* Every call is made in the same Round, for the same Ticket and scope: OpenCode's
\* plugin has one Round and Ticket for its process, the wrappers one scope each.
MCRequestOf == [c \in Calls |-> [scope |-> "git.push", ticket |-> tick, round |-> 1]]

\* Powers of two: a sum tells which generations it counts.
MCTokens == [g \in Generations |-> 2 ^ g]

VARIABLE part

admissionVars == <<engine, callVars, admissions, dispatches>>
mcVars == <<vars, deliveryVars, threadVars, usageVars, part>>

AdmissionRests ==
    /\ admissions = <<>> /\ dispatches = <<>> /\ engine = "native"
    /\ phase = [c \in Calls |-> "idle"] /\ holds = [c \in Calls |-> 0]
    /\ attempts = [c \in Calls |-> 0] /\ emitted = [c \in Calls |-> 0]
    /\ asked = [c \in Calls |-> {}]

DeliveryRests ==
    /\ status = "Ready" /\ roundOpen = FALSE /\ currentRound = 0
    /\ rounds = <<>> /\ undefined = {} /\ committed = 0 /\ pushed = 0
    /\ pulls = <<>> /\ delivery = Resting /\ late = Resting
    /\ token = "pulls" /\ feedback = FALSE
    /\ observer = [at |-> "idle", pr |-> 0, seen |-> Nothing, completed |-> FALSE]

\* The ledger's grants are the admission's and the delivery's alike.
MCInit ==
    /\ part \in {"admission", "delivery", "input", "usage"}
    /\ IF part = "admission" THEN Init ELSE AdmissionRests
    /\ IF part = "delivery" THEN DeliveryInit
       ELSE DeliveryRests /\ (part # "admission" => GrantsInit)
    /\ DurableInit /\ UsageInit
    /\ part # "input" => scenario = "question"

MCNext ==
    /\ UNCHANGED part
    /\ \/ /\ part = "admission" /\ Next
          /\ UNCHANGED <<deliveryVars, threadVars, usageVars>>
       \/ /\ part = "delivery" /\ DeliveryNext
          /\ UNCHANGED <<admissionVars, threadVars, usageVars>>
       \/ /\ part = "input" /\ DurableNext
          /\ UNCHANGED <<vars, deliveryVars, usageVars>>
       \/ /\ part = "usage" /\ UsageNext
          /\ UNCHANGED <<vars, deliveryVars, threadVars>>

MCSpec ==
    /\ MCInit /\ [][MCNext]_mcVars
    /\ \A c \in BridgeCalls :
          WF_vars(part = "admission" /\ BridgeProgress(c) /\ UNCHANGED engine)
=============================================================================
