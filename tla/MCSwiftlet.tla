----------------------------- MODULE MCSwiftlet -----------------------------
(***************************************************************************)
(* Swiftlet's views, which share nothing but Galley: a behaviour is the    *)
(* page of one Ticket, the Board or the runner's health; the others rest.  *)
(***************************************************************************)
EXTENDS TicketPage, TicketCollection, RunnerHealth

CONSTANTS s1, s2

\* One Ticket has an open Round, the other no Agent work.
MCOpening == <<[of |-> s1, work |-> "open"], [of |-> s2, work |-> "none"]>>

VARIABLE view

mcVars == <<pageVars, shelfVars, healthVars, view>>

\* Bound of the page: it is opened on a Ticket queued for an Agent, or whose open
\* Round waits for the Owner's reply.
MCInit ==
    /\ view \in {"page", "board", "health"}
    /\ PageInit /\ CollectionInit /\ HealthInit
    /\ IF view = "page" THEN galley[1].work = "queued" \/ (galley[1].work = "open" /\ galley[1].ask # 0)
                        ELSE galley = <<[work |-> "none", ask |-> 0]>>

MCNext ==
    /\ UNCHANGED view
    /\ \/ view = "page" /\ PageNext /\ UNCHANGED <<shelfVars, healthVars>>
       \/ view = "board" /\ CollectionNext /\ UNCHANGED <<pageVars, healthVars>>
       \/ view = "health" /\ HealthNext /\ UNCHANGED <<pageVars, shelfVars>>

\* A view's fairness is its own.
MCFairness ==
    /\ WF_pageVars(view = "page" /\ GalleyAnswersARead)
    /\ WF_pageVars(view = "page" /\ ReadArrives)
    /\ WF_pageVars(view = "page" /\ OverdueAnswered)
    /\ WF_pageVars(view = "page" /\ Poll)
    /\ WF_shelfVars(view = "board" /\ GalleyAnswersTheList)
    /\ WF_shelfVars(view = "board" /\ ListArrives)
    /\ WF_shelfVars(view = "board" /\ GalleyAnswersOwn)
    /\ WF_shelfVars(view = "board" /\ OwnAnswered)
    /\ WF_shelfVars(view = "board" /\ TickSettles)
    /\ WF_shelfVars(view = "board" /\ ListPoll)

MCSpec == MCInit /\ [][MCNext]_mcVars /\ MCFairness
=============================================================================
