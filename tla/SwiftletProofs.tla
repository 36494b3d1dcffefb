--------------------------- MODULE SwiftletProofs ---------------------------
(***************************************************************************)
(* Proofs about Swiftlet, for any number of Tickets, versions, changes and *)
(* requests on their way: the Ticket page, the board and the List, and the *)
(* header's health of the runner.                                          *)
(***************************************************************************)
EXTENDS TicketPage, TicketCollection, RunnerHealth, WellFoundedInduction, TLAPS

-----------------------------------------------------------------------------
(* The Ticket page.                                                        *)

\* A version that was heard is one that Galley has had.
HeardIsPast(request) == request.heard \in Versions => request.heard <= Len(galley)

\* What is answered to a refresh, and shown, is no older than the last command's answer;
\* nothing is typed on a page that shows nothing.
PageInv ==
    /\ PageTypeOK
    /\ HeardIsPast(latest) /\ \A c \in Controls : HeardIsPast(commands[c])
    /\ settled <= Len(galley)
    /\ latest.heard \in Versions => settled <= latest.heard
    /\ latest.leg = "load" => ~Loaded
    /\ ~Loaded => edit = 0 /\ draft = 0
    /\ RefreshNeverUndoesACommand
    /\ TypedForWhatIsShown

-----------------------------------------------------------------------------
(* Requests.                                                               *)

\* A request that is sent has not been heard.
LEMMA RequestTyped ==
    /\ \A leg \in {"load", "ticket", "rounds", "badge", "command"}, poll \in BOOLEAN :
          /\ Request(leg, poll) \in PageRequests /\ Request(leg, poll).heard = Unanswered
          /\ Request(leg, poll).leg = leg
    /\ None \in PageRequests /\ None.heard = Unanswered /\ None.leg = "none"
    /\ Unanswered \notin Versions /\ Refused \notin Versions
    /\ Unauthenticated \notin Versions /\ Lost \notin Versions
BY PageAssumption DEF Request, None, PageRequests, Heard, Versions, Unanswered, Refused,
   Unauthenticated, Lost

\* A request in flight may hear anything.
LEMMA AnswerTyped ==
    ASSUME NEW request \in PageRequests, request # None, NEW what \in Heard
    PROVE  /\ [request EXCEPT !.heard = what] \in PageRequests
           /\ [request EXCEPT !.heard = what].heard = what
<1>1. request \in [leg: {"load", "ticket", "rounds", "badge", "command"}, poll: BOOLEAN,
                   heard: Heard]
  BY DEF PageRequests
<1>. QED BY <1>1 DEF PageRequests

LEMMA PollTyped == \A request \in PageRequests : request.poll \in BOOLEAN
<1>. SUFFICES ASSUME NEW request \in PageRequests PROVE request.poll \in BOOLEAN
  OBVIOUS
<1>1. CASE request = None
  BY <1>1 DEF None
<1>2. CASE request \in [leg: {"load", "ticket", "rounds", "badge", "command"}, poll: BOOLEAN,
                        heard: Heard]
  BY <1>2
<1>. QED BY <1>1, <1>2 DEF PageRequests

Pages == [kind: {"loading", "loaded", "error", "left"}, version: 0 .. MaxVersion]

\* A page is a record of its two fields.
LEMMA PageTyped ==
    ASSUME NEW kind \in {"loading", "loaded", "error", "left"}, NEW v \in 0 .. MaxVersion
    PROVE  /\ [kind |-> kind, version |-> v] \in Pages
           /\ [kind |-> kind, version |-> v].kind = kind
           /\ [kind |-> kind, version |-> v].version = v
BY DEF Pages

\* The parts of the invariant that the Owner's typing and the requests disturb.
LEMMA PageFacts ==
    ASSUME PageInv
    PROVE  /\ galley \in Seq(TicketVersions) /\ Len(galley) \in 1 .. MaxVersion
           /\ MaxVersion \in Nat \ {0} /\ Len(galley) \in Nat
           /\ settled \in Nat /\ settled <= Len(galley)
           /\ latest \in PageRequests /\ commands \in [Controls -> PageRequests]
           /\ Loaded => page.version \in 1 .. Len(galley) /\ page.version \in Nat
           /\ \A v \in 1 .. Len(galley) : AskOf(v) \in 0 .. MaxVersion
           /\ Versions = 1 .. MaxVersion
<1>1. /\ galley \in Seq(TicketVersions) /\ Len(galley) \in 1 .. MaxVersion
      /\ MaxVersion \in Nat \ {0} /\ settled \in 0 .. MaxVersion /\ settled <= Len(galley)
      /\ latest \in PageRequests /\ commands \in [Controls -> PageRequests]
      /\ Loaded => page.version \in 1 .. Len(galley)
  BY PageAssumption DEF PageInv, PageTypeOK, Versions, Loaded
<1>2. \A v \in 1 .. Len(galley) : galley[v] \in TicketVersions
  BY <1>1
<1>3. \A w \in TicketVersions : w.ask \in 0 .. MaxVersion
  BY DEF TicketVersions
<1>4. \A v \in 1 .. Len(galley) : AskOf(v) \in 0 .. MaxVersion
  BY <1>2, <1>3 DEF AskOf
<1>. HIDE DEF AskOf, Loaded
<1>. QED BY <1>1, <1>4 DEF Versions

\* The page opens while it loads.
LEMMA PageInvInit == PageInit => PageInv
<1>. SUFFICES ASSUME PageInit PROVE PageInv
  OBVIOUS
<1>1. PICK v \in TicketVersions : galley = <<v>>
  BY DEF PageInit
<1>2. galley \in Seq(TicketVersions) /\ Len(galley) = 1
  BY <1>1
<1>3. Len(galley) \in Versions
  BY <1>2, PageAssumption DEF Versions
<1>a. 0 \in 0 .. MaxVersion /\ 0 \in 0 .. MaxLosses
  BY PageAssumption
<1>b. page \in Pages /\ page.kind = "loading"
  BY <1>a, PageTyped DEF PageInit
<1>c. /\ latest \in PageRequests /\ latest.heard \notin Versions
      /\ commands \in [Controls -> PageRequests]
      /\ \A c \in Controls : commands[c].heard \notin Versions
  BY RequestTyped DEF PageInit
<1>d. losses = 0 /\ overdue = FALSE /\ edit = 0 /\ draft = 0 /\ settled = 0
  BY DEF PageInit
<1>4. PageTypeOK
  BY <1>2, <1>3, <1>a, <1>b, <1>c, <1>d DEF PageTypeOK, Pages
<1>. QED BY <1>2, <1>4, <1>b, <1>c, <1>d
     DEF PageInv, HeardIsPast, Loaded, RefreshNeverUndoesACommand,
         TypedForWhatIsShown

-----------------------------------------------------------------------------
(* Galley and the network.                                                 *)

\* A Ticket that moves on leaves what was heard and shown as it was.
LEMMA TicketMoves ==
    ASSUME PageInv, Current < MaxVersion, NEW v \in TicketVersions, galley' = Append(galley, v)
    PROVE  /\ galley' \in Seq(TicketVersions) /\ Len(galley') = Len(galley) + 1
           /\ Len(galley') \in Versions
           /\ \A w \in 1 .. Len(galley) : galley'[w] = galley[w]
<1>1. galley \in Seq(TicketVersions) /\ Len(galley) \in Nat
  BY PageFacts
<1>. QED BY <1>1, PageAssumption DEF Versions, Current

LEMMA GalleyMovesKept == ASSUME PageInv, GalleyMoves PROVE PageInv'
<1>1. PICK v \in TicketVersions : galley' = Append(galley, v)
  BY DEF GalleyMoves, NextVersions
<1>2. UNCHANGED <<losses, page, requestVars, ownerVars, settled>> /\ Current < MaxVersion
  BY DEF GalleyMoves
<1>3. /\ galley' \in Seq(TicketVersions) /\ Len(galley') = Len(galley) + 1
      /\ Len(galley') \in Versions /\ Len(galley) \in Nat
      /\ \A w \in 1 .. Len(galley) : galley'[w] = galley[w]
  BY <1>1, <1>2, TicketMoves, PageFacts
<1>4. PageTypeOK'
  BY <1>2, <1>3 DEF PageInv, PageTypeOK, requestVars, ownerVars
<1>5. settled' <= Len(galley')
  BY <1>2, <1>3, PageFacts DEF PageInv
<1>6. \A request \in PageRequests : HeardIsPast(request) => HeardIsPast(request)'
  BY <1>3, PageAssumption DEF HeardIsPast, Versions
<1>7. HeardIsPast(latest)' /\ \A c \in Controls : HeardIsPast(commands[c])'
  BY <1>2, <1>3, PageFacts DEF PageInv, HeardIsPast, requestVars, Versions
<1>8. RefreshNeverUndoesACommand' /\ TypedForWhatIsShown'
  BY <1>2, <1>3 DEF PageInv, PageTypeOK, RefreshNeverUndoesACommand, TypedForWhatIsShown,
     Loaded, AskOf, ownerVars
<1>. QED BY <1>2, <1>4, <1>5, <1>7, <1>8 DEF PageInv, Loaded, requestVars, ownerVars

LEMMA ReadAnsweredKept == ASSUME PageInv, GalleyAnswersARead PROVE PageInv'
<1>1. PICK what \in {Current, Unauthenticated} : latest' = [latest EXCEPT !.heard = what]
  BY DEF GalleyAnswersARead
<1>2. /\ UNCHANGED <<galley, losses, page, overdue, commands, ownerVars, settled>>
      /\ latest # None
  BY DEF GalleyAnswersARead, Waits
<1>3. what \in Heard /\ latest \in PageRequests
  BY PageFacts DEF Heard, Current, Versions
<1>4. latest' \in PageRequests /\ latest'.heard = what
  BY <1>1, <1>2, <1>3, AnswerTyped
<1>5. what \in Versions => what <= Len(galley) /\ settled <= what
  BY RequestTyped, PageFacts DEF Current
<1>6. PageTypeOK'
  BY <1>2, <1>4 DEF PageInv, PageTypeOK, ownerVars
<1>7. latest'.leg = latest.leg
  BY <1>1, <1>3 DEF PageRequests, None
<1>8. HeardIsPast(latest)' /\ \A c \in Controls : HeardIsPast(commands[c])'
  BY <1>2, <1>4, <1>5 DEF PageInv, HeardIsPast
<1>. QED BY <1>2, <1>4, <1>5, <1>6, <1>7, <1>8
     DEF PageInv, Loaded, RefreshNeverUndoesACommand, TypedForWhatIsShown, AskOf, ownerVars

\* A control's command in flight hears something that is no version to come.
LEMMA CommandHearsKept ==
    ASSUME PageInv, NEW c \in Controls, commands[c] # None, NEW what \in Heard,
           commands' = [commands EXCEPT ![c].heard = what],
           what \in Versions => what <= Len(galley),
           UNCHANGED <<galley, page, latest, overdue, ownerVars, settled>>,
           losses' \in 0 .. MaxLosses
    PROVE  PageInv'
<1>1. commands \in [Controls -> PageRequests]
  BY PageFacts
<1>2. /\ [commands[c] EXCEPT !.heard = what] \in PageRequests
      /\ [commands[c] EXCEPT !.heard = what].heard = what
  BY <1>1, AnswerTyped
<1>3. /\ commands' \in [Controls -> PageRequests] /\ commands'[c].heard = what
      /\ \A d \in Controls : d # c => commands'[d] = commands[d]
  BY <1>1, <1>2
<1>4. PageTypeOK'
  BY <1>3 DEF PageInv, PageTypeOK, ownerVars
<1>5. \A d \in Controls : HeardIsPast(commands[d])'
  BY <1>3 DEF PageInv, HeardIsPast
<1>. QED BY <1>4, <1>5
     DEF PageInv, HeardIsPast, Loaded, RefreshNeverUndoesACommand, TypedForWhatIsShown,
         AskOf, ownerVars

\* A command that is carried out makes the version it hears.
LEMMA CommandMakesAVersion ==
    ASSUME PageInv, NEW c \in Controls, commands[c] # None, Current < MaxVersion,
           NEW v \in TicketVersions, galley' = Append(galley, v),
           commands' = [commands EXCEPT ![c].heard = Current + 1],
           UNCHANGED <<losses, page, latest, overdue, ownerVars, settled>>
    PROVE  PageInv'
<1>1. /\ galley' \in Seq(TicketVersions) /\ Len(galley') = Len(galley) + 1
      /\ Len(galley') \in Versions /\ Len(galley) \in Nat
      /\ \A w \in 1 .. Len(galley) : galley'[w] = galley[w]
      /\ commands \in [Controls -> PageRequests]
  BY TicketMoves, PageFacts
<1>2. Current + 1 \in Heard
  BY <1>1 DEF Heard, Current
<1>3. /\ [commands[c] EXCEPT !.heard = Current + 1] \in PageRequests
      /\ [commands[c] EXCEPT !.heard = Current + 1].heard = Len(galley')
  BY <1>1, <1>2, AnswerTyped DEF Current
<1>4. /\ commands' \in [Controls -> PageRequests] /\ commands'[c].heard = Len(galley')
      /\ \A d \in Controls : d # c => commands'[d] = commands[d]
  BY <1>1, <1>3
<1>5. PageTypeOK'
  BY <1>1, <1>4 DEF PageInv, PageTypeOK, ownerVars
<1>6. HeardIsPast(latest)' /\ \A d \in Controls : HeardIsPast(commands[d])'
  BY <1>1, <1>4, PageAssumption DEF PageInv, HeardIsPast, Versions
<1>7. settled' <= Len(galley')
  BY <1>1, PageFacts
<1>8. RefreshNeverUndoesACommand' /\ TypedForWhatIsShown'
  BY <1>1 DEF PageInv, PageTypeOK, RefreshNeverUndoesACommand, TypedForWhatIsShown,
     Loaded, AskOf, ownerVars
<1>. QED BY <1>5, <1>6, <1>7, <1>8 DEF PageInv, Loaded, ownerVars

LEMMA CommandAnsweredKept ==
    ASSUME PageInv, NEW c \in Controls, GalleyAnswersACommand(c) PROVE PageInv'
<1>. DEFINE hears(what) == commands' = [commands EXCEPT ![c].heard = what]
<1>1. /\ commands[c] # None
      /\ UNCHANGED <<losses, page, latest, overdue, ownerVars, settled>>
      /\ losses' \in 0 .. MaxLosses
  BY DEF GalleyAnswersACommand, Waits, PageInv, PageTypeOK
<1>2. CASE UNCHANGED galley /\ (hears(Unauthenticated) \/ hears(Current) \/ hears(Refused))
  <2>1. \A what \in {Unauthenticated, Current, Refused} :
           what \in Heard /\ (what \in Versions => what <= Len(galley))
    BY RequestTyped, PageFacts DEF Heard, Current
  <2>2. PICK what \in {Unauthenticated, Current, Refused} : hears(what)
    BY <1>2
  <2>. QED BY <1>1, <1>2, <2>1, <2>2, CommandHearsKept
<1>3. ASSUME Current < MaxVersion, NEW v \in NextVersions, galley' = Append(galley, v),
             hears(Current + 1)
      PROVE  PageInv'
  BY <1>1, <1>3, CommandMakesAVersion DEF NextVersions
<1>. QED BY <1>2, <1>3 DEF GalleyAnswersACommand

LEMMA AnswerLostKept == ASSUME PageInv, AnswerLost PROVE PageInv'
<1>1. /\ losses' \in 0 .. MaxLosses
      /\ UNCHANGED <<galley, page, overdue, ownerVars, settled>>
      /\ Lost \in Heard /\ Lost \notin Versions
  BY RequestTyped, PageAssumption DEF AnswerLost, PageInv, PageTypeOK, Heard
<1>2. CASE latest # None /\ latest' = [latest EXCEPT !.heard = Lost] /\ UNCHANGED commands
  <2>1. latest' \in PageRequests /\ latest'.heard = Lost
    BY <1>1, <1>2, AnswerTyped, PageFacts
  <2>2. PageTypeOK'
    BY <1>1, <1>2, <2>1 DEF PageInv, PageTypeOK, ownerVars
  <2>. QED BY <1>1, <1>2, <2>1, <2>2
       DEF PageInv, HeardIsPast, Loaded, RefreshNeverUndoesACommand, TypedForWhatIsShown,
           AskOf, ownerVars
<1>3. ASSUME NEW c \in Controls, commands[c] # None,
             commands' = [commands EXCEPT ![c].heard = Lost], UNCHANGED latest
      PROVE  PageInv'
  BY <1>1, <1>3, CommandHearsKept
<1>. QED BY <1>2, <1>3 DEF AnswerLost

-----------------------------------------------------------------------------
(* The page.                                                               *)

LEMMA LeavesKept == ASSUME PageInv, Leaves, UNCHANGED <<galley, losses>> PROVE PageInv'
<1>1. /\ page' = [kind |-> "left", version |-> 0] /\ settled' = settled
      /\ latest' = None /\ overdue' = FALSE /\ commands' = [c \in Controls |-> None]
      /\ edit' = 0 /\ draft' = 0
  BY DEF Leaves
<1>2. None \in PageRequests /\ None.heard \notin Versions /\ None.leg # "load"
  BY RequestTyped DEF None
<1>a. 0 \in 0 .. MaxVersion
  BY PageAssumption
<1>b. page' \in Pages /\ page'.kind = "left"
  BY <1>1, <1>a, PageTyped
<1>3. PageTypeOK'
  BY <1>1, <1>2, <1>a, <1>b DEF PageInv, PageTypeOK, Pages
<1>. QED BY <1>1, <1>2, <1>3, <1>b
     DEF PageInv, HeardIsPast, Loaded, RefreshNeverUndoesACommand, TypedForWhatIsShown

\* A step that changes neither what is shown nor what is typed, and sends requests or
\* forgets them.
LEMMA RequestsKept ==
    ASSUME PageInv, UNCHANGED <<galley, losses, page, ownerVars, settled>>,
           latest' = latest \/ \E poll \in BOOLEAN :
                latest' \in {None, Request("ticket", poll), Request("rounds", poll)},
           overdue' \in BOOLEAN,
           commands' \in [Controls -> PageRequests],
           \A c \in Controls : commands'[c] = commands[c] \/ commands'[c].heard = Unanswered
    PROVE  PageInv'
<1>1. /\ latest' \in PageRequests
      /\ latest'.heard \in Versions => latest' = latest
      /\ latest'.leg = "load" => latest' = latest
  BY RequestTyped, PageFacts
<1>2. PageTypeOK'
  BY <1>1 DEF PageInv, PageTypeOK, ownerVars
<1>3. HeardIsPast(latest)' /\ \A c \in Controls : HeardIsPast(commands[c])'
  BY <1>1, RequestTyped DEF PageInv, HeardIsPast
<1>. QED BY <1>1, <1>2, <1>3
     DEF PageInv, Loaded, RefreshNeverUndoesACommand, TypedForWhatIsShown, AskOf, ownerVars

\* A version that was heard, and is no older than the last command's answer, is shown;
\* what was typed for another is gone.
LEMMA ShownKept ==
    ASSUME PageInv, NEW v \in Versions, v <= Len(galley),
           page' = [kind |-> "loaded", version |-> v],
           edit' = 0 \/ edit' = v, draft' = 0 \/ draft' = AskOf(v),
           settled' \in 0 .. MaxVersion, settled' <= v,
           \E poll \in BOOLEAN : latest' \in {None, Request("rounds", poll)},
           overdue' \in BOOLEAN, commands' \in [Controls -> PageRequests],
           \A c \in Controls : commands'[c] = commands[c] \/ commands'[c].heard = Unanswered,
           UNCHANGED <<galley, losses>>
    PROVE  PageInv'
<1>1. /\ latest' \in PageRequests /\ latest'.heard \notin Versions /\ latest'.leg # "load"
  BY RequestTyped
<1>2. v \in 1 .. Len(galley) /\ v \in Nat /\ v \in 0 .. MaxVersion /\ AskOf(v) \in 0 .. MaxVersion
  BY PageFacts
<1>a. page' \in Pages /\ page'.kind = "loaded" /\ page'.version = v
  BY <1>2, PageTyped
<1>b. edit' \in 0 .. MaxVersion /\ draft' \in 0 .. MaxVersion
  BY <1>2, PageAssumption
<1>3. PageTypeOK'
  BY <1>1, <1>2, <1>a, <1>b DEF PageInv, PageTypeOK, Pages
<1>4. HeardIsPast(latest)' /\ \A c \in Controls : HeardIsPast(commands[c])'
  BY <1>1, RequestTyped DEF PageInv, HeardIsPast
<1>5. settled' <= Len(galley')
  BY <1>2, PageFacts
<1>6. RefreshNeverUndoesACommand' /\ TypedForWhatIsShown' /\ Loaded'
  BY <1>2, <1>a DEF RefreshNeverUndoesACommand, TypedForWhatIsShown, Loaded, AskOf
<1>. QED BY <1>1, <1>3, <1>4, <1>5, <1>6 DEF PageInv

LEMMA ReadArrivesKept == ASSUME PageInv, ReadArrives PROVE PageInv'
<1>0. /\ commands \in [Controls -> PageRequests] /\ overdue \in BOOLEAN
      /\ settled \in 0 .. MaxVersion /\ latest \in PageRequests
  BY DEF PageInv, PageTypeOK
<1>1. CASE Leaves /\ UNCHANGED <<galley, losses>>
  BY <1>1, LeavesKept
<1>2. CASE LoadArrives /\ latest.heard # Unauthenticated
  <2>1. /\ UNCHANGED <<galley, losses, overdue, commands, draft, settled>>
        /\ latest' = None /\ ~Loaded /\ draft = 0 /\ edit = 0
    BY <1>2 DEF LoadArrives, PageInv
  <2>2. CASE latest.heard \in Versions
    <3>1. /\ page' = [kind |-> "loaded", version |-> latest.heard]
          /\ edit' = 0 \/ edit' = latest.heard
      BY <1>2, <2>2 DEF LoadArrives, Shows
    <3>2. latest.heard <= Len(galley) /\ settled <= latest.heard
      BY <2>2 DEF PageInv, HeardIsPast
    <3>. QED BY <1>0, <2>1, <2>2, <3>1, <3>2, ShownKept
  <2>3. CASE latest.heard \notin Versions
    <3>1. page' = [page EXCEPT !.kind = "error"] /\ edit' = edit
      BY <1>2, <2>3 DEF LoadArrives
    <3>2. page'.kind = "error"
          /\ page' \in [kind: {"loading", "loaded", "error", "left"}, version: 0 .. MaxVersion]
      BY <3>1 DEF PageInv, PageTypeOK
    <3>3. None \in PageRequests /\ None.heard \notin Versions /\ None.leg # "load"
      BY RequestTyped DEF None
    <3>4. PageTypeOK'
      BY <1>0, <2>1, <3>1, <3>2, <3>3 DEF PageInv, PageTypeOK
    <3>. QED BY <2>1, <3>1, <3>2, <3>3, <3>4
         DEF PageInv, HeardIsPast, Loaded, RefreshNeverUndoesACommand, TypedForWhatIsShown
  <2>. QED BY <2>2, <2>3
<1>3. CASE RefreshArrives /\ latest.heard # Unauthenticated
  <2>1. CASE latest.heard \in Versions
    <3>. DEFINE v == latest.heard
    <3>1. /\ page' = [kind |-> "loaded", version |-> v]
          /\ edit' = IF v = page.version THEN edit ELSE 0
          /\ draft' = IF AskOf(v) = draft THEN draft ELSE 0
          /\ latest' = Request("rounds", latest.poll /\ Awaits(v))
          /\ overdue' = (overdue /\ Awaits(v))
          /\ UNCHANGED <<galley, losses, commands, settled>>
      BY <1>3, <2>1 DEF RefreshArrives, Shows, EditAfter, DraftAfter
    <3>2. v <= Len(galley) /\ settled <= v
      BY <2>1 DEF PageInv, HeardIsPast
    <3>3. edit' = 0 \/ edit' = v
      BY <3>1 DEF PageInv, TypedForWhatIsShown
    <3>4. (latest.poll /\ Awaits(v)) \in BOOLEAN /\ overdue' \in BOOLEAN
      BY <1>0, <3>1 DEF Awaits
    <3>5. \E poll \in BOOLEAN : latest' \in {None, Request("rounds", poll)}
      BY <3>1, <3>4
    <3>6. draft' = 0 \/ draft' = AskOf(v)
      BY <3>1
    <3>. QED BY <1>0, <2>1, <3>1, <3>2, <3>3, <3>4, <3>5, <3>6, ShownKept
  <2>2. CASE latest.heard \notin Versions
    BY <1>0, <1>3, <2>2, RequestsKept DEF RefreshArrives
  <2>. QED BY <2>1, <2>2
<1>4. CASE RoundsArrive /\ latest.heard # Unauthenticated
  BY <1>0, <1>4, RequestsKept DEF RoundsArrive
<1>. QED BY <1>1, <1>2, <1>3, <1>4 DEF ReadArrives, LoadArrives, RefreshArrives, RoundsArrive

\* Control c's command is over, or goes on with another request.
LEMMA ControlUpdated ==
    ASSUME PageInv, NEW c \in Controls, NEW request \in PageRequests,
           request.heard = Unanswered, commands' = [commands EXCEPT ![c] = request]
    PROVE  /\ commands' \in [Controls -> PageRequests]
           /\ \A d \in Controls : commands'[d] = commands[d] \/ commands'[d].heard = Unanswered
BY PageFacts

LEMMA CommandArrivesKept ==
    ASSUME PageInv, NEW c \in Controls, CommandArrives(c) PROVE PageInv'
<1>0. None \in PageRequests /\ None.heard = Unanswered /\ overdue \in BOOLEAN
  BY RequestTyped DEF PageInv, PageTypeOK
<1>1. CASE CommandSucceeds(c)
  <2>. DEFINE v == commands[c].heard
  <2>1. /\ v \in Versions /\ page' = [kind |-> "loaded", version |-> v]
        /\ edit' = 0
        /\ draft' = IF c # "panel" /\ AskOf(v) = draft THEN draft ELSE 0
        /\ latest' = None /\ overdue' = ((overdue \/ latest.poll) /\ Awaits(v))
        /\ commands' = [commands EXCEPT ![c] = None]
        /\ settled' = v /\ UNCHANGED <<galley, losses>>
    BY <1>1 DEF CommandSucceeds, Shows, EditAfter, DraftAfter, SupersededByCommand
  <2>2. v <= Len(galley)
    BY <2>1 DEF PageInv, HeardIsPast
  <2>3. overdue' \in BOOLEAN /\ settled' \in 0 .. MaxVersion /\ settled' <= v
    BY <2>1, PageFacts
  <2>4. draft' = 0 \/ draft' = AskOf(v)
    BY <2>1
  <2>5. /\ commands' \in [Controls -> PageRequests]
        /\ \A d \in Controls : commands'[d] = commands[d] \/ commands'[d].heard = Unanswered
    BY <1>0, <2>1, ControlUpdated
  <2>6. \E poll \in BOOLEAN : latest' \in {None, Request("rounds", poll)}
    BY <2>1
  <2>. HIDE DEF v
  <2>. QED BY <2>1, <2>2, <2>3, <2>4, <2>5, <2>6, ShownKept
<1>2. CASE CommandFails(c) /\ commands[c].heard # Unauthenticated
  <2>1. /\ commands' = [commands EXCEPT ![c] = None]
        /\ UNCHANGED <<galley, losses, page, ownerVars, settled>>
        /\ \/ latest' = Request("ticket", FALSE) /\ overdue' = (overdue \/ latest.poll)
           \/ UNCHANGED <<latest, overdue>>
    BY <1>2 DEF CommandFails, Superseded
  <2>2. /\ commands' \in [Controls -> PageRequests]
        /\ \A d \in Controls : commands'[d] = commands[d] \/ commands'[d].heard = Unanswered
    BY <1>0, <2>1, ControlUpdated
  <2>3. latest' = latest \/ \E poll \in BOOLEAN :
            latest' \in {None, Request("ticket", poll), Request("rounds", poll)}
    BY <2>1
  <2>4. latest.poll \in BOOLEAN
    BY PageFacts, PollTyped
  <2>. QED BY <1>0, <2>1, <2>2, <2>3, <2>4, RequestsKept
<1>3. CASE CommandFails(c) /\ commands[c].heard = Unauthenticated
  BY <1>3, LeavesKept DEF CommandFails
<1>. QED BY <1>1, <1>2, <1>3 DEF CommandArrives

\* The interval's ticks, and what the controls send.
LEMMA RequestsSentKept ==
    ASSUME PageInv,
           \/ OverdueAnswered \/ Poll
           \/ RunAction \/ Attach \/ CreateAndAttach \/ AttachCreated \/ HandleSave
           \/ SubmitPanel \/ AddFeedback \/ RevokeGrant \/ AttestCessation \/ DialogReads
    PROVE  PageInv'
<1>0. /\ commands \in [Controls -> PageRequests] /\ overdue \in BOOLEAN
      /\ latest.poll \in BOOLEAN
  BY PageFacts, PollTyped DEF PageInv, PageTypeOK
<1>1. CASE OverdueAnswered
  BY <1>0, <1>1, RequestsKept DEF OverdueAnswered
<1>2. CASE Poll
  <2>1. /\ latest' = Request("ticket", TRUE) /\ overdue' = (overdue \/ latest.poll)
        /\ UNCHANGED <<galley, losses, page, commands, ownerVars, settled>>
    BY <1>2 DEF Poll, Superseded
  <2>2. \E poll \in BOOLEAN : latest' \in {None, Request("ticket", poll), Request("rounds", poll)}
    BY <2>1
  <2>. QED BY <1>0, <2>1, <2>2, RequestsKept
<1>3. ASSUME NEW c \in Controls, NEW leg \in {"badge", "command", "ticket"},
             commands' = [commands EXCEPT ![c] = Request(leg, FALSE)],
             UNCHANGED <<galley, losses, page, latest, overdue, ownerVars, settled>>
      PROVE  PageInv'
  <2>1. Request(leg, FALSE) \in PageRequests /\ Request(leg, FALSE).heard = Unanswered
    BY RequestTyped
  <2>2. /\ commands' \in [Controls -> PageRequests]
        /\ \A d \in Controls : commands'[d] = commands[d] \/ commands'[d].heard = Unanswered
    BY <1>3, <2>1, ControlUpdated
  <2>. QED BY <1>0, <1>3, <2>2, RequestsKept
<1>4. ASSUME NEW c, NEW leg \in {"badge", "command"}, SendsLeg(c, leg) PROVE PageInv'
  BY <1>3, <1>4 DEF SendsLeg
<1>5. ASSUME NEW c, NEW leg, NEW next \in {"command", "ticket"}, GoesOn(c, leg, next)
      PROVE  PageInv'
  BY <1>3, <1>5 DEF GoesOn
<1>. QED BY <1>1, <1>2, <1>4, <1>5
     DEF RunAction, Attach, CreateAndAttach, AttachCreated, HandleSave, SubmitPanel,
         AddFeedback, RevokeGrant, AttestCessation, DialogReads, Sends

\* What the Owner begins and gives up is of the Ticket shown.
LEMMA TypingKept ==
    ASSUME PageInv, StartEditing \/ CancelEditing \/ Draft PROVE PageInv'
<1>1. Loaded /\ page.version \in 1 .. Len(galley) /\ page.version \in 0 .. MaxVersion
  BY PageFacts DEF StartEditing, CancelEditing, Draft, ViewMode, EditForm
<1>2. AskOf(page.version) \in 0 .. MaxVersion
  BY <1>1, PageFacts
<1>3. /\ UNCHANGED <<galley, losses, page, latest, overdue, commands, settled>>
      /\ \/ edit' = page.version /\ draft' = 0
         \/ edit' = 0 /\ draft' = draft
         \/ edit' = edit /\ draft' = AskOf(page.version)
  BY DEF StartEditing, CancelEditing, Draft, requestVars
<1>a. edit' \in 0 .. MaxVersion /\ draft' \in 0 .. MaxVersion
  BY <1>1, <1>2, <1>3, PageAssumption DEF PageInv, PageTypeOK
<1>4. PageTypeOK'
  BY <1>3, <1>a DEF PageInv, PageTypeOK
<1>5. TypedForWhatIsShown'
  BY <1>1, <1>3 DEF PageInv, TypedForWhatIsShown, Loaded, AskOf
<1>. QED BY <1>1, <1>3, <1>4, <1>5
     DEF PageInv, HeardIsPast, Loaded, RefreshNeverUndoesACommand

-----------------------------------------------------------------------------
(* Theorems.                                                               *)

\* The inductive invariant holds in every behaviour of the page.
THEOREM PageInvariant == PageSpec => []PageInv
<1>1. PageInv /\ [PageNext]_pageVars => PageInv'
  <2>. SUFFICES ASSUME PageInv, [PageNext]_pageVars PROVE PageInv'
    OBVIOUS
  <2>1. CASE UNCHANGED pageVars
    BY <2>1 DEF pageVars, requestVars, ownerVars, PageInv, PageTypeOK, HeardIsPast, Loaded,
                RefreshNeverUndoesACommand, TypedForWhatIsShown, AskOf
  <2>. QED BY <2>1, GalleyMovesKept, AnswerLostKept, ReadAnsweredKept, ReadArrivesKept,
              RequestsSentKept, TypingKept, CommandAnsweredKept, CommandArrivesKept DEF PageNext
<1>. QED BY <1>1, PageInvInit, PTL DEF PageSpec

\* No refresh takes the page back behind the answer of the last command it showed
\* (TicketDetailPage.tsx).
THEOREM RefreshNeverUndoesACommandHolds == PageSpec => []RefreshNeverUndoesACommand
<1>1. PageInv => RefreshNeverUndoesACommand
  BY DEF PageInv
<1>. QED BY <1>1, PageInvariant, PTL

\* What the Owner types or chooses belongs to what is on the screen (TicketDetail.tsx).
THEOREM TypedForWhatIsShownHolds == PageSpec => []TypedForWhatIsShown
<1>1. PageInv => TypedForWhatIsShown
  BY DEF PageInv
<1>. QED BY <1>1, PageInvariant, PTL

-----------------------------------------------------------------------------
(* The board and the List.                                                 *)

\* A version of a Ticket is a change made to it.
IsVersionOf(t, v) == v \in 1 .. Latest /\ changes[v].of = t

\* Every Ticket has a version; what is shown, or was heard, of a Ticket is a version
\* of it, and a list that has come is of no earlier time than anything shown.
EveryTicketIsKnown == \A t \in Shelf : \E v \in 1 .. Latest : changes[v].of = t

ShownIsPast == \A t \in Shelf : shelf.of[t] # 0 => IsVersionOf(t, shelf.of[t])

OwnIsPast == own.heard > 0 /\ own.what # "reorder" => IsVersionOf(own.ticket, own.heard)

StopsArePast ==
    \A t \in Shelf : /\ stops[t] # NoRequest => stops[t].ticket = t
                     /\ stops[t].heard > 0 => IsVersionOf(t, stops[t].heard)

ListIsNewest ==
    listing.heard > 0 => /\ listing.heard <= Latest
                         /\ \A t \in Shelf : shelf.of[t] <= listing.heard

CollectionInv ==
    /\ CollectionTypeOK
    /\ EveryTicketIsKnown
    /\ ShownIsPast /\ OwnIsPast /\ StopsArePast
    /\ ListIsNewest

Shelves == [kind: {"loading", "loaded", "error", "left"}, of: [Shelf -> Nat],
            order: Nat, refreshError: BOOLEAN]

-----------------------------------------------------------------------------
(* Versions.                                                               *)

\* A bounded set of natural numbers that is not empty has a greatest member.
LEMMA MaxOfBounded ==
    ASSUME NEW n \in Nat, NEW S \in SUBSET (0 .. n), S # {}
    PROVE  Max(S) \in S /\ \A v \in S : v <= Max(S)
<1>. DEFINE below == {n - v : v \in S}
<1>a. \A v \in S : v \in Int /\ 0 <= v /\ v <= n /\ n - v \in Nat /\ n - v \in below
  <2>. SUFFICES ASSUME NEW v \in S PROVE v \in Int /\ 0 <= v /\ v <= n /\ n - v \in Nat /\ n - v \in below
    OBVIOUS
  <2>1. v \in 0 .. n
    OBVIOUS
  <2>. QED BY <2>1
<1>1. below \in SUBSET Nat /\ below # {}
  BY <1>a
<1>2. PICK m \in below : \A k \in below : ~ (<<k, m>> \in OpToRel(<, Nat))
  BY <1>1, NatLessThanWellFounded, WFMin
<1>3. \A k \in below : k \in Nat /\ m \in Nat /\ ~(k < m)
  BY <1>1, <1>2 DEF OpToRel
<1>4. PICK top \in S : m = n - top
  OBVIOUS
<1>. HIDE DEF below
<1>5. \A v \in S : top >= v
  BY <1>a, <1>3, <1>4
<1>6. Max(S) \in S /\ \A v \in S : Max(S) >= v
  BY <1>5 DEF Max
<1>. QED BY <1>a, <1>6

\* VersionAt() is the last change of its argument among the first i.
LEMMA VersionAtFacts ==
    ASSUME NEW x, NEW i \in Nat
    PROVE  /\ VersionAt(x, i) \in 0 .. i
           /\ VersionAt(x, i) # 0 => changes[VersionAt(x, i)].of = x
           /\ \A v \in 1 .. i : changes[v].of = x => v <= VersionAt(x, i)
<1>. DEFINE versions == {0} \cup {j \in 1 .. i : changes[j].of = x}
<1>1. versions \in SUBSET (0 .. i) /\ versions # {}
  OBVIOUS
<1>2. Max(versions) \in versions /\ \A v \in versions : v <= Max(versions)
  BY <1>1, MaxOfBounded
<1>. QED BY <1>2 DEF VersionAt

\* What becomes of a Ticket's Agent work is a work again.
LEMMA WorkTyped ==
    ASSUME CollectionInv
    PROVE  /\ \A v \in 1 .. Latest : Work(v) \in Works
           /\ \A w \in Works : Becomes[w] \subseteq Works
<1>1. \A v \in 1 .. Latest : changes[v] \in Changes
  BY DEF CollectionInv, CollectionTypeOK, Latest
<1>. QED BY <1>1 DEF Work, Changes, Works, Becomes

\* One more change leaves the versions there are.
LEMMA ChangedFacts ==
    ASSUME CollectionInv, NEW x \in Shelf \cup {Order}, NEW work \in Works, Changed(x, work)
    PROVE  /\ changes' \in Seq(Changes) /\ Latest' = Latest + 1
           /\ IsVersionOf(x, Latest)'
           /\ \A t, v : IsVersionOf(t, v) => IsVersionOf(t, v)'
<1>1. [of |-> x, work |-> work] \in Changes
  BY DEF Changes
<1>2. changes \in Seq(Changes) /\ changes' = Append(changes, [of |-> x, work |-> work])
  BY DEF CollectionInv, CollectionTypeOK, Changed
<1>3. /\ changes' \in Seq(Changes) /\ Len(changes') = Len(changes) + 1
      /\ changes'[Len(changes) + 1] = [of |-> x, work |-> work]
      /\ \A v \in 1 .. Len(changes) : changes'[v] = changes[v]
      /\ Len(changes) \in Nat
  BY <1>1, <1>2
<1>. QED BY <1>3 DEF Latest, IsVersionOf

\* A step that only adds to Galley, if at all, and leaves what is shown or heard,
\* or makes it what the invariant says of it.
LEMMA CollectionKept ==
    ASSUME CollectionInv,
           \/ UNCHANGED changes
           \/ \E x \in Shelf \cup {Order}, work \in Works : Changed(x, work),
           changes' \in Seq(Changes) => CollectionTypeOK',
           UNCHANGED shelf \/ ShownIsPast',
           UNCHANGED own \/ OwnIsPast',
           UNCHANGED stops \/ StopsArePast',
           UNCHANGED <<shelf, listing>> \/ ListIsNewest'
    PROVE  CollectionInv'
<1>1. /\ changes' \in Seq(Changes) /\ Latest' >= Latest /\ Latest' \in Nat /\ Latest \in Nat
      /\ \A t, v : IsVersionOf(t, v) => IsVersionOf(t, v)'
  <2>1. CASE UNCHANGED changes
    BY <2>1 DEF CollectionInv, CollectionTypeOK, Latest, IsVersionOf
  <2>2. ASSUME NEW x \in Shelf \cup {Order}, NEW work \in Works, Changed(x, work)
        PROVE  /\ changes' \in Seq(Changes) /\ Latest' >= Latest /\ Latest' \in Nat /\ Latest \in Nat
               /\ \A t, v : IsVersionOf(t, v) => IsVersionOf(t, v)'
    <3>1. Latest \in Nat
      BY DEF CollectionInv, CollectionTypeOK, Latest
    <3>. QED BY <2>2, <3>1, ChangedFacts
  <2>. QED BY <2>1, <2>2
<1>2. EveryTicketIsKnown'
  <2>1. \A t \in Shelf : \E v \in 1 .. Latest : IsVersionOf(t, v)
    BY DEF CollectionInv, EveryTicketIsKnown, IsVersionOf
  <2>. QED BY <1>1, <2>1 DEF IsVersionOf, EveryTicketIsKnown
<1>3. ShownIsPast' /\ OwnIsPast' /\ StopsArePast'
  BY <1>1 DEF CollectionInv, ShownIsPast, OwnIsPast, StopsArePast
<1>4. ListIsNewest'
  <2>1. listing.heard \in Int
    BY DEF CollectionInv, CollectionTypeOK, ListRequests, NoRequest, Unread
  <2>2. CASE UNCHANGED <<shelf, listing>>
    BY <1>1, <2>1, <2>2 DEF CollectionInv, ListIsNewest
  <2>. QED BY <2>2
<1>. QED BY <1>1, <1>2, <1>3, <1>4 DEF CollectionInv

-----------------------------------------------------------------------------
(* The invariant, action by action.                                        *)

\* Requests that are sent, or none, have heard nothing.
LEMMA SentTyped ==
    /\ NoRequest.heard = 0 /\ NoRequest.what = "none" /\ NoRequest.ticket = Order
    /\ \A what \in {"load", "poll"} : /\ Sent(what, Order) \in ListRequests
                                      /\ Sent(what, Order).heard = 0
    /\ \A what \in {"move", "archive", "reorder"}, t \in Shelf :
          Sent(what, t) \in OwnRequests /\ Sent(what, t).heard = 0
    /\ \A t \in Shelf : /\ Sent("stop", t) \in StopRequests
                        /\ Sent("stop", t).heard = 0 /\ Sent("stop", t).ticket = t
BY DEF NoRequest, Sent, Unread, ListRequests, OwnRequests, StopRequests

\* A request that hears something remains the request it was.
LEMMA HearingTyped ==
    ASSUME NEW h \in Int
    PROVE  /\ \A r \in ListRequests : [r EXCEPT !.heard = h] \in ListRequests
                                      /\ [r EXCEPT !.heard = h].heard = h
           /\ \A r \in OwnRequests : /\ [r EXCEPT !.heard = h] \in OwnRequests
                                     /\ [r EXCEPT !.heard = h].heard = h
                                     /\ [r EXCEPT !.heard = h].what = r.what
                                     /\ [r EXCEPT !.heard = h].ticket = r.ticket
           /\ \A r \in StopRequests : /\ [r EXCEPT !.heard = h] \in StopRequests
                                      /\ [r EXCEPT !.heard = h].heard = h
                                      /\ [r EXCEPT !.heard = h].ticket = r.ticket
BY DEF ListRequests, OwnRequests, StopRequests

LEMMA CollectionInvInit == CollectionInit => CollectionInv
<1>. SUFFICES ASSUME CollectionInit PROVE CollectionInv
  OBVIOUS
<1>. USE ShelfAssumption
<1>1. CollectionTypeOK
  <2>1. Sent("load", Order) \in ListRequests
    BY SentTyped
  <2>2. stops \in [Shelf -> StopRequests \cup {NoRequest}]
    BY DEF CollectionInit
  <2>3. shelf \in Shelves
    BY DEF CollectionInit, Shelves
  <2>4. /\ changes = Opening /\ mishaps = 0 /\ listing = Sent("load", Order)
        /\ ticking = FALSE /\ own = NoRequest /\ reordered = 0 /\ strayed = FALSE
    BY DEF CollectionInit
  <2>5. mishaps \in 0 .. MaxMishaps /\ changes \in Seq(Changes) /\ reordered \in Nat
    BY <2>4
  <2>6. shelf \in [kind: {"loading", "loaded", "error", "left"}, of: [Shelf -> Nat],
                   order: Nat, refreshError: BOOLEAN]
    BY <2>3 DEF Shelves
  <2>. HIDE ShelfAssumption
  <2>. QED BY <2>1, <2>2, <2>4, <2>5, <2>6 DEF CollectionTypeOK
<1>2. EveryTicketIsKnown
  BY DEF CollectionInit, EveryTicketIsKnown, Latest
<1>3. ShownIsPast /\ OwnIsPast /\ StopsArePast /\ ListIsNewest
  BY SentTyped DEF CollectionInit, ShownIsPast, OwnIsPast, StopsArePast, ListIsNewest
<1>. QED BY <1>1, <1>2, <1>3 DEF CollectionInv

\* Types of what the actions read.
LEMMA CollectionFacts ==
    ASSUME CollectionInv
    PROVE  /\ changes \in Seq(Changes) /\ Latest \in Nat /\ mishaps \in 0 .. MaxMishaps
           /\ shelf \in Shelves /\ shelf.of \in [Shelf -> Nat] /\ shelf.order \in Nat
           /\ listing \in ListRequests \cup {NoRequest} /\ ticking \in BOOLEAN
           /\ own \in OwnRequests \cup {NoRequest}
           /\ stops \in [Shelf -> StopRequests \cup {NoRequest}]
           /\ reordered \in Nat /\ strayed \in BOOLEAN
           /\ listing.heard \in Int /\ own.heard \in Int
           /\ \A t \in Shelf : stops[t].heard \in Int
<1>1. /\ changes \in Seq(Changes) /\ Latest \in Nat /\ mishaps \in 0 .. MaxMishaps
      /\ shelf \in Shelves
      /\ listing \in ListRequests \cup {NoRequest} /\ ticking \in BOOLEAN
      /\ own \in OwnRequests \cup {NoRequest}
      /\ stops \in [Shelf -> StopRequests \cup {NoRequest}]
      /\ reordered \in Nat /\ strayed \in BOOLEAN
  BY DEF CollectionInv, CollectionTypeOK, Latest, Shelves
<1>2. shelf.of \in [Shelf -> Nat] /\ shelf.order \in Nat
  BY <1>1 DEF Shelves
<1>3. \A r \in ListRequests \cup OwnRequests \cup StopRequests \cup {NoRequest} : r.heard \in Int
  BY DEF ListRequests, OwnRequests, StopRequests, NoRequest, Unread
<1>4. \A t \in Shelf : stops[t] \in StopRequests \cup {NoRequest}
  BY <1>1
<1>. QED BY <1>1, <1>2, <1>3, <1>4

LEMMA GalleyMovesATicketKept ==
    ASSUME CollectionInv, GalleyMovesATicket PROVE CollectionInv'
<1>0. PICK t \in Shelf : \E work \in Becomes[Work(VersionAt(t, Latest))] : Changed(t, work)
  BY DEF GalleyMovesATicket
<1>1. PICK work \in Becomes[Work(VersionAt(t, Latest))] : Changed(t, work)
  BY <1>0
<1>2. VersionAt(t, Latest) \in 1 .. Latest
  <2>1. Latest \in Nat
    BY CollectionFacts
  <2>2. PICK v \in 1 .. Latest : changes[v].of = t
    BY DEF CollectionInv, EveryTicketIsKnown
  <2>3. VersionAt(t, Latest) \in 0 .. Latest /\ v <= VersionAt(t, Latest)
    BY <2>1, <2>2, VersionAtFacts
  <2>. QED BY <2>1, <2>2, <2>3
<1>3. work \in Works
  BY <1>1, <1>2, WorkTyped
<1>4. UNCHANGED <<mishaps, shelf, listing, ticking, own, stops, reordered, strayed>>
  BY DEF GalleyMovesATicket, listVars, ownVars
<1>5. changes' \in Seq(Changes) => CollectionTypeOK'
  BY <1>4 DEF CollectionInv, CollectionTypeOK
<1>. QED BY <1>1, <1>3, <1>4, <1>5, CollectionKept

LEMMA GalleyAnswersTheListKept ==
    ASSUME CollectionInv, GalleyAnswersTheList PROVE CollectionInv'
<1>1. PICK what \in {Latest, SignedOut} : listing' = [listing EXCEPT !.heard = what]
  BY DEF GalleyAnswersTheList
<1>2. /\ UNCHANGED <<changes, mishaps, shelf, ticking, own, stops, reordered, strayed>>
      /\ listing \in ListRequests
  BY CollectionFacts DEF GalleyAnswersTheList, InFlight, ownVars
<1>3. what \in Int /\ (what > 0 => what = Latest)
  BY CollectionFacts DEF SignedOut
<1>4. listing' \in ListRequests /\ listing'.heard = what
  BY <1>1, <1>2, <1>3, HearingTyped
<1>5. CollectionTypeOK'
  BY <1>2, <1>4 DEF CollectionInv, CollectionTypeOK
<1>6. ListIsNewest'
  <2>1. \A t \in Shelf : shelf.of[t] <= Latest
    BY CollectionFacts DEF CollectionInv, ShownIsPast, IsVersionOf
  <2>2. Latest' = Latest /\ Latest <= Latest
    BY <1>2, CollectionFacts DEF Latest
  <2>. QED BY <1>2, <1>3, <1>4, <2>1, <2>2 DEF ListIsNewest
<1>. QED BY <1>2, <1>5, <1>6, CollectionKept

\* A command that is carried out is a change of the Ticket it names, or of the order.
LEMMA CarriedOutFacts ==
    ASSUME CollectionInv, NEW request \in OwnRequests \cup StopRequests, CarriedOut(request)
    PROVE  \E work \in Works :
              Changed(IF request.what = "reorder" THEN Order ELSE request.ticket, work)
<1>1. /\ request.what \in {"move", "archive", "reorder", "stop"}
      /\ {"none", "queued", "archived", "open"} \subseteq Works
  BY DEF OwnRequests, StopRequests, Works
<1>2. CASE request.what = "move"
  BY <1>1, <1>2 DEF CarriedOut
<1>3. CASE request.what = "archive"
  BY <1>1, <1>3 DEF CarriedOut
<1>4. CASE request.what = "reorder"
  BY <1>1, <1>4 DEF CarriedOut
<1>5. CASE request.what = "stop"
  BY <1>1, <1>5 DEF CarriedOut
<1>. QED BY <1>1, <1>2, <1>3, <1>4, <1>5

LEMMA GalleyAnswersOwnKept ==
    ASSUME CollectionInv, GalleyAnswersOwn PROVE CollectionInv'
<1>1. /\ UNCHANGED <<mishaps, shelf, listing, ticking, stops, strayed>>
      /\ own \in OwnRequests /\ own.what \in {"move", "archive", "reorder"} /\ own.ticket \in Shelf
  BY CollectionFacts DEF GalleyAnswersOwn, InFlight, OwnRequests, listVars
<1>2. ASSUME CarriedOut(own), own' = [own EXCEPT !.heard = Latest + 1],
             reordered' = IF own.what = "reorder" THEN Latest + 1 ELSE reordered
      PROVE  CollectionInv'
  <2>. PICK x : x = IF own.what = "reorder" THEN Order ELSE own.ticket
    OBVIOUS
  <2>1. PICK work \in Works : Changed(x, work)
    BY <1>1, <1>2, CarriedOutFacts
  <2>2. x \in Shelf \cup {Order} /\ (own.what # "reorder" => x = own.ticket)
    BY <1>1
  <2>3. Latest' = Latest + 1 /\ IsVersionOf(x, Latest)'
    BY <2>1, <2>2, ChangedFacts
  <2>4. /\ own' \in OwnRequests /\ own'.heard = Latest'
        /\ own'.what = own.what /\ own'.ticket = own.ticket
    <3>1. Latest + 1 \in Int /\ Latest' = Latest + 1
      BY <2>3, CollectionFacts
    <3>. QED BY <1>1, <1>2, <3>1, HearingTyped
  <2>5. reordered' \in Nat
    BY <1>2, CollectionFacts
  <2>6. changes' \in Seq(Changes) => CollectionTypeOK'
    BY <1>1, <2>4, <2>5 DEF CollectionInv, CollectionTypeOK
  <2>7. OwnIsPast'
    BY <2>2, <2>3, <2>4 DEF OwnIsPast
  <2>. QED BY <1>1, <2>1, <2>2, <2>6, <2>7, CollectionKept
<1>3. ASSUME NEW what \in {Rejected, SignedOut}, own' = [own EXCEPT !.heard = what],
             UNCHANGED <<changes, reordered>>
      PROVE  CollectionInv'
  <2>1. own' \in OwnRequests /\ own'.heard < 0
    BY <1>1, <1>3, HearingTyped DEF Rejected, SignedOut
  <2>2. CollectionTypeOK' /\ OwnIsPast'
    BY <1>1, <1>3, <2>1 DEF CollectionInv, CollectionTypeOK, OwnIsPast, OwnRequests
  <2>. QED BY <1>1, <1>3, <2>2, CollectionKept
<1>. QED BY <1>2, <1>3 DEF GalleyAnswersOwn

LEMMA GalleyAnswersAStopKept ==
    ASSUME CollectionInv, NEW t \in Shelf, GalleyAnswersAStop(t) PROVE CollectionInv'
<1>1. /\ UNCHANGED <<mishaps, shelf, listing, ticking, own, reordered, strayed>>
      /\ stops[t] \in StopRequests /\ stops[t].what = "stop" /\ stops[t].ticket = t
  BY CollectionFacts DEF GalleyAnswersAStop, InFlight, StopRequests, listVars, CollectionInv, StopsArePast
<1>2. PICK h \in Int :
          /\ stops' = [stops EXCEPT ![t] = [stops[t] EXCEPT !.heard = h]]
          /\ \/ CarriedOut(stops[t]) /\ h = Latest + 1
             \/ UNCHANGED changes /\ h < 0
  <2>1. Latest + 1 \in Int /\ Rejected \in Int /\ Rejected < 0 /\ SignedOut \in Int /\ SignedOut < 0
    BY CollectionFacts DEF Rejected, SignedOut
  <2>2. CASE CarriedOut(stops[t]) /\ stops' = [stops EXCEPT ![t].heard = Latest + 1]
    BY <2>1, <2>2
  <2>3. ASSUME NEW h \in {Rejected, SignedOut}, stops' = [stops EXCEPT ![t].heard = h], UNCHANGED changes
        PROVE  h \in Int /\ h < 0 /\ stops' = [stops EXCEPT ![t] = [stops[t] EXCEPT !.heard = h]]
    BY <2>1, <2>3
  <2>. QED BY <2>2, <2>3 DEF GalleyAnswersAStop
<1>3. /\ [stops[t] EXCEPT !.heard = h] \in StopRequests
      /\ [stops[t] EXCEPT !.heard = h].heard = h /\ [stops[t] EXCEPT !.heard = h].ticket = t
  BY <1>1, HearingTyped
<1>4. /\ stops' \in [Shelf -> StopRequests \cup {NoRequest}]
      /\ stops'[t].heard = h /\ stops'[t].ticket = t
      /\ \A u \in Shelf \ {t} : stops'[u] = stops[u]
  BY <1>2, <1>3, CollectionFacts
<1>5. changes' \in Seq(Changes) => CollectionTypeOK'
  BY <1>1, <1>4 DEF CollectionInv, CollectionTypeOK
<1>6. CASE CarriedOut(stops[t]) /\ h = Latest + 1
  <2>1. PICK work \in Works : Changed(t, work)
    BY <1>1, <1>6, CarriedOutFacts
  <2>2. /\ Latest' = Latest + 1 /\ IsVersionOf(t, Latest)'
        /\ \A u, v : IsVersionOf(u, v) => IsVersionOf(u, v)'
    BY <2>1, ChangedFacts
  <2>3. StopsArePast'
    BY <1>4, <1>6, <2>2 DEF CollectionInv, StopsArePast
  <2>. QED BY <1>1, <1>5, <2>1, <2>3, CollectionKept
<1>7. CASE UNCHANGED changes /\ h < 0
  <2>1. StopsArePast'
    BY <1>4, <1>7 DEF CollectionInv, StopsArePast, IsVersionOf, Latest
  <2>. QED BY <1>1, <1>5, <1>7, <2>1, CollectionKept
<1>. QED BY <1>2, <1>6, <1>7

LEMMA RequestFailsKept == ASSUME CollectionInv, RequestFails PROVE CollectionInv'
<1>1. /\ UNCHANGED <<changes, shelf, ticking, reordered, strayed>>
      /\ mishaps' \in 0 .. MaxMishaps
  BY CollectionFacts, ShelfAssumption DEF RequestFails
<1>2. Failed \in Int /\ Failed < 0
  BY DEF Failed
<1>3. CASE listing # NoRequest /\ listing' = [listing EXCEPT !.heard = Failed] /\ UNCHANGED ownVars
  <2>1. listing' \in ListRequests /\ listing'.heard < 0 /\ UNCHANGED <<own, stops>>
    BY <1>2, <1>3, CollectionFacts, HearingTyped DEF ownVars
  <2>2. CollectionTypeOK'
    BY <1>1, <2>1 DEF CollectionInv, CollectionTypeOK
  <2>3. ListIsNewest'
    BY <2>1, <1>2, CollectionFacts DEF ListIsNewest, ListRequests
  <2>. QED BY <1>1, <2>1, <2>2, <2>3, CollectionKept
<1>4. CASE own # NoRequest /\ own' = [own EXCEPT !.heard = Failed] /\ UNCHANGED <<listing, stops>>
  <2>1. own' \in OwnRequests /\ own'.heard < 0
    BY <1>2, <1>4, CollectionFacts, HearingTyped
  <2>2. CollectionTypeOK'
    BY <1>1, <1>4, <2>1 DEF CollectionInv, CollectionTypeOK
  <2>3. OwnIsPast'
    BY <2>1 DEF OwnIsPast, OwnRequests
  <2>. QED BY <1>1, <1>4, <2>2, <2>3, CollectionKept
<1>5. ASSUME NEW t \in Shelf, stops[t] # NoRequest, stops' = [stops EXCEPT ![t].heard = Failed],
             UNCHANGED <<listing, own>>
      PROVE  CollectionInv'
  <2>1. stops[t] \in StopRequests /\ stops[t].ticket = t
    BY <1>5, CollectionFacts DEF CollectionInv, StopsArePast
  <2>2. /\ [stops[t] EXCEPT !.heard = Failed] \in StopRequests
        /\ [stops[t] EXCEPT !.heard = Failed].heard = Failed
        /\ [stops[t] EXCEPT !.heard = Failed].ticket = t
    BY <1>2, <2>1, HearingTyped
  <2>3. /\ stops' \in [Shelf -> StopRequests \cup {NoRequest}]
        /\ stops'[t].heard = Failed /\ stops'[t].ticket = t
        /\ \A u \in Shelf \ {t} : stops'[u] = stops[u]
    BY <1>5, <2>2, CollectionFacts
  <2>4. CollectionTypeOK'
    BY <1>1, <1>5, <2>3 DEF CollectionInv, CollectionTypeOK
  <2>5. StopsArePast'
    BY <1>1, <1>2, <2>3 DEF CollectionInv, StopsArePast, IsVersionOf, Latest
  <2>. QED BY <1>1, <1>5, <2>4, <2>5, CollectionKept
<1>. QED BY <1>3, <1>4, <1>5 DEF RequestFails

\* The lists and commands of a page that is left are forgotten.
LEMMA LeavesShelfKept ==
    ASSUME CollectionInv, LeavesShelf, UNCHANGED <<changes, mishaps, reordered, strayed>>
    PROVE  CollectionInv'
<1>1. /\ shelf' \in Shelves /\ \A t \in Shelf : shelf'.of[t] = 0
      /\ listing' = NoRequest /\ ticking' = FALSE
      /\ own' = NoRequest /\ stops' = [t \in Shelf |-> NoRequest]
  BY DEF LeavesShelf, Shelves
<1>2. CollectionTypeOK'
  BY <1>1 DEF CollectionInv, CollectionTypeOK, Shelves
<1>3. ShownIsPast' /\ OwnIsPast' /\ StopsArePast' /\ ListIsNewest'
  BY <1>1, SentTyped DEF ShownIsPast, OwnIsPast, StopsArePast, ListIsNewest
<1>. QED BY <1>2, <1>3, CollectionKept

\* A step that supersedes the list in flight, and shows versions of Tickets.
LEMMA SupersedesKept ==
    ASSUME CollectionInv, NEW of, NEW request \in {NoRequest, Sent("load", Order), Sent("poll", Order)},
           Supersedes(request, of), UNCHANGED changes,
           mishaps' \in 0 .. MaxMishaps, reordered' = reordered, strayed' \in BOOLEAN,
           shelf' \in Shelves, ShownIsPast',
           own' \in {own, NoRequest},
           stops' = stops \/ \E t \in Shelf : stops' = [stops EXCEPT ![t] = NoRequest]
    PROVE  CollectionInv'
<1>1. listing' \in ListRequests \cup {NoRequest} /\ listing'.heard = 0 /\ ticking' \in BOOLEAN
  BY SentTyped DEF Supersedes
<1>2. /\ stops' \in [Shelf -> StopRequests \cup {NoRequest}]
      /\ \A t \in Shelf : stops'[t] = stops[t] \/ stops'[t] = NoRequest
  BY CollectionFacts
<1>3. CollectionTypeOK'
  BY <1>1, <1>2 DEF CollectionInv, CollectionTypeOK, Shelves
<1>4. OwnIsPast'
  BY SentTyped DEF CollectionInv, OwnIsPast, IsVersionOf, Latest
<1>5. StopsArePast'
  BY <1>2, SentTyped DEF CollectionInv, StopsArePast, IsVersionOf, Latest
<1>6. ListIsNewest'
  BY <1>1 DEF ListIsNewest
<1>. QED BY <1>3, <1>4, <1>5, <1>6, CollectionKept

\* A Ticket put in place of its older self leaves versions of Tickets in the list.
LEMMA ShelfWithFacts ==
    ASSUME CollectionInv, NEW t \in Shelf, NEW v \in Nat, IsVersionOf(t, v),
           UNCHANGED changes, shelf' = [shelf EXCEPT !.of = ShelfWith(t, v)]
    PROVE  shelf' \in Shelves /\ ShownIsPast'
<1>1. ShelfWith(t, v) \in [Shelf -> Nat]
  BY CollectionFacts DEF ShelfWith
<1>2. \A u \in Shelf : ShelfWith(t, v)[u] # 0 => IsVersionOf(u, ShelfWith(t, v)[u])
  BY CollectionFacts DEF ShelfWith, CollectionInv, ShownIsPast
<1>3. shelf' \in Shelves /\ shelf'.of = ShelfWith(t, v)
  BY <1>1, CollectionFacts DEF Shelves
<1>. QED BY <1>2, <1>3 DEF ShownIsPast, IsVersionOf, Latest

LEMMA ListArrivesKept == ASSUME CollectionInv, ListArrives PROVE CollectionInv'
<1>. DEFINE i == listing.heard
            of == [t \in Shelf |-> VersionAt(t, i)]
<1>0. UNCHANGED <<changes, mishaps, reordered, strayed>>
  BY DEF ListArrives
<1>1. CASE LeavesShelf
  BY <1>0, <1>1, LeavesShelfKept
<1>2. CASE /\ IsList(i)
           /\ shelf' = [kind |-> "loaded", of |-> of, order |-> VersionAt(Order, i), refreshError |-> FALSE]
           /\ listing' = NoRequest /\ ticking' = (ticking /\ ListAwaits(of))
           /\ UNCHANGED ownVars
  <2>1. i \in Nat /\ i <= Latest
    BY <1>2, CollectionFacts DEF IsList, CollectionInv, ListIsNewest
  <2>2. /\ VersionAt(Order, i) \in Nat
        /\ \A t \in Shelf : /\ of[t] \in Nat /\ of[t] <= i
                            /\ of[t] # 0 => IsVersionOf(t, of[t])
    BY <2>1, VersionAtFacts, CollectionFacts DEF IsVersionOf
  <2>. HIDE DEF of
  <2>3. of \in [Shelf -> Nat]
    BY <2>2 DEF of
  <2>4. shelf' \in Shelves /\ shelf'.of = of /\ UNCHANGED <<own, stops>>
    BY <1>2, <2>2, <2>3 DEF Shelves, ownVars
  <2>5. CollectionTypeOK'
    BY <1>0, <1>2, <2>4 DEF CollectionInv, CollectionTypeOK, Shelves
  <2>6. ShownIsPast' /\ ListIsNewest'
    BY <1>0, <1>2, <2>2, <2>4, SentTyped DEF ShownIsPast, ListIsNewest, IsVersionOf, Latest
  <2>. QED BY <1>0, <2>4, <2>5, <2>6, CollectionKept
<1>3. CASE /\ shelf' = IF shelf.kind = "loaded" THEN [shelf EXCEPT !.refreshError = TRUE]
                                               ELSE [shelf EXCEPT !.kind = "error"]
           /\ listing' = NoRequest
           /\ UNCHANGED <<ticking, ownVars>>
  <2>1. shelf' \in Shelves /\ shelf'.of = shelf.of /\ UNCHANGED <<own, stops>>
    BY <1>3, CollectionFacts DEF Shelves, ownVars
  <2>2. CollectionTypeOK'
    BY <1>0, <1>3, <2>1 DEF CollectionInv, CollectionTypeOK, Shelves
  <2>3. ShownIsPast' /\ ListIsNewest'
    BY <1>0, <1>3, <2>1, SentTyped
       DEF CollectionInv, ShownIsPast, ListIsNewest, IsVersionOf, Latest
  <2>. QED BY <1>0, <2>1, <2>2, <2>3, CollectionKept
<1>. QED BY <1>1, <1>2, <1>3 DEF ListArrives

LEMMA TickSettlesKept == ASSUME CollectionInv, TickSettles PROVE CollectionInv'
<1>0. UNCHANGED <<changes, mishaps, reordered, strayed>>
  BY DEF TickSettles
<1>1. CASE LeavesShelf
  BY <1>0, <1>1, LeavesShelfKept
<1>2. CASE ticking' = FALSE /\ UNCHANGED <<shelf, listing, ownVars>>
  <2>1. CollectionTypeOK'
    BY <1>0, <1>2 DEF CollectionInv, CollectionTypeOK, ownVars
  <2>. QED BY <1>0, <1>2, <2>1, CollectionKept DEF ownVars
<1>. QED BY <1>1, <1>2 DEF TickSettles

LEMMA ListsAskedKept ==
    ASSUME CollectionInv, ListPoll \/ RefreshKeyBumped PROVE CollectionInv'
<1>1. PICK request \in {NoRequest, Sent("load", Order), Sent("poll", Order)} :
          Supersedes(request, shelf.of)
  BY DEF ListPoll, RefreshKeyBumped
<1>2. /\ UNCHANGED <<changes, shelf, own, stops, reordered, strayed>>
      /\ mishaps' \in 0 .. MaxMishaps
  BY CollectionFacts, ShelfAssumption DEF ListPoll, RefreshKeyBumped, ownVars
<1>3. shelf' \in Shelves /\ ShownIsPast' /\ strayed' \in BOOLEAN
  BY <1>2, CollectionFacts DEF CollectionInv, ShownIsPast, IsVersionOf, Latest
<1>. QED BY <1>1, <1>2, <1>3, SupersedesKept

LEMMA SubmitOwnKept ==
    ASSUME CollectionInv, NEW what \in {"move", "archive", "reorder"}, NEW t \in Shelf,
           SubmitOwn(what, t)
    PROVE  CollectionInv'
<1>1. /\ own' \in OwnRequests /\ own'.heard = 0
      /\ UNCHANGED <<changes, mishaps, shelf, listing, ticking, stops, reordered, strayed>>
  BY SentTyped DEF SubmitOwn, listVars
<1>2. CollectionTypeOK' /\ OwnIsPast'
  BY <1>1 DEF CollectionInv, CollectionTypeOK, OwnIsPast
<1>. QED BY <1>1, <1>2, CollectionKept

LEMMA SubmitStopKept ==
    ASSUME CollectionInv, NEW t \in Shelf, SubmitStop(t) PROVE CollectionInv'
<1>1. /\ stops' \in [Shelf -> StopRequests \cup {NoRequest}]
      /\ stops'[t].heard = 0 /\ stops'[t].ticket = t
      /\ \A u \in Shelf \ {t} : stops'[u] = stops[u]
      /\ UNCHANGED <<changes, mishaps, shelf, listing, ticking, own, reordered, strayed>>
  BY SentTyped, CollectionFacts DEF SubmitStop, listVars
<1>2. CollectionTypeOK'
  BY <1>1 DEF CollectionInv, CollectionTypeOK
<1>3. StopsArePast'
  BY <1>1 DEF CollectionInv, StopsArePast, IsVersionOf, Latest
<1>. QED BY <1>1, <1>2, <1>3, CollectionKept

LEMMA OwnAnsweredKept == ASSUME CollectionInv, OwnAnswered PROVE CollectionInv'
<1>0. /\ UNCHANGED <<changes, mishaps, reordered, strayed>> /\ own \in OwnRequests
      /\ (own.what # "reorder") = (own.what \in {"move", "archive"})
      /\ own.ticket \in Shelf
  BY CollectionFacts DEF OwnAnswered, MoveAnswered, ReorderAnswered, Answered, OwnRequests
<1>1. CASE LeavesShelf
  BY <1>0, <1>1, LeavesShelfKept
<1>2. ASSUME NEW of, Supersedes(Sent("load", Order), of), own' = NoRequest, UNCHANGED stops,
             shelf' \in Shelves, ShownIsPast'
      PROVE  CollectionInv'
  BY <1>0, <1>2, CollectionFacts, SupersedesKept
<1>3. CASE /\ own.what # "reorder" /\ IsList(own.heard)
           /\ shelf' = [shelf EXCEPT !.of = ShelfWith(own.ticket, own.heard)]
           /\ Supersedes(Sent("load", Order), ShelfWith(own.ticket, own.heard))
           /\ own' = NoRequest /\ UNCHANGED stops
  <2>1. own.heard \in Nat /\ IsVersionOf(own.ticket, own.heard)
    BY <1>3, CollectionFacts DEF IsList, CollectionInv, OwnIsPast
  <2>2. shelf' \in Shelves /\ ShownIsPast'
    BY <1>0, <1>3, <2>1, ShelfWithFacts
  <2>. QED BY <1>2, <1>3, <2>2
<1>4. CASE UNCHANGED <<shelf, listVars>> /\ own' = NoRequest /\ UNCHANGED stops
  <2>1. CollectionTypeOK' /\ OwnIsPast'
    BY <1>0, <1>4, SentTyped DEF CollectionInv, CollectionTypeOK, OwnIsPast, listVars
  <2>. QED BY <1>0, <1>4, <2>1, CollectionKept DEF listVars
<1>5. CASE Supersedes(Sent("load", Order), shelf.of) /\ own' = NoRequest /\ UNCHANGED <<shelf, stops>>
  <2>1. shelf' \in Shelves /\ ShownIsPast'
    BY <1>0, <1>5, CollectionFacts DEF CollectionInv, ShownIsPast, IsVersionOf, Latest
  <2>. QED BY <1>2, <1>5, <2>1
<1>6. CASE MoveAnswered
  BY <1>0, <1>1, <1>3, <1>4, <1>6 DEF MoveAnswered
<1>7. CASE ReorderAnswered
  BY <1>1, <1>5, <1>7 DEF ReorderAnswered
<1>. QED BY <1>6, <1>7 DEF OwnAnswered

LEMMA StopAnsweredKept ==
    ASSUME CollectionInv, NEW t \in Shelf, StopAnswered(t) PROVE CollectionInv'
<1>0. UNCHANGED <<changes, mishaps, reordered>>
  BY DEF StopAnswered
<1>1. CASE LeavesShelf /\ UNCHANGED strayed
  BY <1>0, <1>1, LeavesShelfKept
<1>2. CASE /\ IsList(stops[t].heard)
           /\ shelf' = [shelf EXCEPT !.of = ShelfWith(t, stops[t].heard)]
           /\ Replaced(ShelfWith(t, stops[t].heard))
           /\ strayed' = (strayed \/ ~OnShelf(t))
           /\ stops' = [stops EXCEPT ![t] = NoRequest] /\ UNCHANGED own
  <2>1. stops[t].heard \in Nat /\ IsVersionOf(t, stops[t].heard)
    BY <1>2, CollectionFacts DEF IsList, CollectionInv, StopsArePast
  <2>2. shelf' \in Shelves /\ ShownIsPast' /\ strayed' \in BOOLEAN
    BY <1>0, <1>2, <2>1, ShelfWithFacts
  <2>. QED BY <1>0, <1>2, <2>2, CollectionFacts, SupersedesKept DEF Replaced
<1>3. CASE /\ UNCHANGED <<shelf, listVars, strayed>>
           /\ stops' = [stops EXCEPT ![t] = NoRequest] /\ UNCHANGED own
  <2>1. /\ stops' \in [Shelf -> StopRequests \cup {NoRequest}]
        /\ \A u \in Shelf : stops'[u] = stops[u] \/ stops'[u] = NoRequest
    BY <1>3, CollectionFacts
  <2>2. CollectionTypeOK' /\ StopsArePast'
    BY <1>0, <1>3, <2>1, SentTyped
       DEF CollectionInv, CollectionTypeOK, StopsArePast, listVars, IsVersionOf, Latest
  <2>. QED BY <1>0, <1>3, <2>2, CollectionKept DEF listVars
<1>. QED BY <1>1, <1>2, <1>3 DEF StopAnswered

-----------------------------------------------------------------------------
(* Theorems.                                                               *)

LEMMA CollectionInvStep == CollectionInv /\ [CollectionNext]_shelfVars => CollectionInv'
<1>. SUFFICES ASSUME CollectionInv, [CollectionNext]_shelfVars PROVE CollectionInv'
  OBVIOUS
<1>1. CASE UNCHANGED shelfVars
  <2>1. CollectionTypeOK'
    BY <1>1 DEF shelfVars, listVars, ownVars, CollectionInv, CollectionTypeOK
  <2>. QED BY <1>1, <2>1, CollectionKept DEF shelfVars, listVars, ownVars
<1>. QED BY <1>1, GalleyMovesATicketKept, GalleyAnswersTheListKept, GalleyAnswersOwnKept,
            GalleyAnswersAStopKept, RequestFailsKept, ListArrivesKept, TickSettlesKept,
            ListsAskedKept, OwnAnsweredKept, SubmitOwnKept, SubmitStopKept, StopAnsweredKept
     DEF CollectionNext

\* The inductive invariant holds in every behaviour of the Board.
THEOREM CollectionInvariant == CollectionSpec => []CollectionInv
<1>. QED BY CollectionInvInit, CollectionInvStep, PTL DEF CollectionSpec

\* A list that comes, however long it was on its way, undoes no command whose answer
\* was shown before it (Board.tsx).
THEOREM ListNeverUndoesACommandHolds == CollectionSpec => []ListNeverUndoesACommand
<1>1. CollectionInv => ListNeverUndoesACommand
  <2>. SUFFICES ASSUME CollectionInv, IsList(listing.heard), NEW t \in Shelf
                PROVE  VersionAt(t, listing.heard) >= shelf.of[t]
    BY DEF ListNeverUndoesACommand
  <2>1. listing.heard \in Nat /\ shelf.of[t] \in Nat /\ shelf.of[t] <= listing.heard
    BY CollectionFacts DEF IsList, CollectionInv, ListIsNewest
  <2>2. VersionAt(t, listing.heard) \in Nat
    BY <2>1, VersionAtFacts
  <2>3. CASE shelf.of[t] = 0
    BY <2>2, <2>3
  <2>4. CASE shelf.of[t] # 0
    <3>1. shelf.of[t] \in 1 .. listing.heard /\ changes[shelf.of[t]].of = t
      BY <2>1, <2>4 DEF CollectionInv, ShownIsPast, IsVersionOf
    <3>2. shelf.of[t] <= VersionAt(t, listing.heard)
      BY <2>1, <3>1, VersionAtFacts
    <3>. QED BY <2>1, <2>2, <3>2
  <2>. QED BY <2>3, <2>4
<1>. QED BY <1>1, CollectionInvariant, PTL

-----------------------------------------------------------------------------
(* The runner's health.                                                    *)

\* Of the requests on their way one at most is shown, and what it has read is no older
\* than what was shown or told; nothing is told that Galley has not had.
HealthInv ==
    /\ HealthTypeOK
    /\ told <= health /\ pairing.change <= health
    /\ \A r \in requests : r.read <= health
    /\ \A r, s \in requests : r.latest /\ s.latest => r = s
    /\ \A r \in requests : r.latest /\ r.read # HealthUnread => told <= r.read

HealthRequests == [latest: BOOLEAN, read: HealthUnread .. MaxHealth]

\* A reload leaves one request that is shown, and it has read nothing yet.
LEMMA ReloadedRequests ==
    ASSUME HealthInv
    PROVE  \A r \in ReloadSharedHealth :
              /\ r \in HealthRequests
              /\ r.latest => r = [latest |-> TRUE, read |-> HealthUnread]
              /\ r.read = HealthUnread \/ \E s \in requests : r.read = s.read
<1>1. ASSUME NEW r \in requests
      PROVE  /\ [r EXCEPT !.latest = FALSE] \in HealthRequests
             /\ ~[r EXCEPT !.latest = FALSE].latest
             /\ [r EXCEPT !.latest = FALSE].read = r.read
  BY DEF HealthInv, HealthTypeOK, HealthRequests
<1>2. [latest |-> TRUE, read |-> HealthUnread] \in HealthRequests
  BY HealthAssumption DEF HealthRequests, HealthUnread
<1>3. ASSUME NEW r \in ReloadSharedHealth, r # [latest |-> TRUE, read |-> HealthUnread]
      PROVE  \E s \in requests : r = [s EXCEPT !.latest = FALSE]
  BY <1>3 DEF ReloadSharedHealth, Overtaken
<1>4. ASSUME NEW r \in ReloadSharedHealth, r # [latest |-> TRUE, read |-> HealthUnread]
      PROVE  r \in HealthRequests /\ ~r.latest /\ \E s \in requests : r.read = s.read
  BY <1>1, <1>3, <1>4
<1>5. [latest |-> TRUE, read |-> HealthUnread].read = HealthUnread
  OBVIOUS
<1>6. ASSUME NEW r \in ReloadSharedHealth
      PROVE  /\ r \in HealthRequests
             /\ r.latest => r = [latest |-> TRUE, read |-> HealthUnread]
             /\ r.read = HealthUnread \/ \E s \in requests : r.read = s.read
  <2>1. CASE r = [latest |-> TRUE, read |-> HealthUnread]
    BY <1>2, <1>5, <2>1
  <2>2. CASE r # [latest |-> TRUE, read |-> HealthUnread]
    BY <1>4, <2>2
  <2>. QED BY <2>1, <2>2
<1>. QED BY <1>6

\* The requests of a step that asks anew, whatever it tells.
LEMMA ReloadKept ==
    ASSUME HealthInv, requests' = ReloadSharedHealth, health' = health,
           told' \in 0 .. health, healthView' = healthView,
           watcher' \in {"none", "runner", "ticket"},
           pairing' = pairing \/ pairing' = NoPairing
    PROVE  HealthInv'
<1>1. HealthTypeOK /\ MaxHealth \in Nat /\ pairing.change \in 0 .. MaxHealth
  BY HealthAssumption DEF HealthInv, HealthTypeOK
<1>2. requests' \subseteq HealthRequests
  BY ReloadedRequests
<1>a. told' \in 0 .. MaxHealth
  BY <1>1 DEF HealthTypeOK
<1>b. pairing' \in [at: {"none", "sent", "done"}, change: 0 .. MaxHealth, here: BOOLEAN]
  <2>1. NoPairing \in [at: {"none", "sent", "done"}, change: 0 .. MaxHealth, here: BOOLEAN]
    BY <1>1 DEF NoPairing
  <2>2. pairing \in [at: {"none", "sent", "done"}, change: 0 .. MaxHealth, here: BOOLEAN]
    BY <1>1 DEF HealthTypeOK
  <2>. QED BY <2>1, <2>2
<1>3. HealthTypeOK'
  BY <1>1, <1>2, <1>a, <1>b DEF HealthTypeOK, HealthRequests, NoPairing
<1>4. \A r \in requests' : r.read <= health'
  BY <1>1, ReloadedRequests DEF HealthInv, HealthTypeOK, HealthUnread
<1>5. /\ \A r, s \in requests' : r.latest /\ s.latest => r = s
      /\ \A r \in requests' : r.latest => r.read = HealthUnread
  BY ReloadedRequests
<1>6. told' <= health' /\ pairing'.change <= health'
  BY <1>1 DEF HealthInv, HealthTypeOK, NoPairing
<1>. QED BY <1>3, <1>4, <1>5, <1>6 DEF HealthInv

LEMMA HealthInvInit == HealthInit => HealthInv
BY HealthAssumption DEF HealthInit, HealthInv, HealthTypeOK, NoPairing

\* One action after another.
LEMMA HealthInvStep == HealthInv /\ [HealthNext]_healthVars => HealthInv'
<1>. SUFFICES ASSUME HealthInv, [HealthNext]_healthVars PROVE HealthInv'
  OBVIOUS
<1>. USE HealthAssumption
<1>t. /\ health \in 0 .. MaxHealth /\ told \in 0 .. health /\ told \in 0 .. MaxHealth
      /\ pairing.change \in 0 .. health /\ requests \subseteq HealthRequests
  BY DEF HealthInv, HealthTypeOK, HealthRequests
<1>1. CASE HealthChanges
  <2>1. health' \in 0 .. MaxHealth /\ health' = health + 1
    BY <1>1, <1>t DEF HealthChanges
  <2>2. HealthTypeOK'
    BY <1>1, <2>1 DEF HealthChanges, HealthInv, HealthTypeOK
  <2>3. \A r \in requests : r.read <= health'
    BY <2>1, <1>t DEF HealthInv, HealthRequests, HealthUnread
  <2>. QED BY <1>1, <1>t, <2>1, <2>2, <2>3 DEF HealthChanges, HealthInv
<1>2. CASE GalleyPairs
  <2>1. health' \in 0 .. MaxHealth /\ health' = health + 1
    BY <1>2, <1>t DEF GalleyPairs
  <2>2. HealthTypeOK' /\ pairing'.change = health'
    BY <1>2, <2>1 DEF GalleyPairs, HealthInv, HealthTypeOK
  <2>3. \A r \in requests : r.read <= health'
    BY <2>1, <1>t DEF HealthInv, HealthRequests, HealthUnread
  <2>. QED BY <1>2, <1>t, <2>1, <2>2, <2>3 DEF GalleyPairs, HealthInv
<1>3. ASSUME NEW which \in {"runner", "ticket"}, ShowHealth(which) PROVE HealthInv'
  BY <1>3, <1>t, ReloadKept DEF ShowHealth
<1>4. CASE HideHealth
  <2>1. \A r \in requests' : /\ r \in HealthRequests /\ ~r.latest
                             /\ \E s \in requests : r.read = s.read
    BY <1>4, <1>t DEF HideHealth, Overtaken, HealthRequests
  <2>2. HealthTypeOK' /\ pairing'.change = pairing.change
    BY <1>4, <2>1, <1>t DEF HideHealth, HealthInv, HealthTypeOK, HealthRequests
  <2>. QED BY <1>4, <1>t, <2>1, <2>2 DEF HideHealth, HealthInv
<1>5. CASE HealthTick
  BY <1>5, <1>t, ReloadKept DEF HealthTick, HealthInv, HealthTypeOK
<1>6. CASE SubmitPairing
  <2>1. HealthTypeOK' /\ pairing'.change = 0
    BY <1>6, <1>t DEF SubmitPairing, HealthInv, HealthTypeOK
  <2>. QED BY <1>6, <2>1, <1>t DEF SubmitPairing, HealthInv
<1>7. CASE PairingAnswered
  <2>1. told' \in 0 .. health
    BY <1>7, <1>t DEF PairingAnswered, Larger
  <2>. QED BY <1>7, <2>1, ReloadKept DEF PairingAnswered, HealthInv, HealthTypeOK
<1>8. CASE PairingFails
  BY <1>8, <1>t, ReloadKept DEF PairingFails, HealthInv, HealthTypeOK
<1>9. ASSUME NEW r \in requests, GalleyReadsHealth(r) PROVE HealthInv'
  <2>. DEFINE read == [r EXCEPT !.read = health]
  <2>1. read \in HealthRequests /\ read.read = health /\ read.latest = r.latest
    BY <1>t DEF HealthRequests, HealthUnread
  <2>2. requests' = (requests \ {r}) \cup {read}
    BY <1>9 DEF GalleyReadsHealth
  <2>. HIDE DEF read
  <2>3. HealthTypeOK'
    BY <1>9, <1>t, <2>1, <2>2 DEF GalleyReadsHealth, HealthInv, HealthTypeOK, HealthRequests
  <2>4. \A q, s \in requests' : q.latest /\ s.latest => q = s
    BY <2>1, <2>2 DEF HealthInv
  <2>5. \A q \in requests' : /\ q.read <= health
                             /\ q.latest /\ q.read # HealthUnread => told <= q.read
    BY <1>t, <2>1, <2>2 DEF HealthInv
  <2>. QED BY <1>9, <1>t, <2>3, <2>4, <2>5 DEF GalleyReadsHealth, HealthInv
<1>10. ASSUME NEW r \in requests, HealthArrives(r) PROVE HealthInv'
  <2>1. /\ r.read \in 0 .. health /\ requests' = requests \ {r}
        /\ UNCHANGED <<health, watcher, pairing>>
    BY <1>10, <1>t DEF HealthArrives, HealthInv, HealthRequests, HealthUnread
  <2>2. CASE r.latest
    <3>1. healthView' = [kind |-> "loaded", health |-> r.read] /\ told' \in 0 .. health
      BY <1>10, <1>t, <2>1, <2>2 DEF HealthArrives, HealthShown, Larger
    <3>2. HealthTypeOK'
      BY <2>1, <3>1, <1>t DEF HealthInv, HealthTypeOK
    <3>3. \A s \in requests' : ~s.latest
      BY <2>1, <2>2 DEF HealthInv
    <3>. QED BY <1>t, <2>1, <3>1, <3>2, <3>3 DEF HealthInv
  <2>3. CASE ~r.latest
    BY <1>10, <2>1, <2>3 DEF HealthArrives, HealthShown, HealthInv, HealthTypeOK
  <2>. QED BY <2>2, <2>3
<1>11. ASSUME NEW r \in requests, HealthFails(r) PROVE HealthInv'
  BY <1>11 DEF HealthFails, HealthInv, HealthTypeOK
<1>12. CASE UNCHANGED healthVars
  BY <1>12 DEF healthVars, HealthInv, HealthTypeOK
<1>. QED BY <1>1, <1>2, <1>3, <1>4, <1>5, <1>6, <1>7, <1>8, <1>9, <1>10, <1>11, <1>12
     DEF HealthNext

\* What a step comes to show is no older than what was shown or told.
LEMMA ShownIsNotOlder ==
    ASSUME HealthInv, [HealthNext]_healthVars, healthView' # healthView, healthView'.kind = "loaded"
    PROVE  healthView'.health >= told
<1>1. PICK r \in requests : HealthArrives(r) \/ HealthFails(r)
  <2>1. ~HideHealth
    BY DEF HideHealth, HealthInv, HealthTypeOK
  <2>. QED BY <2>1
       DEF HealthNext, HealthChanges, GalleyPairs, ShowHealth, HealthTick, SubmitPairing,
           PairingAnswered, PairingFails, GalleyReadsHealth, healthVars
<1>2. ~HealthFails(r)
  BY DEF HealthFails, HealthInv, HealthTypeOK
<1>3. r.latest /\ r.read >= 0 /\ healthView' = [kind |-> "loaded", health |-> r.read]
  BY <1>1, <1>2 DEF HealthArrives, HealthShown
<1>. QED BY <1>3, HealthAssumption DEF HealthInv, HealthTypeOK, HealthUnread

\* The inductive invariant holds in every behaviour of the header.
THEOREM HealthInvariant == HealthSpec => []HealthInv
<1>. QED BY HealthInvInit, HealthInvStep, PTL DEF HealthSpec

\* No poll under way, and no request of a page that was left, shows a health
\* older than one shown, or told by a command's answer, before it (RunnerHealthPill.tsx).
THEOREM NeverOlderThanToldHolds == HealthSpec => NeverOlderThanTold
<1>1. HealthInv /\ [HealthNext]_healthVars =>
         [healthView' # healthView /\ healthView'.kind = "loaded" => healthView'.health >= told]_healthVars
  BY ShownIsNotOlder
<1>. QED BY <1>1, HealthInvariant, PTL DEF HealthSpec, NeverOlderThanTold
=============================================================================
