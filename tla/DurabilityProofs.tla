-------------------------- MODULE DurabilityProofs --------------------------
(***************************************************************************)
(* Proofs about what the harness experiments keep: the durable question,   *)
(* for any set of answers and any number of processes launched, and the    *)
(* usage records, for any set of generations and what each of them used.   *)
(***************************************************************************)
EXTENDS DurableInput, UsageRecords, FiniteSetTheorems, WellFoundedInduction, TLAPS

\* A process that runs the graph.
InTheGraph == process.at \in {"ready", "running", "entered", "answered", "applied"}

\* Process A loads the library before there is a snapshot; whoever runs the graph has the
\* prompt that the thread resumes with, and no model request was made with another.
InputsFixed ==
    /\ ~registered => snapshot = NoVersion
    /\ Runs("A", "loaded") => registered /\ snapshot = NoVersion /\ scenario = "fixed-inputs"
    /\ (InTheGraph \/ Runs("B", "loaded")) =>
          process.version = PromptOnResume /\ PromptOnResume # NoVersion
    /\ prompted \subseteq {PromptOnResume} \ {NoVersion}

\* A side effect that is about to be applied is of a human's answer.
AnswerInHand == At("answered") /\ AsksTheHuman => process.answer # NoAnswer

DurableInv == DurableTypeOK /\ InputsFixed /\ AnswerInHand /\ EffectOncePerAnswer

-----------------------------------------------------------------------------
(* The marker file.                                                        *)

\* A key that is appended only where it is not yet keeps the keys distinct.
LEMMA OnceMoreIsDistinct ==
    ASSUME marker \in Seq(Keys), IsInjective(marker), NEW key \in Keys, key \notin Range(marker)
    PROVE  Append(marker, key) \in Seq(Keys) /\ IsInjective(Append(marker, key))
<1>. DEFINE more == Append(marker, key)
<1>1. /\ more \in Seq(Keys) /\ DOMAIN more = DOMAIN marker \cup {Len(marker) + 1}
      /\ more[Len(marker) + 1] = key
      /\ \A i \in DOMAIN marker : more[i] = marker[i] /\ i # Len(marker) + 1
  OBVIOUS
<1>2. \A i \in DOMAIN marker : marker[i] # key
  BY DEF Range
<1>. HIDE DEF more
<1>3. IsInjective(more)
  BY <1>1, <1>2 DEF IsInjective
<1>. QED BY <1>1, <1>3 DEF more

\* Recording once, if at all, keeps the keys distinct.
LEMMA EffectApplied ==
    ASSUME DurableInv, ApplyEffect
    PROVE  marker' \in Seq(Keys) /\ IsInjective(marker')
<1>. USE DEF DurableInv
<1>1. marker \in Seq(Keys) /\ IsInjective(marker)
  BY DEF DurableTypeOK, EffectOncePerAnswer
<1>2. CASE marker' = marker
  BY <1>1, <1>2
<1>3. CASE scenario \in {"question", "fixed-inputs"} /\ marker' # marker
  <2>1. AsksTheHuman
    BY <1>3 DEF AsksTheHuman
  <2>2. process.answer # NoAnswer
    BY <2>1 DEF AnswerInHand, ApplyEffect
  <2>3. Key \in Keys
    BY <2>2 DEF Key, Keys, DurableTypeOK
  <2>4. Key \notin Range(marker) /\ marker' = Append(marker, Key)
    BY <1>3 DEF ApplyEffect, RecordSideEffectOnce
  <2>. QED BY <1>1, <2>3, <2>4, OnceMoreIsDistinct
<1>. QED BY <1>2, <1>3 DEF ApplyEffect

-----------------------------------------------------------------------------
(* The steps.                                                              *)

\* A process that exits leaves what the thread stands on as it is.
LEMMA ExitKept ==
    ASSUME DurableInv, Exits,
           UNCHANGED <<scenario, snapshot, library, marker, before, flagFile, launched, prompted>>,
           registered' \in BOOLEAN, registered => registered',
           verdict' \in Statuses, checkpoint' \in [next: Steps, interrupted: BOOLEAN]
    PROVE  DurableInv'
<1>1. process' = NoProcess /\ NoProcess.at = "exited"
  BY DEF Exits, NoProcess
<1>2. NoProcess \in [which: {"none", "A", "B", "recovery"},
                     at: {"exited", "connected", "loaded", "ready", "running", "entered",
                          "answered", "applied"},
                     version: LibraryVersions \cup {NoVersion},
                     pending: BOOLEAN, answer: Answers \cup {NoAnswer}]
  BY DEF NoProcess
<1>3. DurableTypeOK'
  BY <1>1, <1>2 DEF DurableInv, DurableTypeOK
<1>4. InputsFixed' /\ AnswerInHand' /\ EffectOncePerAnswer'
  BY <1>1 DEF DurableInv, InputsFixed, AnswerInHand, EffectOncePerAnswer, InTheGraph, Runs, At,
              PromptOnResume
<1>. QED BY <1>3, <1>4 DEF DurableInv

\* The experiment starts with nothing on disk.
LEMMA DurableInvInit == DurableInit => DurableInv
<1>. SUFFICES ASSUME DurableInit PROVE DurableInv
  OBVIOUS
<1>1. DurableTypeOK
  <2>1. process \in [which: {"none", "A", "B", "recovery"},
                     at: {"exited", "connected", "loaded", "ready", "running", "entered",
                          "answered", "applied"},
                     version: LibraryVersions \cup {NoVersion},
                     pending: BOOLEAN, answer: Answers \cup {NoAnswer}]
    BY DEF DurableInit, NoProcess
  <2>2. marker \in Seq(Keys)
    BY DEF DurableInit
  <2>3. launched \in 0 .. MaxLaunches
    BY AnswersAssumption DEF DurableInit
  <2>. QED BY <2>1, <2>2, <2>3 DEF DurableInit, DurableTypeOK, Statuses, Steps
<1>2. InputsFixed /\ AnswerInHand
  BY DEF DurableInit, InputsFixed, AnswerInHand, InTheGraph, NoProcess, Runs, At
<1>3. EffectOncePerAnswer
  BY DEF DurableInit, EffectOncePerAnswer, IsInjective
<1>. QED BY <1>1, <1>2, <1>3 DEF DurableInv

\* What happens outside the processes: launches, deaths, the Owner's edits, the flag.
LEMMA OutsideKept ==
    ASSUME DurableInv, LaunchA \/ LaunchB \/ LaunchRecovery \/ Killed \/ Publish \/ FlagAppears
    PROVE  DurableInv'
<1>. USE DEF DurableInv
<1>1. ASSUME NEW which \in {"A", "B", "recovery"}, NEW answer \in Answers \cup {NoAnswer},
             Launches(which, answer)
      PROVE  DurableInv'
  <2>1. /\ process' = [NoProcess EXCEPT !.which = which, !.at = "connected", !.answer = answer]
        /\ launched' = launched + 1 /\ launched < MaxLaunches
        /\ UNCHANGED <<scenario, registered, snapshot, library, checkpoint, marker, before,
                       flagFile, verdict, prompted>>
    BY <1>1 DEF Launches, durable
  <2>2. launched' \in 0 .. MaxLaunches
    BY <2>1, AnswersAssumption DEF DurableTypeOK
  <2>3. DurableTypeOK'
    BY <2>1, <2>2 DEF DurableTypeOK, NoProcess
  <2>4. InputsFixed' /\ AnswerInHand'
    BY <2>1 DEF InputsFixed, AnswerInHand, InTheGraph, NoProcess, Runs, At, PromptOnResume
  <2>5. EffectOncePerAnswer'
    BY <2>1 DEF EffectOncePerAnswer
  <2>. QED BY <2>3, <2>4, <2>5
<1>2. CASE LaunchA \/ LaunchB \/ LaunchRecovery
  BY <1>1, <1>2 DEF LaunchA, LaunchB, LaunchRecovery
<1>3. CASE Killed
  BY <1>3 DEF Killed, Exits, durable, DurableTypeOK, InputsFixed, AnswerInHand, InTheGraph,
              NoProcess, Runs, At, PromptOnResume, EffectOncePerAnswer
<1>4. CASE Publish \/ FlagAppears
  BY <1>4 DEF Publish, FlagAppears, durable, DurableTypeOK, InputsFixed, AnswerInHand,
              InTheGraph, Runs, At, PromptOnResume, AsksTheHuman, EffectOncePerAnswer
<1>. QED BY <1>2, <1>3, <1>4

\* Process A registers, fixes the inputs and begins the turn.
LEMMA ProcessAKept ==
    ASSUME DurableInv, Register \/ ReadLibrary \/ SaveSnapshot \/ BeginTurn
    PROVE  DurableInv'
<1>. USE DEF DurableInv, InTheGraph, Runs, At, PromptOnResume, Goes
<1>1. CASE Register
  <2>. USE <1>1 DEF Register
  <2>1. CASE registered
    BY <2>1, ExitKept DEF DurableTypeOK
  <2>2. CASE ~registered /\ scenario = "fixed-inputs"
    <3>1. process' = [process EXCEPT !.at = "loaded"]
      BY <2>2 DEF DurableTypeOK
    <3>. QED BY <2>2, <3>1 DEF DurableTypeOK, InputsFixed, AnswerInHand, EffectOncePerAnswer
  <2>3. CASE ~registered /\ scenario # "fixed-inputs"
    <3>1. process' = [process EXCEPT !.at = "ready", !.version = "A"]
      BY <2>3
    <3>2. DurableTypeOK'
      BY <2>3, <3>1 DEF DurableTypeOK, LibraryVersions
    <3>3. InputsFixed'
      BY <2>3, <3>1 DEF DurableTypeOK, InputsFixed, NoVersion
    <3>. QED BY <2>3, <3>1, <3>2, <3>3 DEF DurableTypeOK, AnswerInHand, EffectOncePerAnswer
  <2>. QED BY <2>1, <2>2, <2>3
<1>2. CASE ReadLibrary
  <2>0. Published \in LibraryVersions
    BY DEF Published, DurableTypeOK, LibraryVersions
  <2>1. DurableTypeOK'
    BY <1>2, <2>0 DEF ReadLibrary, DurableTypeOK
  <2>2. InputsFixed'
    BY <1>2 DEF ReadLibrary, InputsFixed, DurableTypeOK
  <2>3. AnswerInHand' /\ EffectOncePerAnswer'
    BY <1>2 DEF ReadLibrary, AnswerInHand, EffectOncePerAnswer, DurableTypeOK
  <2>. QED BY <2>1, <2>2, <2>3
<1>3. CASE SaveSnapshot
  <2>1. DurableTypeOK'
    BY <1>3 DEF SaveSnapshot, DurableTypeOK
  <2>2. snapshot' = process.version /\ prompted = {} /\ scenario = "fixed-inputs"
    BY <1>3 DEF SaveSnapshot, InputsFixed
  <2>3. InputsFixed'
    BY <1>3, <2>2 DEF SaveSnapshot, InputsFixed, DurableTypeOK
  <2>4. AnswerInHand' /\ EffectOncePerAnswer'
    BY <1>3 DEF SaveSnapshot, AnswerInHand, EffectOncePerAnswer, DurableTypeOK
  <2>. QED BY <2>1, <2>3, <2>4
<1>4. CASE BeginTurn
  BY <1>4 DEF BeginTurn, DurableTypeOK, InputsFixed, AnswerInHand, AsksTheHuman,
              EffectOncePerAnswer, Steps
<1>. QED BY <1>1, <1>2, <1>3, <1>4

\* Process B loads the snapshot and resumes; a recovery only classifies.
LEMMA ProcessBKept ==
    ASSUME DurableInv, LoadSnapshot \/ ReadPendingInterrupt \/ Resume \/ ContinueIfIntact
    PROVE  DurableInv'
<1>. USE DEF DurableInv, InTheGraph, Runs, At, PromptOnResume, Goes
<1>1. CASE LoadSnapshot
  <2>. USE <1>1 DEF LoadSnapshot, durable
  <2>1. CASE PromptOnResume = NoVersion
    BY <2>1, ExitKept DEF DurableTypeOK
  <2>2. CASE PromptOnResume # NoVersion
    <3>1. process' = [process EXCEPT !.at = "loaded", !.version = PromptOnResume]
      BY <2>2
    <3>2. PromptOnResume \in LibraryVersions
      BY <2>2 DEF DurableTypeOK, LibraryVersions
    <3>3. DurableTypeOK'
      BY <3>1, <3>2 DEF DurableTypeOK
    <3>4. InputsFixed' /\ AnswerInHand' /\ EffectOncePerAnswer'
      BY <2>2, <3>1 DEF DurableTypeOK, InputsFixed, AnswerInHand, EffectOncePerAnswer
    <3>. QED BY <3>3, <3>4
  <2>. QED BY <2>1, <2>2
<1>2. CASE ReadPendingInterrupt
  BY <1>2 DEF ReadPendingInterrupt, durable, DurableTypeOK, InputsFixed,
              AnswerInHand, AsksTheHuman, EffectOncePerAnswer
<1>3. CASE Resume
  <2>. USE <1>3 DEF Resume, durable
  <2>1. CASE checkpoint.next \in {"none", "done"}
    BY <2>1, ExitKept DEF DurableTypeOK
  <2>2. CASE checkpoint.next \notin {"none", "done"}
    BY <2>2 DEF DurableTypeOK, InputsFixed, AnswerInHand, AsksTheHuman, EffectOncePerAnswer
  <2>. QED BY <2>1, <2>2
<1>4. CASE ContinueIfIntact
  <2>1. Classification \in Statuses
    BY DEF Classification, Statuses
  <2>. QED BY <1>4, <2>1 DEF ContinueIfIntact, Exits, NoProcess, durable, DurableTypeOK,
              InputsFixed, AnswerInHand, AsksTheHuman, EffectOncePerAnswer
<1>. QED BY <1>1, <1>2, <1>3, <1>4

\* The graph's steps.
LEMMA GraphKept ==
    ASSUME DurableInv,
           \/ ModelRequest \/ EnterTool \/ Interrupt \/ AnswerReturns \/ ApplyEffect
           \/ CompleteTool \/ EndTurn
    PROVE  DurableInv'
<1>. USE DEF DurableInv, InTheGraph, Runs, At, PromptOnResume, Goes
<1>1. CASE ModelRequest
  <2>1. process.version \in LibraryVersions /\ prompted' = prompted \cup {process.version}
    BY <1>1 DEF ModelRequest, InputsFixed, DurableTypeOK
  <2>2. DurableTypeOK'
    BY <1>1, <2>1 DEF ModelRequest, DurableTypeOK, Steps
  <2>3. InputsFixed'
    BY <1>1, <2>1 DEF ModelRequest, InputsFixed
  <2>4. AnswerInHand' /\ EffectOncePerAnswer'
    BY <1>1 DEF ModelRequest, AnswerInHand, AsksTheHuman, EffectOncePerAnswer
  <2>. QED BY <2>2, <2>3, <2>4
<1>2. CASE EnterTool
  <2>1. before' \in Nat
    BY <1>2 DEF EnterTool, RecordBeforeInterrupt, DurableTypeOK
  <2>. QED BY <1>2, <2>1 DEF EnterTool, DurableTypeOK, InputsFixed, AnswerInHand,
              AsksTheHuman, EffectOncePerAnswer
<1>3. CASE Interrupt
  BY <1>3 DEF Interrupt, Exits, NoProcess, DurableTypeOK, InputsFixed, AnswerInHand,
              EffectOncePerAnswer
<1>4. CASE AnswerReturns
  BY <1>4 DEF AnswerReturns, durable, DurableTypeOK, InputsFixed, AnswerInHand, AsksTheHuman,
              EffectOncePerAnswer
<1>5. CASE ApplyEffect
  <2>1. marker' \in Seq(Keys) /\ IsInjective(marker')
    BY <1>5, EffectApplied
  <2>. QED BY <1>5, <2>1 DEF ApplyEffect, DurableTypeOK, InputsFixed, AnswerInHand,
              EffectOncePerAnswer
<1>6. CASE CompleteTool
  BY <1>6 DEF CompleteTool, DurableTypeOK, InputsFixed, AnswerInHand, AsksTheHuman,
              EffectOncePerAnswer, Steps
<1>7. CASE EndTurn
  BY <1>7 DEF EndTurn, Exits, NoProcess, durable, DurableTypeOK, InputsFixed, AnswerInHand,
              EffectOncePerAnswer
<1>. QED BY <1>1, <1>2, <1>3, <1>4, <1>5, <1>6, <1>7

-----------------------------------------------------------------------------
(* Theorems.                                                               *)

\* The inductive invariant holds in every behaviour of the thread.
THEOREM DurableInvariant == DurableSpec => []DurableInv
<1>1. DurableInv /\ [DurableNext]_threadVars => DurableInv'
  <2>. SUFFICES ASSUME DurableInv, [DurableNext]_threadVars PROVE DurableInv'
    OBVIOUS
  <2>1. CASE UNCHANGED threadVars
    BY <2>1 DEF threadVars, durable, DurableInv, DurableTypeOK, InputsFixed, AnswerInHand,
                InTheGraph, Runs, At, PromptOnResume, AsksTheHuman, EffectOncePerAnswer
  <2>. QED BY <2>1, OutsideKept, ProcessAKept, ProcessBKept, GraphKept DEF DurableNext
<1>. QED BY <1>1, DurableInvInit, PTL DEF DurableSpec

\* The side effect is applied once per interrupt and answer, wherever the processes that
\* carry the answer are killed and however often it is given (marker-store.ts).
THEOREM EffectOncePerAnswerHolds == DurableSpec => []EffectOncePerAnswer
<1>1. DurableInv => EffectOncePerAnswer
  BY DEF DurableInv
<1>. QED BY <1>1, DurableInvariant, PTL

\* Every model request is made with the inputs fixed at the Round's start, whatever is
\* published while it waits (execution-snapshot-store.ts).
THEOREM RoundKeepsItsInputsHolds == DurableSpec => []RoundKeepsItsInputs
<1>1. ASSUME DurableInv PROVE RoundKeepsItsInputs
  <2>1. prompted \subseteq {PromptOnResume}
    BY <1>1 DEF DurableInv, InputsFixed
  <2>2. IsFiniteSet({PromptOnResume}) /\ Cardinality({PromptOnResume}) = 1
    BY FS_Singleton
  <2>3. Cardinality(prompted) <= Cardinality({PromptOnResume})
    BY <2>1, <2>2, FS_Subset
  <2>. QED BY <2>2, <2>3 DEF RoundKeepsItsInputs
<1>. QED BY <1>1, DurableInvariant, PTL

-----------------------------------------------------------------------------
(* Sums.  A sum over a finite set is defined by choosing member after      *)
(* member; what is proved of it here is proved by taking the smallest set  *)
(* of which it would be false.                                             *)

One(s) == CHOOSE x \in s : TRUE

\* The function by which SumFunctionOnSet is defined.
SumsUp(iter, f, S) ==
    iter = [s \in SUBSET S |-> IF s = {} THEN 0 ELSE f[One(s)] + iter[s \ {One(s)}]]

\* A set that is not empty has one fewer members without the chosen one.
LEMMA WithoutOne ==
    ASSUME NEW s, s # {}, IsFiniteSet(s)
    PROVE  /\ One(s) \in s /\ IsFiniteSet(s \ {One(s)})
           /\ \A x \in s : /\ IsFiniteSet(s \ {x})
                           /\ Cardinality(s) \in Nat /\ Cardinality(s \ {x}) \in Nat
                           /\ Cardinality(s \ {x}) < Cardinality(s)
<1>1. One(s) \in s
  BY DEF One
<1>2. ASSUME NEW x \in s
      PROVE  /\ IsFiniteSet(s \ {x})
             /\ Cardinality(s) \in Nat /\ Cardinality(s \ {x}) \in Nat
             /\ Cardinality(s \ {x}) < Cardinality(s)
  <2>1. IsFiniteSet(s \ {x}) /\ Cardinality(s \ {x}) = Cardinality(s) - 1
    BY <1>2, FS_RemoveElement
  <2>2. Cardinality(s) \in Nat
    BY FS_CardinalityType
  <2>3. Cardinality(s \ {x}) \in Nat
    BY <2>1, FS_CardinalityType
  <2>. QED BY <2>1, <2>2, <2>3
<1>. QED BY <1>1, <1>2

\* Of the finite sets in a collection one has fewest members.
LEMMA SmallestSet ==
    ASSUME NEW C, C # {}, \A s \in C : IsFiniteSet(s)
    PROVE  \E s \in C : \A t \in C : ~(Cardinality(t) < Cardinality(s))
<1>. DEFINE sizes == {Cardinality(s) : s \in C}
<1>1. sizes \in SUBSET Nat /\ sizes # {}
  BY FS_CardinalityType
<1>2. PICK m \in sizes : \A n \in sizes : ~ (<<n, m>> \in OpToRel(<, Nat))
  BY <1>1, NatLessThanWellFounded, WFMin
<1>3. \A n \in sizes : ~(n < m)
  BY <1>1, <1>2 DEF OpToRel
<1>. QED BY <1>3

\* Two such functions agree where both are defined.
LEMMA SumsAgree ==
    ASSUME NEW f, NEW S, NEW T, NEW g, NEW h, SumsUp(g, f, S), SumsUp(h, f, T),
           NEW s, s \subseteq S, s \subseteq T, IsFiniteSet(s)
    PROVE  g[s] = h[s]
<1>. DEFINE differ == {t \in SUBSET s : g[t] # h[t]}
<1>1. SUFFICES ASSUME differ # {} PROVE FALSE
  OBVIOUS
<1>2. \A t \in differ : IsFiniteSet(t)
  BY FS_Subset
<1>3. PICK t \in differ : \A u \in differ : ~(Cardinality(u) < Cardinality(t))
  BY <1>1, <1>2, SmallestSet
<1>4. CASE t = {}
  BY <1>4 DEF SumsUp
<1>5. CASE t # {}
  <2>1. /\ One(t) \in t /\ Cardinality(t \ {One(t)}) < Cardinality(t)
    BY <1>2, <1>5, WithoutOne
  <2>2. t \ {One(t)} \in SUBSET s /\ t \ {One(t)} \notin differ
    BY <1>3, <2>1
  <2>3. g[t \ {One(t)}] = h[t \ {One(t)}]
    BY <2>2
  <2>4. /\ g[t] = f[One(t)] + g[t \ {One(t)}]
        /\ h[t] = f[One(t)] + h[t \ {One(t)}]
    BY <1>5 DEF SumsUp
  <2>. QED BY <2>3, <2>4
<1>. QED BY <1>4, <1>5

\* There is such a function on the subsets of every finite set.
LEMMA SumsExist ==
    ASSUME NEW f, NEW S, IsFiniteSet(S)
    PROVE  \E g : SumsUp(g, f, S)
<1>. DEFINE lacking == {T \in SUBSET S : ~\E g : SumsUp(g, f, T)}
<1>1. SUFFICES ASSUME lacking # {} PROVE FALSE
  OBVIOUS
<1>2. \A T \in SUBSET S : IsFiniteSet(T)
  BY FS_Subset
<1>3. PICK T \in lacking : \A U \in lacking : ~(Cardinality(U) < Cardinality(T))
  BY <1>1, <1>2, SmallestSet
<1>. DEFINE G(U) == CHOOSE g : SumsUp(g, f, U)
            rest(s) == s \ {One(s)}
            h == [s \in SUBSET T |-> IF s = {} THEN 0 ELSE f[One(s)] + G(rest(s))[rest(s)]]
<1>4. ASSUME NEW s \in SUBSET T, s # {}
      PROVE  /\ SumsUp(G(rest(s)), f, rest(s)) /\ rest(s) \subseteq T /\ IsFiniteSet(rest(s))
  <2>1. IsFiniteSet(s) /\ Cardinality(s) <= Cardinality(T) /\ Cardinality(T) \in Nat
    BY <1>2, FS_Subset, FS_CardinalityType
  <2>2. One(s) \in s /\ IsFiniteSet(rest(s)) /\ Cardinality(rest(s)) \in Nat
        /\ Cardinality(s) \in Nat /\ Cardinality(rest(s)) < Cardinality(s)
    BY <1>4, <2>1, WithoutOne
  <2>3. Cardinality(rest(s)) < Cardinality(T)
    BY <2>1, <2>2
  <2>4. rest(s) \in SUBSET S /\ rest(s) \notin lacking
    BY <1>3, <2>3
  <2>5. \E g : SumsUp(g, f, rest(s))
    BY <2>4
  <2>. QED BY <2>2, <2>5
<1>5. ASSUME NEW s \in SUBSET T, s # {} PROVE h[rest(s)] = G(rest(s))[rest(s)]
  <2>. DEFINE r == rest(s)
  <2>1. SumsUp(G(r), f, r) /\ r \in SUBSET T /\ IsFiniteSet(r)
    BY <1>4, <1>5
  <2>2. CASE r = {}
    BY <2>1, <2>2 DEF SumsUp
  <2>3. CASE r # {}
    <3>1. SumsUp(G(rest(r)), f, rest(r)) /\ rest(r) \subseteq r /\ IsFiniteSet(rest(r))
      BY <1>4, <2>1, <2>3
    <3>2. G(rest(r))[rest(r)] = G(r)[rest(r)]
      BY <2>1, <3>1, SumsAgree
    <3>3. G(r)[r] = f[One(r)] + G(r)[rest(r)]
      BY <2>1, <2>3 DEF SumsUp
    <3>4. h[r] = f[One(r)] + G(rest(r))[rest(r)]
      BY <2>1, <2>3
    <3>. QED BY <3>2, <3>3, <3>4
  <2>. QED BY <2>2, <2>3
<1>6. PICK k : k = h
  OBVIOUS
<1>. DEFINE value(s) == IF s = {} THEN 0 ELSE f[One(s)] + G(rest(s))[rest(s)]
            same(s) == IF s = {} THEN 0 ELSE f[One(s)] + k[rest(s)]
<1>7. ASSUME NEW s \in SUBSET T PROVE value(s) = same(s)
  <2>1. CASE s = {}
    BY <2>1
  <2>2. CASE s # {}
    <3>1. k[rest(s)] = G(rest(s))[rest(s)]
      BY <1>5, <1>6, <2>2
    <3>. QED BY <2>2, <3>1
  <2>. QED BY <2>1, <2>2
<1>8. k = [s \in SUBSET T |-> value(s)]
  BY <1>6
<1>9. [s \in SUBSET T |-> value(s)] = [s \in SUBSET T |-> same(s)]
  <2>. HIDE DEF value, same
  <2>. QED BY <1>7
<1>10. SumsUp(k, f, T)
  BY <1>8, <1>9 DEF SumsUp
<1>. QED BY <1>10

\* Nothing adds up to 0, and a sum is the chosen member's value and the others' sum.
LEMMA SumByTheChosen ==
    ASSUME NEW f, NEW S, IsFiniteSet(S)
    PROVE  /\ SumFunctionOnSet(f, {}) = 0
           /\ S # {} => SumFunctionOnSet(f, S)
                            = f[One(S)] + SumFunctionOnSet(f, S \ {One(S)})
<1>1. ASSUME NEW U, IsFiniteSet(U)
      PROVE  \E g : SumsUp(g, f, U) /\ SumFunctionOnSet(f, U) = g[U]
  <2>1. SumFunctionOnSet(f, U) = (CHOOSE iter : SumsUp(iter, f, U))[U]
    BY DEF MapThenFoldSet, SumsUp, One, SumFunctionOnSet, FoldFunctionOnSet
  <2>2. \E g : SumsUp(g, f, U)
    BY <1>1, SumsExist
  <2>. QED BY <2>1, <2>2
<1>2. SumFunctionOnSet(f, {}) = 0
  <2>1. PICK g : SumsUp(g, f, {}) /\ SumFunctionOnSet(f, {}) = g[{}]
    BY <1>1, FS_EmptySet
  <2>. QED BY <2>1 DEF SumsUp
<1>3. ASSUME S # {}
      PROVE  SumFunctionOnSet(f, S) = f[One(S)] + SumFunctionOnSet(f, S \ {One(S)})
  <2>. DEFINE rest == S \ {One(S)}
  <2>1. rest \subseteq S /\ IsFiniteSet(rest)
    BY <1>3, WithoutOne
  <2>2. PICK g : SumsUp(g, f, S) /\ SumFunctionOnSet(f, S) = g[S]
    BY <1>1
  <2>3. PICK h : SumsUp(h, f, rest) /\ SumFunctionOnSet(f, rest) = h[rest]
    BY <1>1, <2>1
  <2>4. g[rest] = h[rest]
    <3>. HIDE DEF rest
    <3>. QED BY <2>1, <2>2, <2>3, SumsAgree
  <2>5. g[S] = f[One(S)] + g[rest]
    BY <1>3, <2>2 DEF SumsUp
  <2>. QED BY <2>2, <2>3, <2>4, <2>5
<1>. QED BY <1>2, <1>3

\* Naturals add up to a natural.
LEMMA SumOfNaturals ==
    ASSUME NEW f, NEW S, IsFiniteSet(S), \A x \in S : f[x] \in Nat
    PROVE  SumFunctionOnSet(f, S) \in Nat
<1>. DEFINE failing == {T \in SUBSET S : SumFunctionOnSet(f, T) \notin Nat}
<1>1. SUFFICES ASSUME failing # {} PROVE FALSE
  OBVIOUS
<1>2. \A T \in SUBSET S : IsFiniteSet(T)
  BY FS_Subset
<1>3. PICK T \in failing : \A U \in failing : ~(Cardinality(U) < Cardinality(T))
  BY <1>1, <1>2, SmallestSet
<1>4. T # {}
  <2>1. SumFunctionOnSet(f, {}) = 0
    BY FS_EmptySet, SumByTheChosen
  <2>. QED BY <1>3, <2>1
<1>5. One(T) \in T /\ Cardinality(T \ {One(T)}) < Cardinality(T)
  BY <1>2, <1>4, WithoutOne
<1>6. SumFunctionOnSet(f, T \ {One(T)}) \in Nat /\ f[One(T)] \in Nat
  BY <1>3, <1>5
<1>7. SumFunctionOnSet(f, T) = f[One(T)] + SumFunctionOnSet(f, T \ {One(T)})
  BY <1>2, <1>4, SumByTheChosen
<1>. QED BY <1>3, <1>6, <1>7

\* A sum is any member's value and the others' sum: the order does not matter.
LEMMA SumByAny ==
    ASSUME NEW f, NEW S, IsFiniteSet(S), \A x \in S : f[x] \in Nat, NEW y \in S
    PROVE  SumFunctionOnSet(f, S) = f[y] + SumFunctionOnSet(f, S \ {y})
<1>. DEFINE failing == {T \in SUBSET S : \E x \in T :
                            SumFunctionOnSet(f, T) # f[x] + SumFunctionOnSet(f, T \ {x})}
<1>1. SUFFICES ASSUME failing # {} PROVE FALSE
  OBVIOUS
<1>2. \A T \in SUBSET S : IsFiniteSet(T)
  BY FS_Subset
<1>3. PICK T \in failing : \A U \in failing : ~(Cardinality(U) < Cardinality(T))
  BY <1>1, <1>2, SmallestSet
<1>4. PICK x \in T : SumFunctionOnSet(f, T) # f[x] + SumFunctionOnSet(f, T \ {x})
  BY <1>3
<1>5. PICK o : o = One(T)
  OBVIOUS
<1>6. /\ o \in T /\ Cardinality(T \ {o}) < Cardinality(T)
      /\ Cardinality(T \ {x}) < Cardinality(T)
  BY <1>2, <1>4, <1>5, WithoutOne
<1>7. SumFunctionOnSet(f, T) = f[o] + SumFunctionOnSet(f, T \ {o})
  BY <1>2, <1>4, <1>5, SumByTheChosen
<1>8. x # o
  BY <1>4, <1>7
<1>9. SumFunctionOnSet(f, T \ {o}) = f[x] + SumFunctionOnSet(f, (T \ {o}) \ {x})
  BY <1>3, <1>4, <1>6, <1>8
<1>10. SumFunctionOnSet(f, T \ {x}) = f[o] + SumFunctionOnSet(f, (T \ {x}) \ {o})
  BY <1>3, <1>4, <1>6, <1>8
<1>11. PICK rest : rest = (T \ {o}) \ {x} /\ rest = (T \ {x}) \ {o}
  OBVIOUS
<1>12. SumFunctionOnSet(f, rest) \in Nat /\ f[x] \in Nat /\ f[o] \in Nat
  BY <1>2, <1>4, <1>6, <1>11, SumOfNaturals
<1>. QED BY <1>4, <1>7, <1>9, <1>10, <1>11, <1>12

\* Where each member of one set stands for another of the other, and weighs no more
\* than it, the one sum is no more than the other; and the same if all weigh the same.
LEMMA SumsCompared ==
    ASSUME NEW S, IsFiniteSet(S), NEW T, IsFiniteSet(T), NEW b \in Injection(S, T),
           NEW f, NEW w, \A x \in S : f[x] \in Nat, \A y \in T : w[y] \in Nat,
           \A x \in S : f[x] <= w[b[x]]
    PROVE  /\ SumFunctionOnSet(f, S) <= SumFunctionOnSet(w, Range(b))
           /\ (\A x \in S : f[x] = w[b[x]]) =>
                  SumFunctionOnSet(f, S) = SumFunctionOnSet(w, Range(b))
<1>. DEFINE img(U) == {b[x] : x \in U}
            lower(U) == SumFunctionOnSet(f, U)
            upper(U) == SumFunctionOnSet(w, img(U))
            fits(U) == lower(U) <= upper(U)
                       /\ ((\A x \in S : f[x] = w[b[x]]) => lower(U) = upper(U))
            failing == {U \in SUBSET S : ~fits(U)}
<1>1. SUFFICES ASSUME failing # {} PROVE FALSE
  <2>1. img(S) = Range(b)
    BY DEF Range, Injection
  <2>. QED BY <2>1
<1>2. \A U \in SUBSET S : IsFiniteSet(U)
  BY FS_Subset
<1>3. PICK U \in failing : \A V \in failing : ~(Cardinality(V) < Cardinality(U))
  <2>. HIDE DEF failing
  <2>1. \A V \in failing : IsFiniteSet(V)
    BY <1>2 DEF failing
  <2>. QED BY <1>1, <2>1, SmallestSet
<1>4. U # {}
  <2>1. SUFFICES ASSUME U = {} PROVE FALSE
    OBVIOUS
  <2>2. img(U) = {}
    BY <2>1
  <2>3. lower(U) = 0 /\ upper(U) = 0
    BY <2>1, <2>2, FS_EmptySet, SumByTheChosen
  <2>. QED BY <1>3, <2>3
<1>5. PICK o : o \in U
  BY <1>4
<1>6. PICK rest : rest = U \ {o}
  OBVIOUS
<1>7. rest \in SUBSET S /\ fits(rest)
  <2>1. Cardinality(rest) < Cardinality(U)
    BY <1>2, <1>5, <1>6, WithoutOne
  <2>. QED BY <1>3, <1>6, <2>1
<1>8. /\ b[o] \in img(U) /\ img(U) \ {b[o]} = img(rest)
      /\ img(U) \subseteq T /\ img(rest) \subseteq T
  BY <1>5, <1>6 DEF Injection, IsInjective
<1>9. lower(U) = f[o] + lower(rest)
  BY <1>2, <1>5, <1>6, SumByAny
<1>10. IsFiniteSet(img(U)) /\ IsFiniteSet(img(rest))
  BY <1>8, FS_Subset
<1>11. upper(U) = w[b[o]] + upper(rest)
  <2>. DEFINE image == img(U)
  <2>1. IsFiniteSet(image) /\ b[o] \in image /\ \A y \in image : w[y] \in Nat
    BY <1>8, <1>10
  <2>2. SumFunctionOnSet(w, image) = w[b[o]] + SumFunctionOnSet(w, image \ {b[o]})
    <3>. HIDE DEF image
    <3>. QED BY <2>1, SumByAny
  <2>. QED BY <1>8, <2>2
<1>12. lower(rest) \in Nat /\ upper(rest) \in Nat
  BY <1>2, <1>7, <1>8, <1>10, SumOfNaturals
<1>13. f[o] \in Nat /\ w[b[o]] \in Nat /\ f[o] <= w[b[o]] /\ o \in S
  BY <1>5, <1>8
<1>. QED BY <1>3, <1>7, <1>9, <1>11, <1>12, <1>13

-----------------------------------------------------------------------------
(* Usage: what holds of what is read and of the records.                   *)

\* The readings there are, and what can be known of a generation.
AnyReading == UNION {Readings(g) : g \in Generations}
KnownOfIt == [round : UsageRounds \cup {0}, message : AnyReading, captured : BOOLEAN,
              capture : AnyReading]

\* What is kept of a generation are readings of it.
ReadingsAreOfTheGeneration ==
    /\ generated \in [Generations -> KnownOfIt]
    /\ \A g \in Generations :
          generated[g].message \in Readings(g) /\ generated[g].capture \in Readings(g)

\* A record holds a reading of a generation, in the Round in which that was made, and was
\* handed over as such.
RecordsAreReadings ==
    \A u \in usages : \E g \in Generations :
        /\ u.reading \in Readings(g) /\ Made(g) /\ u.round = generated[g].round
        /\ [of |-> g, as |-> u.reading.id] \in handed

\* What was handed over has its record, or was dropped for another of the same id.
HandedAreRecorded ==
    \A h \in handed : /\ h.of \in Generations /\ Made(h.of)
                      /\ \E u \in usages : u.reading.id = h.as

\* generation_id is unique.
OneRecordEach == \A u, v \in usages : u.reading.id = v.reading.id => u = v

UsageInv ==
    /\ ReadingsAreOfTheGeneration
    /\ IsFiniteSet(usages) /\ RecordsAreReadings /\ HandedAreRecorded
    /\ OneRecordEach /\ deaths \in 0 .. MaxDeaths

\* Nothing read is a reading of every generation.
LEMMA NoReadingIsOfAny ==
    \A g \in Generations : NoReading \in Readings(g) /\ Readings(g) \subseteq AnyReading
  BY DEF NoReading, Readings, AnyReading

\* What can be observed of a generation is a reading of it.
LEMMA ObservedIsRead ==
    ASSUME ReadingsAreOfTheGeneration, NEW g \in Generations
    PROVE  ObservationsOf(g) \subseteq Readings(g)
<1>1. generated[g].message \in Readings(g) /\ generated[g].capture \in Readings(g)
  BY DEF ReadingsAreOfTheGeneration
<1>2. ASSUME NEW a \in Readings(g), NEW b \in Readings(g) PROVE Merged(a, b) \in Readings(g)
  BY DEF Readings, Merged, Pick
<1>. QED BY <1>1, <1>2 DEF ObservationsOf, FromAdapter, FromCapture

\* Before anything is generated nothing is recorded.
LEMMA UsageInvInit == UsageInit => UsageInv
<1>. SUFFICES ASSUME UsageInit PROVE UsageInv
  OBVIOUS
<1>. USE DEF UsageInit
<1>1. ReadingsAreOfTheGeneration
  BY NoReadingIsOfAny DEF ReadingsAreOfTheGeneration, KnownOfIt
<1>2. IsFiniteSet(usages) /\ RecordsAreReadings /\ HandedAreRecorded /\ OneRecordEach
  BY FS_EmptySet DEF RecordsAreReadings, HandedAreRecorded, OneRecordEach
<1>3. deaths \in 0 .. MaxDeaths
  BY UsageAssumption
<1>. QED BY <1>1, <1>2, <1>3 DEF UsageInv

\* A model call leaves readings of its generation, and the records as they were.
LEMMA ModelCallKeeps ==
    ASSUME UsageInv, NEW g \in Generations, NEW r \in UsageRounds, ModelCall(g, r)
    PROVE  UsageInv'
<1>. USE DEF UsageInv
<1>1. PICK sent \in Readings(g), message \in Readings(g), captured \in BOOLEAN :
          generated' = [generated EXCEPT ![g] =
                [round |-> r, message |-> message, captured |-> captured,
                 capture |-> IF captured THEN sent ELSE NoReading]]
  BY DEF ModelCall
<1>2. ReadingsAreOfTheGeneration'
  <2>. DEFINE known == [round |-> r, message |-> message, captured |-> captured,
                        capture |-> IF captured THEN sent ELSE NoReading]
  <2>1. known.message \in Readings(g) /\ known.capture \in Readings(g)
    BY NoReadingIsOfAny
  <2>2. known \in KnownOfIt
    BY <2>1, NoReadingIsOfAny DEF KnownOfIt
  <2>. HIDE DEF known
  <2>3. generated' = [generated EXCEPT ![g] = known]
    BY <1>1 DEF known
  <2>. QED BY <2>1, <2>2, <2>3 DEF ReadingsAreOfTheGeneration
<1>3. ASSUME NEW h \in Generations, Made(h) PROVE generated'[h] = generated[h]
  BY <1>1, <1>3 DEF ModelCall, ReadingsAreOfTheGeneration
<1>4. usages' = usages /\ handed' = handed /\ deaths' = deaths
  BY DEF ModelCall
<1>5. RecordsAreReadings' /\ HandedAreRecorded'
  BY <1>3, <1>4 DEF RecordsAreReadings, HandedAreRecorded, Made
<1>. QED BY <1>2, <1>4, <1>5 DEF OneRecordEach

\* The process's death takes captures and the messages' tokens, and no Round or record.
LEMMA ProcessDiesKeeps == ASSUME UsageInv, ProcessDies PROVE UsageInv'
<1>. USE DEF UsageInv
<1>. DEFINE Kept(g) == [generated[g] EXCEPT !.message = Reloaded(generated[g].message),
                                            !.captured = FALSE, !.capture = NoReading]
<1>1. ASSUME NEW g \in Generations
      PROVE  /\ Kept(g).round = generated[g].round /\ Kept(g).message \in Readings(g)
             /\ Kept(g).capture = NoReading /\ Kept(g) \in KnownOfIt
  <2>1. generated[g] \in KnownOfIt /\ NoReading \in AnyReading
    BY NoReadingIsOfAny DEF ReadingsAreOfTheGeneration
  <2>2. Reloaded(generated[g].message) \in Readings(g)
    BY DEF ReadingsAreOfTheGeneration, Reloaded, Readings
  <2>3. Reloaded(generated[g].message) \in AnyReading
    BY <2>2, NoReadingIsOfAny
  <2>. QED BY <2>1, <2>2, <2>3 DEF KnownOfIt
<1>2. generated' = [g \in Generations |-> Kept(g)]
  BY DEF ProcessDies
<1>. HIDE DEF Kept
<1>3. ReadingsAreOfTheGeneration'
  BY <1>1, <1>2, NoReadingIsOfAny DEF ReadingsAreOfTheGeneration
<1>4. usages' = usages /\ handed' = handed
  BY DEF ProcessDies
<1>5. RecordsAreReadings' /\ HandedAreRecorded'
  <2>1. ASSUME NEW g \in Generations
        PROVE  generated'[g].round = generated[g].round
    BY <1>1, <1>2
  <2>. QED BY <1>4, <2>1 DEF RecordsAreReadings, HandedAreRecorded, Made
<1>6. deaths' \in 0 .. MaxDeaths
  <2>1. deaths < MaxDeaths /\ deaths' = deaths + 1
    BY DEF ProcessDies
  <2>. QED BY <2>1, UsageAssumption
<1>. QED BY <1>3, <1>4, <1>5, <1>6 DEF OneRecordEach

\* What is recorded is a reading, and the only one of its id.
LEMMA RecordKeeps == ASSUME UsageInv, NEW g \in Generations, Record(g) PROVE UsageInv'
<1>. USE DEF UsageInv
<1>1. PICK reading \in ObservationsOf(g) :
          /\ Inserted([round |-> generated[g].round, reading |-> reading])
          /\ handed' = handed \cup {[of |-> g, as |-> reading.id]}
  BY DEF Record
<1>. DEFINE row == [round |-> generated[g].round, reading |-> reading]
<1>2. generated' = generated /\ deaths' = deaths /\ Made(g) /\ reading \in Readings(g)
  BY ObservedIsRead DEF Record
<1>3. PICK h : h = [of |-> g, as |-> reading.id]
  OBVIOUS
<1>4. handed' = handed \cup {h} /\ h.of = g /\ h.as = reading.id
  BY <1>1, <1>3
<1>5. row.round = generated[g].round /\ row.reading = reading
  OBVIOUS
<1>6. /\ (\E u \in usages : u.reading.id = reading.id) => usages' = usages
      /\ ~(\E u \in usages : u.reading.id = reading.id) => usages' = usages \cup {row}
  BY <1>1 DEF Inserted
<1>. HIDE DEF row
<1>7. \E u \in usages' : u.reading.id = reading.id
  BY <1>5, <1>6
<1>8. IsFiniteSet(usages')
  BY <1>6, FS_AddElement
<1>9. RecordsAreReadings'
  <2>1. ASSUME NEW u \in usages
        PROVE  \E f \in Generations :
                  /\ u.reading \in Readings(f) /\ Made(f)' /\ u.round = generated'[f].round
                  /\ [of |-> f, as |-> u.reading.id] \in handed'
    BY <1>2, <1>4, <2>1 DEF RecordsAreReadings, Made
  <2>2. /\ row.reading \in Readings(g) /\ Made(g)' /\ row.round = generated'[g].round
        /\ [of |-> g, as |-> row.reading.id] \in handed'
    BY <1>2, <1>3, <1>4, <1>5 DEF Made
  <2>. QED BY <1>6, <2>1, <2>2 DEF RecordsAreReadings
<1>10. HandedAreRecorded'
  <2>1. usages \subseteq usages'
    BY <1>6
  <2>. QED BY <1>2, <1>4, <1>7, <2>1 DEF HandedAreRecorded, Made
<1>11. OneRecordEach'
  BY <1>5, <1>6 DEF OneRecordEach
<1>12. ReadingsAreOfTheGeneration'
  BY <1>2 DEF ReadingsAreOfTheGeneration
<1>. QED BY <1>2, <1>8, <1>9, <1>10, <1>11, <1>12

\* What is kept of a generation are readings of it, and the records hold such readings,
\* one for each id, in the Rounds of their generations: through deaths of the process
\* and however often a generation is observed.
THEOREM UsageInvariant == UsageSpec => []UsageInv
<1>1. ASSUME UsageInv, [UsageNext]_usageVars PROVE UsageInv'
  <2>1. CASE ProcessDies
    BY <1>1, <2>1, ProcessDiesKeeps
  <2>2. ASSUME NEW g \in Generations, Record(g) PROVE UsageInv'
    BY <1>1, <2>2, RecordKeeps
  <2>3. ASSUME NEW g \in Generations, NEW r \in UsageRounds, ModelCall(g, r) PROVE UsageInv'
    BY <1>1, <2>3, ModelCallKeeps
  <2>4. CASE UNCHANGED usageVars
    BY <1>1, <2>4 DEF usageVars, UsageInv, ReadingsAreOfTheGeneration,
                      RecordsAreReadings, HandedAreRecorded, OneRecordEach, Made
  <2>. QED BY <1>1, <2>1, <2>2, <2>3, <2>4 DEF UsageNext
<1>. QED BY UsageInvInit, <1>1, PTL DEF UsageSpec

-----------------------------------------------------------------------------
(* Usage: the totals.                                                      *)

RowsOf(r) == {u \in usages : u.round = r}

\* The generation a row counts, where `other` is the one that was recorded without an id.
Counted(id, other) == IF id = NoGeneration THEN other ELSE id

\* A Round's rows stand for distinct generations, those handed over under their id, and
\* one at most for another; what a row tells of one field is what the generation used,
\* or nothing.
LEMMA RowsStandForGenerations ==
    ASSUME UsageInv, NEW r \in UsageRounds
    PROVE  /\ IsFiniteSet(RowsOf(r))
           /\ \E b \in Injection(RowsOf(r), Generations \cup {NoGeneration}),
                 other \in UnnamedOf(r) \cup {NoGeneration} :
                 /\ \A u \in RowsOf(r) : b[u] = u.reading.id
                 /\ Range(b) \ {NoGeneration} = NamedOf(r)
                 /\ NoGeneration \notin Range(b) => other = NoGeneration
                 /\ \A u \in RowsOf(r) :
                       /\ u.reading.tokens
                             \in {UsedBy(Tokens, Counted(u.reading.id, other)), Unknown}
                       /\ u.reading.cost
                             \in {UsedBy(Costs, Counted(u.reading.id, other)), Unknown}
<1>. USE DEF UsageInv
<1>1. IsFiniteSet(RowsOf(r))
  BY FS_Subset DEF RowsOf
<1>2. PICK b : b = [u \in RowsOf(r) |-> u.reading.id]
  OBVIOUS
<1>3. NoGeneration \notin Generations /\ Generations \subseteq Nat
  BY UsageAssumption
<1>4. ASSUME NEW u \in RowsOf(r)
      PROVE  \E g \in Generations :
                /\ u.reading.id \in {g, NoGeneration} /\ generated[g].round = r
                /\ u.reading.tokens \in {Tokens[g], Unknown}
                /\ u.reading.cost \in {Costs[g], Unknown}
                /\ [of |-> g, as |-> u.reading.id] \in handed
  BY DEF RecordsAreReadings, RowsOf, Readings
<1>5. b \in Injection(RowsOf(r), Generations \cup {NoGeneration})
  <2>1. b \in [RowsOf(r) -> Generations \cup {NoGeneration}]
    BY <1>2, <1>4
  <2>2. \A u, v \in RowsOf(r) : b[u] = b[v] => u = v
    BY <1>2 DEF OneRecordEach, RowsOf
  <2>. QED BY <2>1, <2>2 DEF Injection, IsInjective
<1>6. Range(b) \ {NoGeneration} = NamedOf(r)
  <2>1. ASSUME NEW g \in NamedOf(r) PROVE g \in Range(b) \ {NoGeneration}
    <3>1. PICK h \in handed : h = [of |-> g, as |-> g]
      BY DEF NamedOf
    <3>2. g \in Generations /\ generated[g].round = r /\ h.as = g
      BY <3>1 DEF NamedOf
    <3>3. PICK u \in usages : u.reading.id = g
      BY <3>2 DEF HandedAreRecorded
    <3>4. PICK f \in Generations : u.reading \in Readings(f) /\ u.round = generated[f].round
      BY DEF RecordsAreReadings
    <3>5. f = g
      BY <1>3, <3>2, <3>3, <3>4 DEF Readings
    <3>. QED BY <1>2, <1>3, <3>2, <3>3, <3>4, <3>5 DEF RowsOf, Range
  <2>2. ASSUME NEW u \in RowsOf(r), u.reading.id # NoGeneration
        PROVE  u.reading.id \in NamedOf(r)
    <3>1. PICK g \in Generations :
             /\ u.reading.id \in {g, NoGeneration} /\ generated[g].round = r
             /\ [of |-> g, as |-> u.reading.id] \in handed
      BY <1>4
    <3>. QED BY <2>2, <3>1 DEF NamedOf
  <2>3. \A g : g \in Range(b) <=> \E u \in RowsOf(r) : u.reading.id = g
    BY <1>2 DEF Range
  <2>. QED BY <2>1, <2>2, <2>3
<1>7. \A u \in RowsOf(r) : b[u] = u.reading.id
  BY <1>2
<1>8. ASSUME NEW u \in RowsOf(r), u.reading.id # NoGeneration, NEW other
      PROVE  /\ u.reading.tokens \in {UsedBy(Tokens, Counted(u.reading.id, other)), Unknown}
             /\ u.reading.cost \in {UsedBy(Costs, Counted(u.reading.id, other)), Unknown}
  <2>1. PICK g \in Generations :
             /\ u.reading.id = g /\ u.reading.tokens \in {Tokens[g], Unknown}
             /\ u.reading.cost \in {Costs[g], Unknown}
    BY <1>4, <1>8
  <2>2. Counted(u.reading.id, other) = g /\ UsedBy(Tokens, g) = Tokens[g]
        /\ UsedBy(Costs, g) = Costs[g]
    BY <1>3, <1>8, <2>1 DEF Counted, UsedBy
  <2>. QED BY <2>1, <2>2
<1>9. CASE NoGeneration \notin Range(b)
  <2>1. \A u \in RowsOf(r) : u.reading.id # NoGeneration
    BY <1>2, <1>9 DEF Range
  <2>2. NoGeneration \in UnnamedOf(r) \cup {NoGeneration}
    OBVIOUS
  <2>. QED BY <1>1, <1>5, <1>6, <1>7, <1>8, <2>1, <2>2
<1>10. CASE NoGeneration \in Range(b)
  <2>1. PICK v \in RowsOf(r) : v.reading.id = NoGeneration
    BY <1>2, <1>10 DEF Range
  <2>2. PICK g \in Generations :
             /\ generated[g].round = r /\ [of |-> g, as |-> NoGeneration] \in handed
             /\ v.reading.tokens \in {Tokens[g], Unknown}
             /\ v.reading.cost \in {Costs[g], Unknown}
    BY <1>4, <2>1
  <2>3. g \in UnnamedOf(r) \cup {NoGeneration}
    BY <2>2 DEF UnnamedOf
  <2>4. \A u \in RowsOf(r) : u.reading.id = NoGeneration => u = v
    BY <2>1 DEF OneRecordEach, RowsOf
  <2>5. Counted(NoGeneration, g) = g /\ UsedBy(Tokens, g) = Tokens[g]
        /\ UsedBy(Costs, g) = Costs[g]
    BY <1>3 DEF Counted, UsedBy
  <2>6. ASSUME NEW u \in RowsOf(r)
        PROVE  /\ u.reading.tokens \in {UsedBy(Tokens, Counted(u.reading.id, g)), Unknown}
               /\ u.reading.cost \in {UsedBy(Costs, Counted(u.reading.id, g)), Unknown}
    BY <1>8, <2>1, <2>2, <2>4, <2>5
  <2>. QED BY <1>1, <1>5, <1>6, <1>7, <1>10, <2>3, <2>6
<1>. QED BY <1>9, <1>10

\* Where two functions agree, so do their sums.
LEMMA SumsOfTheSame ==
    ASSUME NEW S, IsFiniteSet(S), NEW f, NEW w, \A x \in S : f[x] \in Nat /\ f[x] = w[x]
    PROVE  SumFunctionOnSet(f, S) = SumFunctionOnSet(w, S)
<1>1. PICK b : b = [x \in S |-> x]
  OBVIOUS
<1>2. b \in Injection(S, S) /\ Range(b) = S
  BY <1>1 DEF Injection, IsInjective, Range
<1>3. \A x \in S : f[x] = w[b[x]] /\ f[x] <= w[b[x]] /\ f[x] \in Nat /\ w[x] \in Nat
  BY <1>1
<1>4. (\A x \in S : f[x] = w[b[x]]) =>
         SumFunctionOnSet(f, S) = SumFunctionOnSet(w, Range(b))
  BY <1>2, <1>3, SumsCompared
<1>. QED BY <1>2, <1>3, <1>4

\* What the rows count of one field, is what was used by the generations they stand for.
LEMMA SumOfTheCounted ==
    ASSUME NEW used \in [Generations -> Nat], NEW other \in Generations \cup {NoGeneration},
           NEW ids \in SUBSET (Generations \cup {NoGeneration}),
           NoGeneration \notin ids => other = NoGeneration,
           NEW w, w = [id \in Generations \cup {NoGeneration} |-> UsedBy(used, Counted(id, other))]
    PROVE  /\ SumFunctionOnSet(w, ids)
                  = SumFunctionOnSet(used, ids \ {NoGeneration}) + UsedBy(used, other)
           /\ \A id \in Generations \cup {NoGeneration} : w[id] \in Nat
<1>. DEFINE named == ids \ {NoGeneration}
<1>1. NoGeneration \notin Generations /\ IsFiniteSet(Generations)
  BY UsageAssumption
<1>2. \A id \in Generations \cup {NoGeneration} : w[id] \in Nat
  BY <1>1 DEF UsedBy, Counted
<1>3. /\ IsFiniteSet(Generations \cup {NoGeneration}) /\ IsFiniteSet(ids)
      /\ IsFiniteSet(named) /\ named \subseteq Generations
  <2>1. IsFiniteSet(Generations \cup {NoGeneration})
    BY <1>1, FS_AddElement
  <2>. QED BY <2>1, FS_Subset
<1>4. \A g \in named : w[g] = used[g] /\ used[g] \in Nat /\ w[g] \in Nat
  BY <1>1, <1>2, <1>3 DEF UsedBy, Counted
<1>5. SumFunctionOnSet(w, named) = SumFunctionOnSet(used, named)
  <2>. HIDE DEF named
  <2>. QED BY <1>3, <1>4, SumsOfTheSame
<1>6. SumFunctionOnSet(used, named) \in Nat
  BY <1>3, <1>4, SumOfNaturals
<1>7. w[NoGeneration] = UsedBy(used, other) /\ UsedBy(used, other) \in Nat
  BY <1>1, <1>2 DEF Counted
<1>8. CASE NoGeneration \in ids
  <2>1. SumFunctionOnSet(w, ids) = w[NoGeneration] + SumFunctionOnSet(w, named)
    BY <1>2, <1>3, <1>8, SumByAny
  <2>. QED BY <1>2, <1>5, <1>6, <1>7, <2>1
<1>9. CASE NoGeneration \notin ids
  <2>1. named = ids /\ UsedBy(used, other) = 0
    BY <1>9 DEF UsedBy
  <2>2. SumFunctionOnSet(w, ids) = SumFunctionOnSet(used, named)
    <3>. HIDE DEF named
    <3>. QED BY <1>5, <2>1
  <2>3. SumFunctionOnSet(used, named) = SumFunctionOnSet(used, named) + 0
    BY <1>6
  <2>. QED BY <1>2, <2>1, <2>2, <2>3
<1>. QED BY <1>8, <1>9

\* What each of the rows tells of one field is what was used by the generation that it
\* stands for, or nothing; b tells the ids they stand for, which are `ids`.
FieldTold(rows, told, used, other, b, ids) ==
    /\ IsFiniteSet(rows) /\ DOMAIN told = rows /\ used \in [Generations -> Nat]
    /\ b \in Injection(rows, Generations \cup {NoGeneration}) /\ ids = Range(b)
    /\ other \in Generations \cup {NoGeneration}
    /\ NoGeneration \notin ids => other = NoGeneration
    /\ \A u \in rows : told[u] \in {UsedBy(used, Counted(b[u], other)), Unknown}

\* One field's total: no more than what the counted generations used, and that if every
\* row knows it.
LEMMA FieldsTotal ==
    ASSUME NEW rows, NEW told, NEW used, NEW other, NEW b, NEW ids,
           FieldTold(rows, told, used, other, b, ids)
    PROVE  LET sum == SumFunction([u \in rows |-> Known(told[u])])
               all == SumFunctionOnSet(used, ids \ {NoGeneration}) + UsedBy(used, other)
           IN  /\ sum <= all
               /\ (\A u \in rows : told[u] # Unknown) => sum = all
<1>. USE DEF FieldTold
<1>. DEFINE every == Generations \cup {NoGeneration}
<1>1. PICK f : f = [u \in rows |-> Known(told[u])]
  OBVIOUS
<1>2. SumFunction(f) = SumFunctionOnSet(f, rows)
  <2>1. DOMAIN f = rows
    BY <1>1
  <2>. QED BY <2>1 DEF SumFunction, SumFunctionOnSet, FoldFunction
<1>3. PICK w : w = [id \in every |-> UsedBy(used, Counted(id, other))]
  OBVIOUS
<1>4. ids \in SUBSET every /\ (\A u \in rows : b[u] \in every) /\ IsFiniteSet(every)
  <2>1. IsFiniteSet(every)
    BY UsageAssumption, FS_AddElement
  <2>2. b \in [rows -> every]
    BY DEF Injection
  <2>. QED BY <2>1, <2>2 DEF Range
<1>5. /\ SumFunctionOnSet(w, ids)
             = SumFunctionOnSet(used, ids \ {NoGeneration}) + UsedBy(used, other)
      /\ \A id \in every : w[id] \in Nat
  BY <1>3, <1>4, SumOfTheCounted
<1>6. ASSUME NEW u \in rows
      PROVE  /\ f[u] \in Nat /\ f[u] <= w[b[u]]
             /\ told[u] # Unknown => f[u] = w[b[u]]
  <2>1. w[b[u]] \in Nat /\ f[u] = Known(told[u]) /\ told[u] \in {w[b[u]], Unknown}
    BY <1>1, <1>3, <1>4, <1>5
  <2>. QED BY <2>1 DEF Known, Unknown
<1>7. /\ SumFunctionOnSet(f, rows) <= SumFunctionOnSet(w, ids)
      /\ (\A u \in rows : f[u] = w[b[u]]) =>
             SumFunctionOnSet(f, rows) = SumFunctionOnSet(w, ids)
  <2>. HIDE DEF every
  <2>1. \A u \in rows : f[u] \in Nat /\ f[u] <= w[b[u]]
    BY <1>6
  <2>2. b \in Injection(rows, every)
    BY DEF every
  <2>. QED BY <1>4, <1>5, <2>1, <2>2, SumsCompared
<1>. QED BY <1>1, <1>2, <1>5, <1>6, <1>7

\* The totals of all the rows of a Round count each generation recorded under its id,
\* once, and at most one recorded without; they tell all that these used unless they are
\* marked incomplete.  With any number of generations: record() keeps one row of each
\* id, whatever was read of it and however often.
THEOREM TotalsTellTheirGapsHolds == UsageSpec => []TotalsTellTheirGaps
<1>1. ASSUME UsageInv, NEW r \in UsageRounds
      PROVE  LET totals == TotalsOf(RowsOf(r))
             IN  \E other \in UnnamedOf(r) \cup {NoGeneration} :
                    LET tokens == SumFunctionOnSet(Tokens, NamedOf(r)) + UsedBy(Tokens, other)
                        cost == SumFunctionOnSet(Costs, NamedOf(r)) + UsedBy(Costs, other)
                    IN  /\ totals.tokens <= tokens /\ totals.cost <= cost
                        /\ ~totals.incomplete => totals.tokens = tokens /\ totals.cost = cost
  <2>1. IsFiniteSet(RowsOf(r))
    BY <1>1, RowsStandForGenerations
  <2>2. PICK b \in Injection(RowsOf(r), Generations \cup {NoGeneration}),
             other \in UnnamedOf(r) \cup {NoGeneration} :
                 /\ \A u \in RowsOf(r) : b[u] = u.reading.id
                 /\ Range(b) \ {NoGeneration} = NamedOf(r)
                 /\ NoGeneration \notin Range(b) => other = NoGeneration
                 /\ \A u \in RowsOf(r) :
                       /\ u.reading.tokens
                             \in {UsedBy(Tokens, Counted(u.reading.id, other)), Unknown}
                       /\ u.reading.cost
                             \in {UsedBy(Costs, Counted(u.reading.id, other)), Unknown}
    BY <1>1, RowsStandForGenerations
  <2>. DEFINE ids == Range(b)
  <2>3. PICK told : told = [u \in RowsOf(r) |-> u.reading.tokens]
    OBVIOUS
  <2>4. PICK price : price = [u \in RowsOf(r) |-> u.reading.cost]
    OBVIOUS
  <2>5. PICK tokens : tokens = SumFunction([u \in RowsOf(r) |-> Known(told[u])])
    OBVIOUS
  <2>6. PICK cost : cost = SumFunction([u \in RowsOf(r) |-> Known(price[u])])
    OBVIOUS
  <2>7. /\ Tokens \in [Generations -> Nat] /\ Costs \in [Generations -> Nat]
        /\ DOMAIN told = RowsOf(r) /\ DOMAIN price = RowsOf(r)
        /\ other \in Generations \cup {NoGeneration}
        /\ NoGeneration \notin ids => other = NoGeneration
        /\ \A u \in RowsOf(r) : told[u] \in {UsedBy(Tokens, Counted(b[u], other)), Unknown}
        /\ \A u \in RowsOf(r) : price[u] \in {UsedBy(Costs, Counted(b[u], other)), Unknown}
    BY <2>2, <2>3, <2>4, UsageAssumption DEF UnnamedOf
  <2>8. /\ tokens <= SumFunctionOnSet(Tokens, NamedOf(r)) + UsedBy(Tokens, other)
        /\ (\A u \in RowsOf(r) : told[u] # Unknown) =>
               tokens = SumFunctionOnSet(Tokens, NamedOf(r)) + UsedBy(Tokens, other)
    <3>1. /\ tokens <= SumFunctionOnSet(Tokens, ids \ {NoGeneration}) + UsedBy(Tokens, other)
          /\ (\A u \in RowsOf(r) : told[u] # Unknown) =>
                 tokens = SumFunctionOnSet(Tokens, ids \ {NoGeneration}) + UsedBy(Tokens, other)
      <4>. HIDE DEF ids
      <4>1. FieldTold(RowsOf(r), told, Tokens, other, b, ids)
        BY <2>1, <2>2, <2>7 DEF ids, FieldTold
      <4>. QED BY <2>5, <4>1, FieldsTotal
    <3>. QED BY <2>2, <3>1
  <2>9. /\ cost <= SumFunctionOnSet(Costs, NamedOf(r)) + UsedBy(Costs, other)
        /\ (\A u \in RowsOf(r) : price[u] # Unknown) =>
               cost = SumFunctionOnSet(Costs, NamedOf(r)) + UsedBy(Costs, other)
    <3>1. /\ cost <= SumFunctionOnSet(Costs, ids \ {NoGeneration}) + UsedBy(Costs, other)
          /\ (\A u \in RowsOf(r) : price[u] # Unknown) =>
                 cost = SumFunctionOnSet(Costs, ids \ {NoGeneration}) + UsedBy(Costs, other)
      <4>. HIDE DEF ids
      <4>1. FieldTold(RowsOf(r), price, Costs, other, b, ids)
        BY <2>1, <2>2, <2>7 DEF ids, FieldTold
      <4>. QED BY <2>6, <4>1, FieldsTotal
    <3>. QED BY <2>2, <3>1
  <2>10. /\ [u \in RowsOf(r) |-> Known(told[u])]
                = [u \in RowsOf(r) |-> Known(u.reading.tokens)]
         /\ [u \in RowsOf(r) |-> Known(price[u])]
                = [u \in RowsOf(r) |-> Known(u.reading.cost)]
    BY <2>3, <2>4
  <2>11. PICK totals : totals = TotalsOf(RowsOf(r))
    OBVIOUS
  <2>12. /\ totals.tokens = tokens /\ totals.cost = cost
         /\ totals.incomplete
                <=> \E u \in RowsOf(r) : Unknown \in {u.reading.tokens, u.reading.cost}
    BY <2>5, <2>6, <2>10, <2>11 DEF TotalsOf
  <2>13. ~totals.incomplete => \A u \in RowsOf(r) : told[u] # Unknown /\ price[u] # Unknown
    BY <2>3, <2>4, <2>12
  <2>. QED BY <2>2, <2>8, <2>9, <2>11, <2>12, <2>13
<1>2. UsageInv => TotalsTellTheirGaps
  BY <1>1 DEF TotalsTellTheirGaps, RowsOf
<1>. QED BY UsageInvariant, <1>2, PTL
=============================================================================
