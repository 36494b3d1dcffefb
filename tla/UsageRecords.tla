---------------------------- MODULE UsageRecords ----------------------------
(***************************************************************************)
(* The usage ingestion substitute: what a provider reports of each         *)
(* generation reaches it through the adapter's message, which the          *)
(* checkpoint keeps, and through the raw capture, which the process keeps  *)
(* in memory; an observation made of either or of both is recorded once    *)
(* per generation, and a Round's totals are computed from the records.     *)
(*                                                                         *)
(* One token field and the cost stand for the fields the code treats       *)
(* alike; the cache-write tokens are read where the cost is, and go with   *)
(* it.                                                                     *)
(***************************************************************************)
EXTENDS Integers, FiniteSets, Functions

CONSTANTS Generations,   \* the provider's generations, numbered
          UsageRounds,   \* the Rounds they are made in
          Tokens,        \* the tokens each generation used
          Costs,         \* and what it cost
          MaxDeaths      \* bound: deaths of the process

VARIABLES generated,  \* what became of each generation
          usages,     \* the usage_observations table
          handed,     \* history: whose observations were recorded, and under which id
          deaths      \* deaths of the process so far

usageVars == <<generated, usages, handed, deaths>>

Unknown == -1
NoGeneration == 0  \* "unknown-generation"

ASSUME UsageAssumption ==
    /\ Generations \subseteq Nat \ {NoGeneration} /\ IsFiniteSet(Generations)
    /\ Tokens \in [Generations -> Nat] /\ Costs \in [Generations -> Nat]
    /\ MaxDeaths \in Nat

\* A message carries what the adapter passed on, a capture what was sent; each may
\* lack the id, the tokens or the cost: a truncated stream, a chunk the adapter drops.
Readings(g) ==
    [id: {g, NoGeneration}, tokens: {Tokens[g], Unknown}, cost: {Costs[g], Unknown}]
NoReading == [id |-> NoGeneration, tokens |-> Unknown, cost |-> Unknown]

UsageInit ==
    /\ generated = [g \in Generations |-> [round |-> 0, message |-> NoReading,
                                           captured |-> FALSE, capture |-> NoReading]]
    /\ usages = {} /\ handed = {}
    /\ deaths = 0

Made(g) == generated[g].round # 0

-----------------------------------------------------------------------------
(* What is read of a generation *)

\* A model call under startRawCapture(): the provider sends some of the reading, the
\* adapter passes on some of that.  A clone that cannot be read is captured by nobody.
ModelCall(g, r) ==
    /\ ~Made(g)
    /\ \E sent \in Readings(g), message \in Readings(g), captured \in BOOLEAN :
          /\ message.id \in {sent.id, NoGeneration}
          /\ message.tokens \in {sent.tokens, Unknown}
          /\ message.cost \in {sent.cost, Unknown}
          /\ generated' = [generated EXCEPT ![g] =
                [round |-> r, message |-> message, captured |-> captured,
                 capture |-> IF captured THEN sent ELSE NoReading]]
    /\ UNCHANGED <<usages, handed, deaths>>

\* A message of the checkpoint has lost its usage_metadata, and with it the tokens; what
\* its response_metadata tells, the cost, and its id survive.
Reloaded(message) == [message EXCEPT !.tokens = Unknown]

\* The process dies: the checkpoint keeps the messages, nothing keeps the captures.
ProcessDies ==
    /\ deaths < MaxDeaths /\ deaths' = deaths + 1
    /\ generated' = [g \in Generations |->
                        [generated[g] EXCEPT !.message = Reloaded(generated[g].message),
                                             !.captured = FALSE, !.capture = NoReading]]
    /\ UNCHANGED <<usages, handed>>

\* normalizeFromAdapterMessage(), normalizeFromRawResponse()
FromAdapter(g) == generated[g].message
FromCapture(g) == generated[g].capture

\* pick()
Pick(a, b) == IF a = Unknown THEN b ELSE a

\* mergeObservations()
Merged(a, b) == [id |-> IF a.id = NoGeneration THEN b.id ELSE a.id,
                 tokens |-> Pick(a.tokens, b.tokens), cost |-> Pick(a.cost, b.cost)]

\* The observations that can be made of a generation, now or again later.
ObservationsOf(g) ==
    {FromAdapter(g)} \cup IF generated[g].captured
                          THEN {FromCapture(g), Merged(FromAdapter(g), FromCapture(g))}
                          ELSE {}

-----------------------------------------------------------------------------
(* Records and totals *)

\* Mutant: every observation that tells something else is a record of its own.
InsertedIfNew(row) == usages' = usages \cup {row}

\* ON CONFLICT (generation_id) DO NOTHING
Inserted(row) ==
    usages' = IF \E u \in usages : u.reading.id = row.reading.id THEN usages
              ELSE usages \cup {row}

Record(g) ==
    /\ Made(g)
    /\ \E reading \in ObservationsOf(g) :
          /\ Inserted([round |-> generated[g].round, reading |-> reading])
          /\ handed' = handed \cup {[of |-> g, as |-> reading.id]}
    /\ UNCHANGED <<generated, deaths>>

UsageNext ==
    \/ ProcessDies
    \/ \E g \in Generations : Record(g) \/ \E r \in UsageRounds : ModelCall(g, r)

UsageSpec == UsageInit /\ [][UsageNext]_usageVars

\* What is unknown adds nothing.
Known(n) == IF n = Unknown THEN 0 ELSE n

\* computeRoundTotals()
TotalsOf(rows) ==
    [tokens |-> SumFunction([u \in rows |-> Known(u.reading.tokens)]),
     cost |-> SumFunction([u \in rows |-> Known(u.reading.cost)]),
     incomplete |-> \E u \in rows : Unknown \in {u.reading.tokens, u.reading.cost}]

-----------------------------------------------------------------------------
(* Properties *)

\* The generations of Round r that were handed to record() under their own id, and those
\* that were handed without one.
NamedOf(r) ==
    {g \in Generations : generated[g].round = r /\ [of |-> g, as |-> g] \in handed}
UnnamedOf(r) ==
    {g \in Generations : generated[g].round = r /\ [of |-> g, as |-> NoGeneration] \in handed}

\* What a generation used, and nothing where there is none.
UsedBy(used, g) == IF g = NoGeneration THEN 0 ELSE used[g]

\* The totals of all of a Round's rows count every generation that was recorded under its
\* own id, once, however often and from however much of it an observation was made, and
\* whatever else was recorded or dropped; beside these they count at most one generation
\* recorded without an id (which may be one of the former).  They are no more than what
\* these generations used, and exactly that unless they are marked incomplete.
TotalsTellTheirGaps ==
    \A r \in UsageRounds :
        LET totals == TotalsOf({u \in usages : u.round = r})
        IN  \E other \in UnnamedOf(r) \cup {NoGeneration} :
               LET tokens == SumFunctionOnSet(Tokens, NamedOf(r)) + UsedBy(Tokens, other)
                   cost == SumFunctionOnSet(Costs, NamedOf(r)) + UsedBy(Costs, other)
               IN  /\ totals.tokens <= tokens /\ totals.cost <= cost
                   /\ ~totals.incomplete => totals.tokens = tokens /\ totals.cost = cost
=============================================================================
