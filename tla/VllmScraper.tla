----------------------------- MODULE VllmScraper -----------------------------
(***************************************************************************)
(* vllmstats.go: the windows the reporter makes out of the cumulative      *)
(* counters of inference endpoints.  An endpoint serves one model with a   *)
(* set of engines, whose counters start at zero whenever an engine does.   *)
(* A request falls below the one finite histogram edge ("short") or above  *)
(* it ("long"); the length of a request is 1 or LongLength tokens.         *)
(* Time is counted in ticks of the reporter.                               *)
(***************************************************************************)
EXTENDS Integers, FiniteSets, Functions

CONSTANTS
  Endpoint, Engine,
  TTL,               \* staleWorkloadTTL
  LongLength,        \* tokens of a long request; a short one has 1
  MaxCount,          \* bound on the requests an engine counts
  MaxChurn,          \* bound on the restarts, joins and leaves of engines
  MaxClock           \* bound on time

ASSUME ScraperAssumption ==
  /\ IsFiniteSet(Engine)
  /\ TTL \in Nat \ {0} /\ LongLength \in Nat \ {0, 1}
  /\ MaxCount \in Nat /\ MaxChurn \in Nat /\ MaxClock \in Nat

Kind == {"short", "long"}
Counters == [Kind -> Nat]
zero == [k \in Kind |-> 0]
Total(c) == c["short"] + c["long"]
Tokens(c) == c["short"] + LongLength * c["long"]

VARIABLES
  up,          \* up[p]: engines that endpoint p lists
  count,       \* count[p][e]: requests of each kind engine e has counted
  clock,
  live,        \* endpoints attributed at the latest tick
  pending,     \* endpoints this tick has still to scrape
  prev,        \* vllmScraper.prev, a function on the keys present
  lastEmit,    \* vllmScraper.lastEmit, likewise
  answer,      \* answer[p]: what the latest Scrape of p returned
  churn,       \* restarts, joins and leaves so far
  done,        \* history: requests p completed since its baseline was read
  disturbed,   \* history: endpoints whose engines changed since then
  era          \* history: how often p's state has been pruned

environment == <<up, count, churn>>
scraperVars == <<environment, clock, live, pending, prev, lastEmit, answer, done, disturbed, era>>

nothing == [kind |-> "none"]

ScraperInit ==
  /\ up = [p \in Endpoint |-> {}]
  /\ count = [p \in Endpoint |-> [e \in Engine |-> zero]]
  /\ clock = 0 /\ churn = 0
  /\ live = {} /\ pending = {}
  /\ prev = << >> /\ lastEmit = << >>
  /\ answer = [p \in Endpoint |-> nothing]
  /\ done = [p \in Endpoint |-> zero]
  /\ disturbed = {}
  /\ era = [p \in Endpoint |-> 0]
-----------------------------------------------------------------------------
(***************************************************************************)
(* The endpoints.                                                          *)
(***************************************************************************)
Complete(p, e, k) ==
  /\ e \in up[p]
  /\ Total(count[p][e]) < MaxCount
  /\ count' = [count EXCEPT ![p][e][k] = @ + 1]
  /\ done' = [done EXCEPT ![p][k] = @ + 1]
  /\ UNCHANGED <<up, churn, clock, live, pending, prev, lastEmit, answer, disturbed, era>>

\* An engine joins, leaves, or restarts in place; its counters are at zero.
\* The restart of an engine that has counted nothing goes unnoticed.
EngineChanges(p, e) ==
  /\ churn < MaxChurn
  /\ churn' = churn + 1
  /\ up' \in {[up EXCEPT ![p] = @ \union {e}], [up EXCEPT ![p] = @ \ {e}]}
  /\ e \in up[p] \union up'[p]
  /\ count' = [count EXCEPT ![p][e] = zero]
  /\ disturbed' = IF up' = up /\ count' = count THEN disturbed ELSE disturbed \union {p}
  /\ UNCHANGED <<clock, live, pending, prev, lastEmit, answer, done, era>>
-----------------------------------------------------------------------------
(***************************************************************************)
(* A tick of the reporter: prune, then one Scrape per endpoint.            *)
(***************************************************************************)
\* collect sums over the engines that are listed; an endpoint that lists none
\* has nothing to say of the model.
Collected(p) ==
  [engines |-> up[p], at |-> clock,
   sum |-> [k \in Kind |-> SumFunctionOnSet([e \in Engine |-> count[p][e][k]], up[p])]]

\* monotonic: same engines, and no count, sum or bucket below the baseline.
\* The only bucket with a finite edge is that of the short requests.
Monotonic(old, new) ==
  /\ new.engines = old.engines
  /\ Total(new.sum) >= Total(old.sum)
  /\ Tokens(new.sum) >= Tokens(old.sum)
  /\ new.sum["short"] >= old.sum["short"]

\* Mutant: nothing above the last edge is counted.
Diff_NoTail(old, new) ==
  [k \in Kind |-> IF k = "short" THEN new.sum["short"] - old.sum["short"] ELSE 0]

\* diffHistogram: a bin per positive difference, the tail above the last edge.
Diff(old, new) ==
  LET short == new.sum["short"] - old.sum["short"]
      tail == Total(new.sum) - Total(old.sum) - short
  IN [k \in Kind |-> IF k = "short" THEN short ELSE IF tail > 0 THEN tail ELSE 0]

\* Mutant: prune forgets the baselines only.
Prune_KeepsLast(alive) ==
  /\ prev' = Restrict(prev, DOMAIN prev \cap alive)
  /\ UNCHANGED lastEmit

\* prune walks the keys of prev and deletes the dead ones from both maps.
Prune(alive) ==
  LET dead == DOMAIN prev \ alive IN
  /\ prev' = Restrict(prev, DOMAIN prev \ dead)
  /\ lastEmit' = Restrict(lastEmit, DOMAIN lastEmit \ dead)

BeginTick ==
  /\ pending = {} /\ clock < MaxClock
  /\ clock' = clock + 1
  /\ \E alive \in SUBSET Endpoint :
       /\ live' = alive /\ pending' = alive
       /\ Prune(alive)
       /\ era' = [p \in Endpoint |-> IF p \in live \ alive THEN era[p] + 1 ELSE era[p]]
  /\ answer' = [p \in Endpoint |-> nothing]
  /\ UNCHANGED <<environment, done, disturbed>>

\* A tick whose window is empty, or whose scan fails, ends before the prune.
IdleTick ==
  /\ pending = {} /\ clock < MaxClock
  /\ clock' = clock + 1
  /\ answer' = [p \in Endpoint |-> nothing]
  /\ UNCHANGED <<environment, live, pending, prev, lastEmit, done, disturbed, era>>

\* lastIfFresh.
Fresh(p) == p \in DOMAIN lastEmit /\ clock - lastEmit[p].at < TTL

Again(p) == answer' = [answer EXCEPT ![p] =
  IF Fresh(p) THEN [kind |-> "again", w |-> lastEmit[p]] ELSE nothing]

\* The baseline becomes what was collected; the histories start over.
Rebase(p) ==
  /\ prev' = [q \in DOMAIN prev \union {p} |-> IF q = p THEN Collected(p) ELSE prev[q]]
  /\ done' = [done EXCEPT ![p] = zero]
  /\ disturbed' = disturbed \ {p}

\* The endpoint does not answer in time, or lists no engine.
ScrapeFails(p) ==
  /\ p \in pending
  /\ pending' = pending \ {p}
  /\ Again(p)
  /\ UNCHANGED <<environment, clock, live, prev, lastEmit, done, disturbed, era>>

\* A first scrape, or one that is not monotonic, only sets the baseline.
ScrapeRebases(p) ==
  /\ p \in pending /\ up[p] # {}
  /\ p \in DOMAIN prev => ~Monotonic(prev[p], Collected(p))
  /\ pending' = pending \ {p}
  /\ Rebase(p)
  /\ answer' = [answer EXCEPT ![p] =
       [kind |-> IF p \in DOMAIN prev THEN "reset" ELSE "first", really |-> p \in disturbed]]
  /\ UNCHANGED <<environment, clock, live, lastEmit, era>>

\* A scrape without completed requests keeps the baseline.
ScrapeQuiet(p) ==
  /\ p \in pending /\ up[p] # {}
  /\ p \in DOMAIN prev /\ Monotonic(prev[p], Collected(p))
  /\ Total(Collected(p).sum) <= Total(prev[p].sum)
  /\ pending' = pending \ {p}
  /\ Again(p)
  /\ UNCHANGED <<environment, clock, live, prev, lastEmit, done, disturbed, era>>

\* A window: what completed since the baseline.  done and disturbed are kept
\* with it for the properties.
ScrapeEmits(p) ==
  LET w == [hist |-> Diff(prev[p], Collected(p)), at |-> clock, era |-> era[p],
            count |-> Total(Collected(p).sum) - Total(prev[p].sum),
            really |-> done[p], spans |-> p \in disturbed]
  IN
  /\ p \in pending /\ up[p] # {}
  /\ p \in DOMAIN prev /\ Monotonic(prev[p], Collected(p))
  /\ Total(Collected(p).sum) > Total(prev[p].sum)
  /\ pending' = pending \ {p}
  /\ Rebase(p)
  /\ lastEmit' = [q \in DOMAIN lastEmit \union {p} |-> IF q = p THEN w ELSE lastEmit[q]]
  /\ answer' = [answer EXCEPT ![p] = [kind |-> "new", w |-> w]]
  /\ UNCHANGED <<environment, clock, live, era>>
-----------------------------------------------------------------------------
Scrape(p) == ScrapeFails(p) \/ ScrapeRebases(p) \/ ScrapeQuiet(p) \/ ScrapeEmits(p)

ScraperNext ==
  \/ \E p \in Endpoint, e \in Engine, k \in Kind : Complete(p, e, k)
  \/ \E p \in Endpoint, e \in Engine : EngineChanges(p, e)
  \/ BeginTick \/ IdleTick
  \/ \E p \in Endpoint : Scrape(p)

ScraperSpec == ScraperInit /\ [][ScraperNext]_scraperVars
-----------------------------------------------------------------------------
News(p) == answer[p].kind = "new"
Shown(p) == answer[p].kind \in {"new", "again"}

ScraperTypeOK ==
  /\ up \in [Endpoint -> SUBSET Engine]
  /\ count \in [Endpoint -> [Engine -> Counters]] /\ done \in [Endpoint -> Counters]
  /\ clock \in Nat /\ churn \in Nat /\ era \in [Endpoint -> Nat]
  /\ pending \subseteq live /\ live \subseteq Endpoint /\ disturbed \subseteq Endpoint
  /\ DOMAIN lastEmit \subseteq DOMAIN prev /\ DOMAIN prev \subseteq live
  /\ \A p \in DOMAIN prev : prev[p].engines # {} /\ prev[p].sum \in Counters

\* A window never counts a request more often than it happened, in its count
\* or in a bin, however the engines restarted meanwhile.
NeverOvercounted ==
  \A p \in Endpoint : News(p) =>
    LET w == answer[p].w IN
    w.count <= Total(w.really) /\ \A k \in Kind : w.hist[k] <= w.really[k]

\* While the engines stay the same, the windows of an endpoint share out its
\* completed requests: none is lost by a quiet or failed scrape, none is in
\* two windows.
SharedOut ==
  \A p \in Endpoint : News(p) /\ ~answer[p].w.spans =>
    answer[p].w.hist = answer[p].w.really

\* A scrape that throws a window away as a reset has seen a real one.
NoFalseReset == \A p \in Endpoint : answer[p].kind = "reset" => answer[p].really

\* What is shown was emitted less than TTL ago, and since the endpoint was
\* last attributed: an endpoint that comes back starts from nothing.
NoGhost ==
  \A p \in Endpoint : Shown(p) =>
    clock - answer[p].w.at < TTL /\ answer[p].w.era = era[p]

\* Counted: what the windows count is what happened.  They never count more,
\* count all of it while the engines last, and are thrown away only for a
\* reset that happened; and the window shown is a recent one of the same endpoint.
Counted == NeverOvercounted /\ SharedOut /\ NoFalseReset /\ NoGhost
=============================================================================
