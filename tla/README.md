# Targoman SMT in TLA+

Models, model checks and proofs of the parts of Targoman where the order of
events decides what comes out: the console that translates a file in a thread
pool, the stack decoder with its bounded containers and the n-best paths read
off its graph, the registry of unknown words that the translation threads share,
the load balancer that monitors translation servers and sends calls to them,
and the server through which administrators change options of a running program.

Paths below are abbreviated: `SMT/` is `src/TargomanSMT/libsrc/libTargomanSMT/Private/`,
`LB/` is `src/Apps/TargomanLoadBalancer/src/`, `Console/` is
`src/Apps/TargomanSMTConsole/src/`, `Common/` is
`src/TargomanCommon/libsrc/libTargomanCommon/`.

## 1. Inventory of the system

| Component | State it keeps | Operations | Talks to |
|---|---|---|---|
| Console (`Console/`) | a global thread pool; `TranslationWriter`: `PendingTranslations`, `LastSavedIndex`, `OutputListLock`, the output file | read a line and start a job; translate; `writeTranslation`; `waitForDone`; `finialize` | the translator, by call; its jobs share the writer |
| Hypothesis containers (`SMT/SearchGraphBuilder/clsCardinality`, `clsLexicalHypothesis`) | for each cardinality: coverages, nodes sorted by cost, cached best and worst, the selected coverage, a count, a cost limit | select, insert and recombine, test before insertion, lazy prune, final prune, drop an empty coverage | called by the search graph |
| Search graph (`SMT/SearchGraphBuilder/clsSearchGraph`, `clsSearchGraphNode`) | phrase candidates, rest cost matrix, hypothesis holder, goal | collect candidates, rest costs, `decode` | rule table, feature functions, containers |
| Feature functions, rule tables, language model (`SMT/FeatureFunctions`, `SMT/RuleTable`, `SMT/Proxies`, `src/NLPLibs`) | data loaded at start-up | costs and states of a node | called by the search graph |
| Translator facade, input decomposition, special tokens, OOV (`SMT/InputDecomposer`, `SMT/SpecialTokenHandler`) | a token registry shared by the translation threads | tokenise, register unknown words | before the search graph |
| N-best finder, output composer (`SMT/N-BestFinder`, `SMT/OutputComposer`) | paths through recombined nodes | enumerate paths, compose the text | after the search graph |
| Load balancer: monitor (`LB/Modules/TSMonitor`, `LB/clsTranslationServer`) | a connection and a `TotalScore` for each server, `LastRequestTime` | timer, connect, log in, request statistics, score, reset | translation servers, by JSON lines over TCP; writes the scores |
| Load balancer: calls (`LB/Modules/TSManager`) | `LastUsedServer` and a connection for each call | `bestServerIndex`, `baseTranslation` | reads the scores; translation servers |
| Translation server (`src/Apps/TargomanSMTServer/`) | no state between requests | split a text into lines, translate them by a mapped job, reduce | the translator; answers the load balancer |
| Configuration over the network (`Common/Configuration/`, `Common/JSONConversationProtocol`, `Common/SimpleAuthentication`) | connected clients, logins, the values of options | accept, log in, get, set, walk, call a module | every option of the program |
| Bounded cache (`Common/tmplBoundedCache.hpp`) | values and times of access | insert, look up, evict the oldest | used by translation threads |
| Utilities, `E4SMT`, vendored tools | containers, I/O | - | - |

### What is hard in each, and what makes it correct

* **Console.** Jobs end in any order and the job that fills a gap also writes
  what others have parked; an exception in any job ends the process between any
  two lines. Correct when the file is, at every moment, a prefix of the
  translation in the order of the input, nothing is lost, doubled or held back
  for a line that is not missing, and a normal exit has written everything.
* **Containers.** Raw pointers to entries of a `QMap` that pruning removes,
  caches of costs next to the nodes they are derived from, a count kept apart
  from what it counts, and a beam whose meaning depends on the sign of a
  logarithm. Correct when no pointer outlives its entry, a cached best cost is
  the best cost, and pruning never loses the cheapest hypothesis.
* **Search graph.** Back pointers into containers that are pruned, recombined
  and sorted; recombination by an equivalence of futures; rest costs made of what
  rules cost alone, while a rule may cost less after the words before it; jump limits that may leave a hypothesis without a
  continuation. Correct when each hypothesis is a partition of what it covers,
  the goal of an unpruned search is an optimal translation, and a sentence
  with a rule for each word is translated.
* **Monitor.** Servers crash and restart with a login, a request or a connection
  attempt on its way; answers are late, are errors or come together, and one notification
  reads one line; time is a time of day. Correct when a score is only ever that
  of the last request of this connection, nothing but the login is asked before
  it is answered, and a server that is back is given a score again.
* **Calls.** A server is chosen from scores that another thread writes without a
  lock; the answer to the login and to the text come through one handler; the
  connection may break at any time, the time-out may be found over in the poll
  in which the answer comes. Correct when a call ends exactly once, and is
  answered by nothing but the translation of its text.
* **Configuration server.** Each administrator has a thread, and options are
  written, validated and perhaps restored without a lock; connections are counted
  in the main thread while they break in others; lines arrive together and one
  notification reads one of them; an error in the stream closes
  the socket but the handler goes on. Correct when the count is that of the
  threads, a place is given back however a connection ends, every request is
  answered or its connection closed (which the code only achieves while further lines
  arrive), and an option behaves as one that changes at once, to values its
  validators accept.
* **Token registry and bounded cache.** A full cache drops half of its entries by
  the time of day of their last access; dropping one runs a destructor that takes
  the rule of a word out of another table and frees its index for the next word;
  the index is obtained in one call under the mutex and the word inserted in another.
  Correct when no two words share an index, a word's index leads to its rule,
  and the words of a sentence keep theirs until it is translated.
* **N-best paths.** Deviations from the best path are generated on demand into a
  bounded sorted collection. Correct when no path comes twice, and what is returned is
  the cheapest of all paths through the recombined nodes.

`PROJECT.json` lists each hazard at the line where it bites, with the properties
that would catch it.

## 2. Modules

| Module | Stands for | Extends or instantiates |
|---|---|---|
| `OrderedOutput` | what the console promises: an output that grows by the next line | |
| `TranslationWriter` | `Console/appTargomanSMTConsole.cpp`, `TranslationWriter.cpp` | refines `OrderedOutput` |
| `TranslationWriterProofs` | theorems about it | `TranslationWriter`, TLAPS |
| `HypothesisContainer` | the operations of `clsCardinalityHypothesisContainer` and `clsLexicalHypothesisContainer`, as operators | |
| `Cardinality` | the life of one container under all sequences of calls | `HypothesisContainer` |
| `CardinalityProofs` | theorems about it | `Cardinality`, FiniteSetTheorems, TLAPS |
| `SearchGraph` | `clsSearchGraph::decode`, rest costs, jump limits, the reordering jump | instantiates `HypothesisContainer` |
| `SearchGraphProofs` | theorems about it | `SearchGraph`, FiniteSetTheorems, WellFoundedInduction, TLAPS |
| `TranslationServer` | one `clsTranslationServer` and the queues between it and its server, as operators | |
| `TSMonitor` | `LB/Modules/TSMonitor`: timer, requests, scores | `TranslationServer` |
| `TSMonitorProofs` | theorems about the monitor, lemmas about a connection and its queues | `TSMonitor`, TLAPS |
| `TranslateCalls` | what a client of the load balancer is promised | |
| `TSManager` | `baseTranslation` and `bestServerIndex` | `TranslationServer`, refines `TranslateCalls` |
| `TSManagerProofs` | theorems about it | `TSManager`, TLAPS |
| `OptionRegister` | what an administrator is promised of an option | |
| `ConfigServer` | `Common/Configuration/clsLegacyConfigOverTCP`, `clsBaseConfigOverNet::set`, the write and validation of `tmplConfigurable` | refines `OptionRegister` |
| `ConfigServerProofs` | theorems about it | `ConfigServer`, FiniteSetTheorems, SequenceTheorems, TLAPS |
| `BoundedCache` | `Common/tmplBoundedCache.hpp`, as operators | |
| `SpecialTokens` | `SMT/SpecialTokenHandler`: the registry, and the calls the OOV and tag handlers and the search make | `BoundedCache` |
| `SpecialTokensProofs` | theorems about it | `SpecialTokens`, FiniteSetTheorems, WellFoundedInduction, TLAPS |
| `NBestPaths` | `SMT/N-BestFinder/NBestPaths`, and the combined nodes of `finalizeRecombination` it walks | |
| `NBestPathsProofs` | theorems about it | `NBestPaths`, FiniteSetTheorems, WellFoundedInduction, TLAPS |
| `MC_Cardinality`, `MC_SearchGraph`, `MC_TSMonitor`, `MC_SpecialTokens`, `MC_ConfigServer`, `MC_NBestPaths` | values of the constants for TLC | |

`MC_SearchGraph` also puts two settings of the decoder side by side: `DoPrune`
says whether a behaviour is one of `SearchGraph` with the constants of the cfg or of an
instance of it with fewer tables and containers that never prune. The properties of
`SearchGraph` are checked in both settings; only `UnprunedGoalIsOptimal` is about the second
alone.

Operators whose name ends in `_Something` and whose comment starts with
"Mutant" are not part of a specification. Each is the definition after it with a
plausible bug in it; the list `mutants` in `PROJECT.json` says which property
fails when it takes the place of the original.

### How the state corresponds to the code

**TranslationWriter.** `main`, `Index` are `slotExecute`; `job[i]` is the
`clsTranslationJob` of line `i` from the queue of the pool to its end;
`OutputListLock`, `PendingTranslations`, `LastSavedIndex` have the names of the
members; `output` is the file. A translation is the number of its line.
`writeTranslation` is `WriteOrPark` and then one `Drain` for each parked line,
under the mutex, so that `WriteThrows` can fall between two lines. `finialize`
takes no mutex, as in the code; that is sound because `waitForDone` came before
it, which the mutant `PoolDone_NoWait` takes away.

**HypothesisContainer.** A container is a record: `keys` and `lex` are
`HypothesisContainer`, `selected`, `best`, `worst` the three raw pointers
(a coverage or `NULL`), `total` is `TotalSearchGraphNodeCount`, `limit` is
`CostLimit`. A coverage has its nodes and its cached `best` and `worst` costs.
Nodes are a set; where the code goes by the order of a sorted list of equal
costs, an operator returns the set of all outcomes.

**SearchGraph.** One step visits one coverage, phrase position or node of
the loops of `decode` (`VisitCoverage`, `NextPrevCardinality`, `SkipPosition`,
`SelectPhrase`, `ExtendNode`, `EndPhrase`, `EndCoverage`, `EndCardinality`,
`FindGoal`). The order in which a `QMap` hands out coverages is left open. A
node has its source range (truncated to the width of the members), the state
and cost, and as `prev` the whole node that it extends, so that "the pointer is
still valid" means that this very node is still stored where it was. Candidate
rules are an input (`CandidateTables`), each with its approximate cost, which
`getApproximateCost` computes for the rule alone, with an empty history. Scored after the
words before it the rule costs `ContextCost` more, or less: the table may hold negative numbers,
since the language model has no reason to like a rule less after more words
(`LanguageModel.cpp:90-129`). The reordering jump, the one feature with a
position-specific rest cost, is computed.

**TranslationServer.** A connection has `sock` (closed, connecting, connected),
whether its `peer` is still there, `loggedIn`, and three queues: `requests` on
their way to the server, `replies` on their way back, and `lines` that have
arrived but are not read, because `slotReadyRead` reads one line for a
notification. `current` marks a message of the last request, which is what the
comparison of call UUIDs tells, and `ok` a result: an error is read and ignored.
`Reaction` is the branch the handler takes: ignored, login, response.

**TSMonitor.** `score` is `TotalScore`; `asked` is the age of
`LastRequestTime` in ticks and `yesterday` says that the time is of the day
before. Slots run in one thread, so each is one action; the timer
(`slotUpdateInfo`) treats all servers in one step. A server answers (`Answer`), answers with an
error, to the login too (`AnswerError`), ends one connection (`EndConnection`) or goes
down.

**TSManager.** Each call is a thread: `scan` has the local variables of
`bestServerIndex`, whose two reads of a score are two steps; `conn` is its own
connection. `score` and `up` change freely within `MaxChanges`: this
environment allows more than `TSMonitor` does.

**ConfigServer.** `thread[c]` is the life of a `clsClientThread`, `Socket[c]` its
socket, and `disconnected`, `exiting` the signals between it and the main
thread. `pc[c]` is where the handler is: `set` is `ReadOldValue`, `WriteValue`,
`crossValidate` and `RestoreValue`, between which other threads run;
`StreamTooLong` is the branch that has reported an error, closed the socket and
goes on with the line. A client sends lines without waiting: `sent` are those on their way,
`unread` those in the buffer of the socket, `line` is the one that the handler works on, and
`asked` counts the answers the client waits for. `readyRead` is one notification: any number
of lines arrive, and one is read. A `ConnectionLost` is what the event loop finds, `Leave` what happened at the
other end. The state function `Option` is the refinement mapping: between the write and the
verdict of the validator the value that counts is still `OldValue`.

**SpecialTokens.** `SpecialTokens` is the cache, with for each token an object
(an `id`, since copies share it, and its word index); `HandledSpecialTokens`
maps an index to a rule node, which stands for the token it was made of;
`AvailableWordIndexes` are the indexes given back. A thread goes through `Get`,
and then `Found` or `Obtain`, `InsertToken`, `insertRuleNode`, one step for each call
under the registry's mutex. `removeWordIndexes` is the destructor, part of the
step in which the last copy goes. `now % Day` is the `QTime` of an access.

**NBestPaths.** The graph is a lattice, made once from the costs of the arcs: for each
layer and state the best node and what it costs so far; those recombined into it are
`getCombindedNodes`. `Collection` and
`Storage` have the names of the code, and one `NextPath` is one iteration of
`retrieve`, with every deviation it adds.

## 3. Runs

| Run | Instance | Shows |
|---|---|---|
| `writer` | 5 lines, 3 threads | order, no loss or doubling, nothing held back, completeness, termination, refinement of `OrderedOutput` |
| `cardinality` | 2 coverages, 3 states, 4 costs, 6 offers, maximum 2, beam below 1, test before insertion | pointers, caches, counts; the cheapest hypothesis survives |
| `search` | 4 words, rule tables with and without phrases of two and four words, maximum 2; and the same words with fewer tables, no pruning | back pointers stay valid, no dead ends, a translation is found, hypotheses are partitions, rest costs of phrases are lower bounds at the approximate costs; unpruned, the goal costs as much as a reference recursion |
| `search_default_beam` | 4 words, jump limit 3, beam above 1, test before insertion | violation, see section 6 |
| `monitor` | 1 server, results and errors, 3 messages on the way | scores are current, login first, recovery |
| `monitor_midnight` | the same | violation, see section 6 |
| `calls` | 2 calls, 2 servers, 1 change, 2 tries | refinement of `TranslateCalls`, the login comes first, every call ends, servers alternate |
| `calls_choice` | 2 calls, 2 servers, no change | violation, see section 6 |
| `config` | 2 clients, 1 place, 4 values, 2 lines at once | the count of threads, refinement of `OptionRegister`, places are freed, requests are answered while lines arrive |
| `tokens` | 1 thread, 6 words, cache of 4, 2 words a sentence | indexes are unique, rules follow their tokens, a sentence keeps its rules through evictions |
| `tokens_shared` | 2 threads, 3 words | violation, see section 6 |
| `nbest` | 3 words, 2 states, 2 labels, 256 lattices, up to 4 paths, distinct or not, two expansion factors | no path twice, the cheapest of all paths |

### Bounds, and why they are enough

* `Lines = 5`, `MaxThreads = 3`: three jobs can overtake one another by a line
  each, a drain can write two parked lines in a row while a third job waits for
  the mutex, and the pool has more jobs than threads. Order, completeness and
  refinement are proved for all values.
* `MaxOffers = 6`: a container of two is filled, lazily pruned above its
  limit, filled again with a second coverage selected, recombined in both
  directions and pruned at the end. Coverages and states are interchangeable,
  hence the symmetry. Four costs are two more than the beam is wide.
  The proofs are about any number of all of them, and of both signs of the beam.
* `N = 4`: with four words and a jump limit of two, gaps are left
  behind and come back to. `MaximumJumpWidth = 1` makes jumps of two words
  quadratic. States that alternate cost less than the rules alone, others more. The
  setting without pruning has containers of 160, room for every coverage, end and state. `PositionBits = 8` as in the code; sentences of 256 words, where
  it matters, are out of reach.
* `MaxInFlight = 3` stops the timer when three messages are on one connection;
  with two, no answer could be overtaken by a second request while a third
  line is unread. One server is enough for the runs, since nothing in the monitor
  relates two servers; the theorems are about any number.
* `MaxChanges = 1`: one change of a score or a server before, between or after
  the reads of a scan, or while a call waits; the two calls race with each other
  besides. The safety properties are proved for any number.
* `config`: two clients compete for one place, the default of `MaxConnections`, and
  one of the four values is accepted by the range but not by the cross
  validator. A line is one of every kind, and too long or not where that makes a
  difference (`MC_ConfigServer`). `MaxLines = 2`: two lines may arrive together, or
  the second while the first is handled; more would only make the lag longer. The
  safety properties are proved for any `MaxLines`.
* `tokens`: the cache of four is full in the third sentence of two words, evicts half,
  and the two other words and those that come back meet indexes that are used again.
  `Day` is longer than the run, so midnight does not come (section 6). The instance
  never leaves the hypotheses of the theorems about indexes and rules, which hold for any size.
* `nbest`: a lattice of three layers with two states and labels has 32 paths;
  with four to return and an expansion factor of two the collection is cut
  and the search ends before the paths do. The 256 cost tables contain ties.

### Fairness

* `TranslationWriter`: `WF_vars(Next)`. The threads of the pool and the main thread
  are scheduled by the system and every job is finite; nothing more is assumed,
  and an exception may always come first.
* `TSMonitor`: the timer and each kind of event of a socket are weakly fair, as an
  event loop is. `Answer` is strongly fair: a server that is asked again and again does not
  give an error every time. That servers come up, go down or end a connection, that they give errors,
  and that a day ends, is not fair.
* `TSManager`: each call's own thread is fair. Servers and sockets owe nothing: a
  call must end even if no event ever comes.
* `ConfigServer`: each client's thread is scheduled (`ThreadStep`) and the main thread
  returns to its event loop (`MainStep`). Clients owe nothing: they may never ask,
  leave without a word or stay for ever. That is why nothing is said of a client
  that waits for a place.
* `SpecialTokens`, `NBestPaths`, `Cardinality`, `SearchGraph`: safety only, no fairness.

`Recovers` is stated for a server that stays up and holds its end of the connection
(`Serves`), whose connection does not lag and whose last request is not of the day before. Its
conclusion is a score again and again, or a login that was refused (`LoginRefused`), after which
there is none for as long as the connection lasts. The exclusions are the code's: `readyRead` for two lines
reads one, so that a connection may be an answer behind for ever; a refused login and midnight
are in section 6. In the same way `RequestsAnswered` names the client that has stopped sending with lines
left in the buffer (`Lagging`).

No run switches off the check for deadlock: the systems that stop (a process
that has exited, a decoder that is done, calls that have all ended) stutter
explicitly.

## 4. Proofs

Checked by TLAPS, for every value of the constants:

**`TranslationWriterProofs`**, from `Lines \in Nat` and
`MaxThreads \in Nat \ {0}`.

* `OutputInInputOrder`: `Spec => []InputOrder`
* `EveryLineOnce`: `Spec => [](HandedOverOnce /\ NothingHeldBack)`
* `ExitIsComplete`: `Spec => []CompleteOnExit`
* `ImplementsOrderedOutput`: `Spec => RefinesOrderedOutput`

`InputOrder` is not inductive: `writeOutputLines` appends any line it is given
and only counts. The inductive invariant `IInv` ties the count to the length of
the output and says which states of a job mean that its line is written or
parked (`HandedOverOnce`), that a parked line whose turn has come is only there
while a job holds the mutex (`NothingHeldBack`, `LockHolder`), that lines not
read have no job (`NotReadYet`), and that a main thread that finalizes or has
exited has no job left (`PoolIsDone`). `NothingLeftToFinalize` follows: `finialize`,
which would write the first parked line *whatever its index*, never finds one.

**`TSMonitorProofs`**, from `StatisticsAssumption`: percentages are in 0..100,
and `MaxInFlight` is positive.

* `TypeCorrect`: `Spec => []TypeOK`
* `ScoresAreCurrent`: `Spec => []ScoreIsCurrent`
* `LoginComesFirst`: `Spec => []AskedAfterLogin`
* `ScoreFits`: the sum of `slotProcessResponse` is at most 2500, so it fits the
  `quint16` that keeps it, and is zero, out of order, only for a server at
  every limit.

`ScoreIsCurrent` needs to know that when an answer to the last request is read, no
other message of that request is left. The invariant is therefore about the
queues of a connection (`Sound`): at most one message, in at most one of them,
belongs to the last request (`LastRequestOnce`); while not logged in there is nothing but the login
and it is of the last request; once logged in there is no login; a connection
that is not established is empty. A score above zero then implies that the
connection is established and logged in and that no message of the last
request is on its way. Lemmas show that each operation of `TranslationServer`
(`connect`, `reset`, `slotConnected`, `sendRequest`, `Arrived`,
`slotReadyRead`, `Answered`, `Abandoned`) keeps a connection sound, and
`NextIInv` has one step for each action.

**`TSManagerProofs`**, from `ManagerAssumption`: at least one server and one try, and
scores that are natural numbers, one of them zero.

* `CallTypes`: `Spec => []TypeOK`
* `LoginBeforeText`: `Spec => []TextAfterLogin`
* `RetryIsUnreachable`: `Spec => []NotRetried`
* `CallsKeepTheirPromise`: `Spec => ImplementsTranslateCalls`

A call uses a connection once, so its invariant `CallSound` is simpler than the monitor's. A
connection whose socket is not yet connected has nothing on its way (`Fresh`); before the login is
answered there is one message at most in all its queues (`Alone`), and it is of the login; then
there is none of the login left (`OnTheWay`). This holds even after the socket has closed
(`Queued`), because the call still reads what has arrived by then. The queues are `Honest`: a message
that says it is a translation is there only if a server has made one for this call. And no call
has ever been tried again. The last is both needed for the others (a second try would reuse the
scan) and a result: no path of the code produces the response that the loop of
`MaxRetries` waits for. The refinement maps the calls' outcomes to themselves; a
step of the environment, of a scan or of a connection stutters.

**`ConfigServerProofs`**, from `ConfigAssumption`: finitely many clients, a positive
`MaxConnections`, any set of requests and any bound on the lines that are on their way.

* `ConfigTypes`: `Spec => []TypeOK`
* `ConnectionsStayCounted`: `Spec => []ConnectionsCounted`
* `OneConnectionKeepsPromise`: `MaxConnections = 1` implies
  `Spec => ImplementsOption`

`ThreadSound` says that a handler in the middle of a request belongs to a
thread that runs and has the line it handles, with the old value it has read. For the refinement
`RegisterInv` adds that while a thread is between its read and its verdict the value is what
that thread read or wrote, which is true because the count leaves no place for
another thread: it is where `ConnectionsCounted` meets the promise about options.
With two connections the refinement fails.

**`CardinalityProofs`**, from the assumptions on sizes, costs and `NULL`.

* `ContainerTypes`, `PointersAreValid`, `BestIsCheapestWorstIsBound`, `CheapestSurvives`,
  `CoveragesAreFull`, `CountIsNeverTooHigh`: `Spec => []P` for each of the properties of
  the run `cardinality`. Two of them are as weak as the code: the cached worst cost is only an
  upper bound of the nodes, since an erase leaves it stale, and the count may be less than what is
  stored, since `prune` leaves the nodes of the selected coverage uncounted.

The inductive invariant has the caches of each coverage (`LexSound`), coverages that
are no key hold nothing, the count is at most what is stored (`Counted`), each
pointer is to a stored coverage with nodes or is null exactly when nothing is stored
(`Points`), and `LeastStored`: no stored node is cheaper than the cheapest ever
offered, which is itself stored and not above the cost limit when the beam is
wider than nothing. The lemmas follow the operators of `HypothesisContainer`:
insertion and recombination, update of the pointers, the pick of the primary
share and of the beam, removal, and the two prunings. The proof holds for every
order in which nodes of equal cost may be stored.

**`SpecialTokensProofs`**, from `TokensAssumption` and `MaxItemsAssumption`.

* `IndexesAreUnique`: `Spec /\ [](OneAtATime /\ Untagged) => []UniqueIndex`, and
  `RulesFollowTheirTokens`: the same for `RuleOfToken`. Threads and vocabulary are any;
  `OneAtATime` says that no two look-ups overlap, from the first call of the registry to the
  last, and `Untagged` that no tagged word of the vocabulary is looked up. The code ensures neither:
  its mutex covers single calls, and without the one or the other `UniqueIndex` fails
  (section 6). So the theorems do not say that the registry is right. They say that
  nothing else breaks the two properties, whatever is evicted when, and that one lock over a whole look-up
  would repair the first.
* `IndexesAreBounded`: `Spec => []TypeOK`, for any number of threads and a cache of two
  entries or more.
* `RecentEntriesAreKept`: what `tmplBoundedCache::insert` promises, for any cache and any
  times: if the entries used since some moment are no more than the `MaxItems - MaxItems \div 2`
  that a full cache keeps, an insertion leaves them and their values alone.

That the number of cached tokens is a new index is not obvious, since indexes are
given back in any order. The invariant `NoGaps` says that the indexes that are
cached, free or in hand are together the first ones above the vocabulary; with an
index for each token (`AsManyIndexesAsTokens`, a bijection) the count is then the next one
when none is free (`CountIsNext`). Eviction moves indexes from the cached to the free
ones (`InsertTokenKeeps`).

The bound on indexes is an invariant of sizes (`TypesInv`): a count of the cache is
at most `MaxItems`, and every index ever given was such a count. It needs neither
condition above, only that eviction makes room, which one of `1 \div 2` entries does not.

`RecentEntriesAreKept` is what `SentenceKeepsRules` rests on: the words of a sentence are the
entries used last. The property itself, which needs that no other thread uses the cache and that the day does not
end during a sentence, is only model-checked.

**`SearchGraphProofs`**, from the assumptions on the sentence, the containers and the rule
tables.

* `SearchGraphTypes`: `Spec => []TypeOK`, and `BackPointersStay`: `Spec => []PrevNodeStays`,
  without conditions.
* `EachWordOnce`: `Spec => []CoverageIsPartition`, and `AlwaysContinues`:
  `Spec => []NoDeadEnd`, for sentences whose positions fit a node (`N < 2^PositionBits`, fewer than
  256 words).
* `CostsStayFinite`: `Spec => []CostsAreFinite`, and `RestCostsAreLowerBounds`:
  `Spec => []RestCostNeverExceeds`, for costs up to some `C` (`CostsUpTo`): every
  word has a rule, no rule costs more, alone or in context, none costs less than nothing in
  context, and `N` steps of such costs and of the
  widest jumps stay below `Infinity`. The instance of the run `search` satisfies it
  with `C = 7`.
* `SentenceIsTranslated`: `Spec => []EmptyOnlyByTraining`, for such costs, fewer than 256 words and a beam
  width below one (`LogBeamWidth < 0`), whatever else is pruned and
  however narrow the jump limit is. `TranslationIsFound` is the same with the costs as a temporal
  hypothesis. With a beam above one it fails: `search_default_beam`.
* `UnprunedIsOptimal`: `Spec => []GoalIsOptimal`, for a search that keeps everything
  (`KeepsAll`): costs up to some `C`, fewer than 256 words, no pruning before insertion, and
  containers with room for every coverage, end of phrase and rule state (`RoomForAll`). The
  goal then costs exactly what the reference recursion does. The instance of the
  run `search` that does not prune satisfies it: 160 places for 16 coverages, 5 ends and 2 states.

The arguments, in the order of the module:

* *Containers* are `Clean`: nodes are stored under keys. Lemmas say
  what each operator of `HypothesisContainer` stores (`InsertedIs`, `PrunedIs`, `PruneIs`,
  `OfferedIs`). They are not those of `CardinalityProofs`, whose containers hold nodes of its own.
* `SearchInv` is the loops (`LoopsInv`), the holder (`Sane`: a stored node extends one that is
  still stored in a smaller cardinality, `Linked`; containers above the current one are
  empty) and the phrase at hand (`PhraseInv`). Back pointers stay valid since only the current
  container changes and a node only points to finished ones.
* *Jump limits*: `Near` says that no translated word, nor the end of the last phrase, is
  further from the first untranslated word than the limit. It is not what the code tests,
  which compares the new phrase with the gap there was *before* it; that it follows is
  `ExtensionIsNear`.
* *A translation is found*: a `Live` container has a best coverage whose cached best cost one
  of its nodes stays within, so pruning with a beam below one keeps a node (`PruneIsLive`).
  `NothingMissed` says that while the current container is empty, no
  hypothesis of the previous cardinality has been passed by at its first untranslated word; hence
  the container is not empty at the end of its cardinality (`ProgressInv`).
* *Rest costs*: `RestCostMatrix` is subadditive (`HalvesAre`, `MatrixIs`), so filling a part of
  a gap takes away no more of the rest cost than the cheapest rule of the phrase
  (`GapCostsLess`, `RestCostFallsByLess`), and no step of the reference recursion at approximate
  costs (`ApproximateCostToGo`) can undercut it (`RestCostIsLower`). Nothing is said of the costs in context
  (`CostToGo`), which may be lower than the rest cost: the optimum does not depend on it.
* *The optimum* is two inequalities. No hypothesis undercuts the reference: its own cost and the
  cheapest continuation of its place in the recursion are at least the whole sentence's
  (`Sound`, since each step is one of the recursion: `NextIsSound`). And a cheapest way is not
  lost (`Tracked`): there is always a hypothesis on one that has arrived in the current container
  (`Arrived`), or is stored and has its next phrase still ahead of the four loops (`Ahead`,
  `Pending`). Recombination may drop it, but then an equal one that is no dearer stays
  (`Covers`). Containers compare whole costs, with their rest costs, and the recursion
  own costs; the two agree since equal nodes of a coverage have the same rest cost (`Told`).
  The recursion's place also has the begin of the last phrase, which recombination ignores;
  `BeginMakesNoDifference` says that it may. That a container that is never
  full prunes nothing, caches a best cost no higher than any node's, and counts what it stores is `Whole`.

The recursions (`RestCostMatrix`, `CostToGo`, sums over sets) are recursive functions. What holds of
them is proved by a least counterexample (`LeastNumber`, `FurthestPlace`), which needs no
theorem of induction with an operator for a parameter; that such a function
exists is proved in the same way (`SumExists`, `MatrixIs`, `CostToGoIs`).

**`NBestPathsProofs`**, from `NBestAssumption`: a sentence of one word or more, finitely many states
and phrases and at least one of each, and costs that are natural numbers.

* `NBestTypes`, `NoPathTwice`, `CheapestPathsFirst`: `Spec => []P` for `TypeOK`, `NothingTwice`
  and `CheapestFirst`, without further conditions.

`CheapestFirst` is only about what is returned; the invariant `Inv` is about every moment of the loop:

* Every path collected or stored is an `Item`: a path of the lattice at its real cost, whose
  nodes behind the last substituted one are the best of their group. Hence no path that begins
  like it, up to that node (`Extends`), is cheaper (`ExtensionCosts`, from `CheapestContinuation`).
* `Apart`: no path that waits or was found extends another one that waits. A path is therefore
  made once, from the path whose last substitution comes before its own. It is this that the
  mutant `FirstIndex_Zero` breaks.
* `Covered`: a path not found yet extends one of the collection, or else the collection was cut and
  holds as many paths as are still `Wanted`, none of them dearer. This justifies the
  cut: `m` paths that cost no more are enough when `m` is all that can be taken. `Wanted` is
  `MaxSize - Iteration`, which is where the two sizes of the collection, of distinct paths and of
  others, meet the two conditions that end the loop.
* `Stored`: what was found is in order, without repetition, and no dearer than what is left.

A step of the loop is `PopStep` (the first path leaves the collection, and the deviations at each of its
nodes behind the substituted one come to stand for the paths that extended it), then
`AddStep` for each deviation, with those about to be added as a further set that covers (`Collected`),
and `ExpandStep` over the nodes. That the recursive functions of the module (the rows of the
graph, the chain of predecessors, the combined nodes by cost, the two loops) have the values their
recursions say is `RecursionExists`, applied to each.

No proof has a bound on what is interleaved: any number of threads, of crashes and
reconnections, of answers that pile up, of hypotheses or of evictions.

### Only model-checked

* Liveness under fairness, out of the prover's reach: `Terminates`, `Recovers`, `CallsEnd`,
  `SlotsAreFreed`, `RequestsAnswered`.
* `SentenceKeepsRules`, for one thread and one day.
* `UnprunedGoalIsOptimal` is the form in which the run `search` checks what the theorem
  `UnprunedIsOptimal` states.

## 5. Abstractions and what is not modelled

* Texts, translations and messages have no content. A message is its remote
  call, whether it is of the last request, and whether it is a result or an error.
* Costs are small integers. Floating-point ties and rounding are not modelled;
  where equal costs leave a choice to the order of a list, the models take all of
  them.
* `collectPhraseCandidates` and the look-up of rules are inputs: any table of
  candidates of the instance. The fallback to the rule for unknown words in
  `decode` is left out: candidates always hold at least a temporary rule.
* `writeNBestPaths`, `remove` and `updateWorstNode` have no caller.
  `finalizeRecombination` runs after the search and only for n-best lists: its result
  is the graph that `NBestPaths` starts from.
* `wait4AtLeastOneServerAvailable`, run once at start-up.
* TCP is a pair of first-in first-out queues that are lost together when the
  connection breaks; a line is never split.
* `SERVER_DISCONNECTED` is a response that no path of the code produces (section
  6); the branch of `TakeResponse` that would retry is there and is never
  taken.
* `ConfigServer` has one option. A line arrives whole: one that comes in pieces is read as a line
  that cannot be parsed. A walk, a
  bulk query and the calls of modules change nothing of the server and are one
  request. What other threads do with a value that is taken back differs from
  option to option. `clsConfigByJsonRPC` is the other protocol, over a third-party
  server; `ConfigManager.cpp` reads command line and file before any thread starts.
* Authentication is what `checkLogin` tells its caller: two rights or an exception.
* The destructor of a special token runs without the mutex; a race inside the two
  containers it touches is undefined and its outcomes are not enumerated, so
  with several threads the model says only what happens between whole calls.
* A tag whose name is in the vocabulary has one more index; that index is left out.
* `insertMulti`, `values`, `remove`, `clear` and the iterators of the cache have no caller.
* `NBestSuggestions` (alternatives for phrases, by position) and the composer's
  formatting of the result: not modelled.
* The translation server's jobs (`blockingMappedReduced` with the ordered option over the lines of
  a text) keep no state between requests and share none: the order is Qt's, and
  the reduction concatenates.
* Rule tables, feature functions, language models, text processing, JSON, logging,
  command line, prefix trees: data and formatting without a protocol.

Measured by lines, most of the repository is not in these models and cannot be: the
largest files are tables of characters and constants, vendored tools
(`src/ExternalToolsAndLibs`), text normalization, readers of binary formats and an
offline experiment tool. What decides by the order of events is small.

## 6. Where code and words differ

* **`search_default_beam`**: `prune` keeps nodes that cost less than the best
  cost minus `log(SearchBeamWidth)`. With a width above 1 (the default is 5, and
  `Samples/Server.conf` has one) no node costs less than something below the best
  one, so nothing is kept but the primary share and the selected coverage.
  When the share is 0 and nothing is selected a cardinality becomes
  empty and the sentence has no translation, though every word has a rule, the
  case `decode` puts down to "bad training".
* **`monitor_midnight`**: `LastRequestTime` is a time of day. After midnight
  `secsTo` is negative, less than any `UpdateInterval`, and the request is not
  sent. The last request of a day is made in its last `UpdateInterval`, so on no
  later day is there a moment that is far enough behind it: scores stay zero.
* **`calls_choice`**: the "next best" server is the index that was best before in
  the scan, initially 0 whatever the score of server 0. With server 0 out and
  another in, every second call goes to server 0.
* **`tokens_shared`**: `obtainWordIndex` counts the cached tokens and
  `insertExpirableSpecialToken` adds one, in two calls. Two threads that meet an unknown word
  each are given the same index, and one of the sentences is translated with
  the other's word.

Observed in the models, with no run of their own:

* The loop of `MaxRetries` ("Maximum tries to translate if disconnected from
  server", `LB/Modules/TSManager.cpp:51`) never goes round: nothing a call listens
  to hears of a lost connection. `RetryIsUnreachable` proves it. The call
  waits for its time-out.
* A server that answers the login with an error (`checkLogin` throws,
  `clsLegacyConfigOverTCP.cpp:297-302`) is never asked again on that connection: the error is
  ignored (`clsTranslationServer.cpp:164`), the server stays connected and not logged in, and
  `slotUpdateInfo` neither sends to it nor connects again (`TSMonitor.cpp:163-169`). `Recovers`
  without `LoginRefused` fails.
* Of two lines that arrive in one notification the configuration server reads one
  (`clsLegacyConfigOverTCP.cpp:99-116`); the other is answered when the next line comes, and from
  then on each answer is to the line before. `RequestsAnswered` without `Lagging` fails. The monitor
  of the load balancer sends without waiting for answers.
* The rest cost of a phrase is the sum of what its cheapest rules cost alone. After
  the words before it a rule may cost less, and then the estimate is above the cheapest way on and
  pruning compares what it should not; a goal of an unpruned search is optimal all the same.
* With a tagged word of the vocabulary in the cache, or `InVocabulary` not empty,
  `UniqueIndex` fails with a single thread: `obtainWordIndex` counts that word too
  (`SpecialTokensRegistry.hpp:131`), so a new word's index is one too
  high, and is given to another word when the count has dropped by one.
* With `Day = 2` or `3` in `tokens`, `SentenceKeepsRules` fails: after midnight the times of
  access of a sentence are smaller than those of older words
  (`tmplBoundedCache.hpp:80`).
* A cache with `MaxItems = 1` evicts `MaxItems / 2`, none, and grows.
* With `MaxConnections = 2`, `ImplementsOption` fails: a thread may restore a value
  over the one another has just set, or answer a value that is taken back.
* A stream of more than 20000 bytes is refused and its socket closed, and its first line
  is carried out all the same, a set included.
* Final pruning leaves the selected coverage alone when none of its nodes is picked and does
  not count them, so a container may hold more than "Maximum number of hypotheses
  that each cardinality can store." (`clsCardinality.cpp:42`, `:278`).
* Texts of n-best paths come in the order of the trellis, from the last phrase to
  the first (`clsOutputComposer.cpp:108`, `:139-149`), unlike the translation itself
  (`:239-250`).
* The rest cost of positions starts at the last translated word and not behind
  it, so that it may exceed the real jumps (only the phrases' part is a lower bound).
* The timer of the monitor sets all scores to zero until the answers come, and
  calls are refused in between; errors from a server are ignored, so a call waits
  for its time-out.
* `clsSearchGraph.cpp:72-74` passes the constant `QVariant::Int` as the jump limit;
  the option `WaitOnUpdtae` is not used; positions are truncated to eight bits.
* `clsInput.cpp:360-361` and `:383-384`: a tag that is not to be decoded returns, and drops the
  rest of its sentence. `collectPhraseCandidates` always appends a temporary rule, so the
  rule for unknown words is never reached.

## 7. Plan

Done, in this order: the writer and its proof, the containers, the search graph, the
monitor and its proof, the calls; then the configuration server, the cache and the
token registry, the n-best paths, and the proofs of the calls, the configuration
server, the containers and the registry; then the proofs of the search graph, of its rest
costs and of the optimum of the unpruned search, of evictions from the cache, and of the n-best paths;
last errors to the monitor, requests that do not wait for answers, and costs that the context lowers.

Next, most important first:

1. **Load balancer as a whole**: `TSMonitor` and `TSManager` over one set of servers. `TSManager`
   already lets scores change as they will, so its theorems hold of the
   composition; what it would add is when a call may be refused for no resources.
2. **The words of a sentence in a shared cache**: how many threads a cache of a given size serves
   before `SentenceKeepsRules` fails, with one mutex over a whole look-up.
3. **Server translation jobs**: splitting and ordered reduction of a text.
