# A formal model of senmcp

senmcp is a pair of MCP servers (open data and administrative services of
Senegal) and an agent that calls them.  This directory holds TLA+ models of its
core logic, TLC configurations that check them on small instances, and proofs,
checked by TLAPS, of what holds for every value of the constants.  All paths
below are relative to the repository; `http_client.py` is
`packages/mcp_core/mcp_core/http_client.py`, and so on.

## The system

| component | state | operations | talks to |
| --- | --- | --- | --- |
| HTTP response cache (`HttpClient._load_cache`, `_store_cache`) | two files per URL in `.cache/http`, shared by all processes, no lock | look up, store | adapters, the network part of `fetch` |
| outbound HTTP (`HttpClient.fetch`, `_rate_limit`, the httpx transport) | per process: time of the last request per host; one running request | pace, send, follow redirects, read under a cap, time out | origins |
| ANSD portal catalog (`AnsdWebCatalogAdapter`) | datasets and stamp in memory per process; `.cache/ansd/catalog.json` for all | search, get_dataset, rebuild | `HttpClient`, search, table download |
| ANSD table download (`AnsdDownloadAdapter`) | none | fetch_table: page, link, file, parse, cite | catalog, `HttpClient` |
| CKAN AgriData (`CkanAgriDataAdapter`) | none | search, get_dataset, fetch_table | `HttpClient` |
| local catalog (`StaticCatalogSource`) | JSON assets read once | search, get_series, explain, cite | - |
| use cases (`SearchDatasetUseCase`, `GetSeriesUseCase`, `DownloadTableUseCase`, ...) | none | merge the sources; route by id prefix; export | the four above |
| services server and catalog (`mcp_services/server.py`, `YamlServiceRepository`) | YAML files, read by the first call of a process; `lru_cache` keeps what was loaded | list, get, eligibility, documents, steps | - |
| gates (`with_trust_safety`, `trust_safety_interceptor`) and audit logs (`JsonlAuditLogger`) | one append-only file per server kind and one for the agents, shared by processes | check, record, run, record | every tool call |
| agent (`planner`, `executor`, `synthesizer`, `chat`) | the state of one turn | plan, call tools, answer | MCP client, interceptor |

Processes.  In local mode the agent's MCP client starts a stdio server process
for a tool call, so that several processes, long-lived servers among them, share
the working directory's `.cache` and `logs`.  Within a process the tool handlers
are synchronous (`async def` around blocking code), so one fetch runs at a time:
all the interleaving that matters is between processes, at file operations.

What makes it hard: files shared without locks, a crash between two writes, two
TTLs on top of each other, pacing and timeouts that are per process and per
socket operation, remote sources that fail in the middle of a search, and a log
that is the only evidence of what ran.  `PROJECT.json` lists these hazards at
their lines with the properties that cover them.

What makes each component correct:

* cache: a hit is one whole response of the origin, within its TTL (which holds
  only where no store overlaps it or was cut off: see the findings);
* outbound: hosts are spared, no fetch outlasts what is counted of it, and only
  an origin that goes on feeding it keeps one from ending;
* catalog: served data has a bounded age, the portal is not crawled again and
  again, and outages leave nothing behind for good;
* tables: the version in a table, and in the citation with it, has a bounded age,
  and dead links and old files give way;
* search: the merged answer is the freshest part of what the sources found, and
  a failing source takes no search down;
* gates: nothing runs that is not on record, and nothing is on record as
  completed that did not run;
* services: what was loaded is what the directory holds, a broken file does its
  damage only while it is there, and what was listed stays known;
* agent: an answer reports the calls of its own turn, and every turn ends.

## Modules

| module | models | state and actions against the code |
| --- | --- | --- |
| `HttpDiskCache` | the cache, file operation by file operation | `meta`, `body`: the two files; `pc`: where a process is in `fetch`; `seen`: `cached_meta`; `stamp`: the metadata being stored. `Fetch` = up to the existence test, `ReadMeta`/`ReadBody` = `_load_cache`, `RequestAnswered`/`RequestFails` = the exchange, `OpenMeta`, `WriteMeta`, `OpenBody`, `WriteBody` = the two `write_bytes` of `_store_cache`, each a truncation and a write. `torn`, `disturbed` are history variables the properties are stated with |
| `CacheContract` | what the cache promises, without files | per URL the response on offer: the last one whose store ran alone; a fetch `Choose`s it while fresh and `Serve`s it; `Begin` and `Complete` are the ends of a store, `Receive` what precedes it; `Gamble` and `ServeAnything` what a fetch may get while stores overlap or after one was cut off (`spoilt`); `Die` a crash |
| `HttpDiskCacheContract` | the refinement mapping from the files to the contract | a response is on offer when both files are whole and of it, nobody rewrites them and they are not `torn`; a hit on anything else than one whole response is no outcome of the contract |
| `HttpOutbound` | pacing and the network exchange | `job`: the running fetch; `lastReq`: `_host_last_request`; `Pace` = `_rate_limit`; `Resolve`, `NextAddress`, `Connected`, `Send`, `HeadDone`, `Follow`, `TimeOut`, `Fail` = the exchange as the transport performs it, one socket operation after the other, each with a timeout of its own; `Chunk`, `BodyDone` = the loop over the body; `Uncounted` = the reads that add nothing to `total`: pieces of a head and 1xx responses, of a redirect's body, and chunks that decode to nothing (`if not chunk: continue`). `sent`, `since`, and `ops`, `idle`, `elapsed` of a job are histories |
| `AnsdCatalog` | the portal catalog over the HTTP cache | `mem`: `_datasets` and `_loaded_at`; `file`: `catalog.json`; `http`: the cached listing pages, each with the time its answer was on its way before it was read and stamped (`late`); `flight`: how long a request has been out; `portal`: the answers a listing request may get. `Search` = `_ensure_catalog` up to a rebuild, `ListingDone`/`ListingFails` = `_fetch_listing` within `_rebuild_catalog`, `Open`/`Write` = `write_text`. `rebuilt` and `calm` are histories: when a catalog was last completed, and when rebuilds last overlapped or one was cut off |
| `DatasetTables` | `get_series` and `download_table`: routing, the two fetches of `fetch_table`, parsing, over the HTTP cache | `http`: the cached page and files; `got`: an answer on its way into the cache; `link`, `stock`: what the portal links and has. `Call` = the routing by id prefix, `Hit`, `Ask`, `Fail`, `Store` = a fetch of `AnsdDownloadAdapter` or `CkanAgriDataAdapter`; `Publish`, `Relink` = the portal replaces, moves and removes files. `answer` carries how long ago the version in a table was replaced; a call that says nothing of a remote dataset leaves none |
| `SearchDataset`, `MCSearchDataset` | one search | `pc`: the source asked next; `results`: as in the code. `taken`, `dedup`: where the loop is and the dict's values in its order. `Local`, `LocalFails`, `Ansd`, `AnsdFails`, `Ckan`, `CkanFails` = the three sources, of which the local one fails outside any `try` and ends the search; `Take`, `TakeRaises` = one turn of the loop; `Sort`, `SortRaises` = the sort and the slice, the place of a value being how many come before it |
| `ServiceCatalog` | the services server and its files | `disk`: the directory; `draft`: `_services` while it is filled; `loaded`, `repo`: what `lru_cache` keeps. `Call`, `ListFiles`, `ReadFile`, `LoadFails`, `Loaded` = `_build_dependencies` and `_load`, `Handle` = the gates and the use case, `EditFile`, `Restart` = everybody else. `steady`, `listed` are histories |
| `AgentChat` | the agent over that server | `turn`: where the chat is; `planned`, `results`: the graph's state. `Input` = the planner, `SearchDatasets`, `ListServices`, `ServicesListed` = the executor, `Synthesize`, `Show`; `OtherCall`, `OtherReplied` = another client of the server. `done` is a history |
| `AuditTrail` | what an audit file promises per call | blocked, or allowed, run and completed |
| `TrustAudit` | the two gates of a call and their files | `log`: the appended records; `pc`: the stage of a call; `InterceptorBlocks/Allows/Raises/Completes` = `trust_safety_interceptor`, `MiddlewareBlocks/Allows/Completes` and `HandlerReturns/Raises` = `with_trust_safety`, `Logs`/`LogRaises` = `JsonlAuditLogger.log` |
| `HttpDiskCacheProofs`, `HttpOutboundProofs`, `TrustAuditProofs`, `AnsdCatalogProofs`, `DatasetTablesProofs`, `SearchDatasetProofs`, `ServiceCatalogProofs`, `AgentChatProofs` | theorems | |

How they fit together.  `AnsdCatalog` and `DatasetTables` sit on the HTTP cache
and take its entries as whole: `HttpDiskCache` says when that is so.  That a
rebuild and a table download end in bounded time (`MaxRebuild`, `MaxCall`) is an
assumption about the portal: `HttpOutbound` shows that a fetch ends, and when,
unless its origin feeds it bytes that nobody counts.  A call of `DatasetTables` for an `ansd:` id may raise because the
catalog does not know it or cannot be rebuilt (`AnsdCatalog`).  `AgentChat`
extends `ServiceCatalog`; its search is a step that returns or raises, which is
what `SearchDataset` says of it, and the gates around its calls are those of
`TrustAudit`.

Abstractions.  The code only compares the clock with recorded instants, so an
instant is its age, saturated where no test can tell ages apart.  A body is whole
or not and has an age; a page of the portal is good, bare or poisoned, by what
the parser makes of it; a portal in trouble gives any answer, a good one
included; an item of a search is its title-and-URL key, its timestamp and
whether that has a time zone; a file of the portal is how long ago it was
replaced, a YAML file the service it holds or the fact that it is malformed; the
injection heuristics are a predicate of the call.  The definitions marked as
mutants are plausible mistakes: each breaks the property `PROJECT.json` pairs
it with, which shows that the property can fail.

## Runs

| run | question | bounds |
| --- | --- | --- |
| `Duo.cfg` | what can be relied on when processes overlap and crash, and do the files implement the contract | 2 processes, 1 URL, TTL 1, 2 crashes: two writers and a crash of each, every phase of one against every phase of the other. Entries of different URLs share nothing; that none is taken for another is part of `ContractServed`, which is proved for any URLs |
| `UnsoundHits.cfg` | is a hit one whole response, as young as its metadata says | violated: a crash between the two writes, or a reader against a writer |
| `Revalidation.cfg` | are expired entries revalidated | violated: the validator is never found |
| `Outbound.cfg` | what is left of the pacing and of the timeout, what keeps a fetch from ending | 1 process, 2 hosts, interval 1, timeout 2, cap 2, chunks 1 and 2, 2 addresses, 2 redirects, 2 uncounted reads told apart; `Horizon` exceeds the largest value of the bound in `DurationBound`, so elapsed time is never saturated where it is compared |
| `Pacing.cfg` | are requests to a host an interval apart | violated: the request of a followed redirect is not paced |
| `Timeout.cfg` | does a request end within the timeout | violated: each socket operation has it to itself |
| `Ansd.cfg` | age of a served catalog, spacing of rebuilds, agreement of processes, recovery | 2 processes restarted at will and crashing anywhere, 2 listings, so that one can fail without the other; catalog TTL 2, HTTP TTL 1, a rebuild of up to 1 tick, in which a cached page can expire or an answer be on its way: with them the bound `OldestServed` (4) is reached |
| `Tables.cfg` | how old a table can be, do stale pages and dead links give way | 2 processes, so that an old answer can overwrite a newer entry; 2 URLs, so that the file can move and a URL be used again; 2 new versions: with them the bound `MaxLag` is reached |
| `Search.cfg` | is the merged answer the reference | 2 keys, 2 timestamps and the epoch, up to 2 finds per source (6 in all), limits -1 to 2: duplicates within and across sources, ties, overflow of the limit |
| `MixedStamps.cfg` | does the local catalog remain usable | violated: a timestamp without a time zone |
| `Audit.cfg` | do both files keep their trails, what does a short write cost, does every call end | 2 calls, 1 short write, 1 crash, appends that raise at will |
| `Chat.cfg` | what is loaded and stays known, what is answered, do turns end and chats survive | 2 files, 2 ids, 2 edits: duplicate ids, a file that is removed or broken between the listing and its opening and is mended later; chats over either server, both or none |

The runs that end in a violation check what a document or a comment says; the
findings in `PROJECT.json` quote it.  What a passing run of the same module
checks is what is left of it: `NoBurst` of the pacing, `DurationBound` of the
timeout, `ServesTheContract` of the cache.  The others are the properties the code
has.  `MisleadingEntryLapses`, `Recovers`, `Settles` and `ChatsSurvive` say that
the disagreements and the failures heal: a wrong pair of files is not served for
ever, an outage, a dead link or a malformed file is not remembered for ever.

Deadlock is checked except where the modelled activity ends: one search, and a
set of calls.

Fairness.  `HttpDiskCache`, `AnsdCatalog` and `DatasetTables` assume that time
passes; a rebuild of the catalog and a table download go on, which takes a portal
that does not feed a fetch uncounted bytes for ever.  `HttpOutbound` assumes that
time passes, that a sleep which is due ends, that the resolver answers or gives
up and that a timeout which is due fires; it assumes nothing of the origin,
neither an answer nor the end of one.  `FetchEnds` therefore names what an origin
can keep a fetch busy with for ever: the reads of `Uncounted`.
`TrustAudit` assumes that a process that has not crashed goes on with its call.
`AgentChat` assumes that the server goes on with a call, that the clients take
their replies and that the agent goes on with its turn; of `ListServices` it
assumes strong fairness, since other clients keep the server busy again and again
and its event loop takes calls in the order they come.  Nobody is ever obliged to
start a fetch, a search or a call, to type, to edit a file or to restart.

## Proofs

TLAPS checks, for every value of the constants that satisfies the named
assumptions (`CacheAssumption`, `OutboundAssumption`, `AuditAssumption`,
`CatalogAssumption`, `TablesAssumption`, `CatalogFilesAssumption`,
`SearchAssumption`):

* `HttpDiskCacheProofs`: `TypeCorrect`; `EntryMatched` and `HitSound`, both from
  `PairInvariant`.  Neither property is inductive: what makes a store leave a
  matched pair is that between its truncations and its writes nobody else has
  been at the files, so `PairInv` says, for an entry that is not `torn`, what
  both files hold in each phase of its only writer, and, for a reader that was
  not `disturbed`, that the metadata it has read is that of the body it is
  going to read.
  `ContractServed` is the refinement `ServesTheContract`, of all behaviours: any
  number of processes, URLs and crashes, stores that overlap or are cut off, any
  TTL.  `PairInvariant` gives the response on offer where the contract has one;
  the open of the metadata file begins a store and withdraws what was on offer,
  from those about to serve it too; the steps between it and the last write
  stutter, and the last write puts the response on offer if nobody else was at
  the files.  What the contract leaves open - a fetch that finds the entry
  spoilt or being stored, or that a store meets - is what `UnsoundHits.cfg`
  shows going wrong.
* `HttpOutboundProofs`: `TypeCorrect`; `NoBurstHolds`, whose invariant relates
  the stamp of `_rate_limit` to the last two requests sent (the last but one is
  never younger than the stamp before); `DurationBounded`, whose invariant pays
  each socket operation with `Timeout` at most: those of each hop come in order,
  so there are `HopOps` of them at most (`OrderInv`), the bytes under the cap are
  one each, and the reads nobody counts are in the bound by their number.
* `AnsdCatalogProofs`: `TypeCorrect`; `ServedInTime` from `AgeInv`, which follows
  a page's age from the HTTP cache (at most `HttpTTL`, and the time its answer was
  on its way) through the draft of a rebuild (plus the time that one has taken)
  into a catalog, whose parts are older
  than its stamp by no more than that wherever it is copied; `RebuildsAreSpaced`
  and `CatalogsAgree` from `CalmInv`, which says that since things have been calm
  at most one process rebuilds, the newest catalog is on file or in that
  process's hands, and every younger copy is the same catalog.
  `CatalogAssumption` has `MaxRebuild < CatalogTTL`: a catalog whose rebuild took
  longer could expire before it is on file.
* `DatasetTablesProofs`: `TypeCorrect`; `VersionLagHolds` from `LagInv`, the chain
  of delays behind a table: an answer on its way is no staler than its call is
  long, an entry than its age and a call, a linked file than page and file
  together.
* `SearchDatasetProofs`: `TypeCorrect`; `SearchInvariant`, what the loop has made
  of the items it has been through: a value of the dict is the first of the
  freshest items with its key (`HoldsTheFreshest`), every key met is there
  (`MissesNone`), in the order in which they were met (`KeepsTheOrder`), and items
  of one key are of one kind (`KindsAgree`).  `AnswersTheFreshest` adds what the
  sort does, for any list: a value's rank is how many come before it, ranks
  differ, so that they fill `0..n-1` by counting, and `NewestFirst` is a
  permutation in order (`SortFacts`).  `FailuresAreAbsorbed` says that past the
  local catalog a search raises over timestamps of both kinds and over nothing else: two of them with
  one key meet in the loop, others in the sort.
* `TrustAuditProofs`: `TypeCorrect`; `HandlersTrailed` and `InterceptorsTrailed`,
  the refinements of `AuditTrail` by the servers' and by the agents' file, for
  any number of concurrent calls, short writes and crashes.  The invariant
  `Matched` (theorem `TrailsMatched`) ties the stage of a call to what is on file
  for it; a step of `Next` is shown to touch one call only and to be of one of ten kinds.
  `ResultsOnFile` from `Accounted` (a call that has come past a gate without an
  exception is on file there, readable or not); `LossIsBounded` from `LossInv`:
  each short write pays for its own record and for the one it will spoil if
  another append follows.
* `AgentChatProofs`, on the lemmas of `ServiceCatalogProofs`: `TypeCorrect`;
  `LoadsTheDirectory` from `LoadInv`: what an undisturbed load has in its draft was
  `Gathered` from the names it has opened, all before those still to open, and
  one more file keeps that so (`OneMoreGathered`), a first one for its id or
  another; `KnownOnceListed` from `ListedInv` (a process lists nothing
  before its load is over and loads once); `AnswersItsInput` from `TurnInv`
  (within a turn, what was planned is what was returned followed by what is to
  be called).

Only model-checked: every liveness property (`MisleadingEntryLapses`,
`FetchEnds`, `Recovers`, `Settles`, `CallsEnd`, `TurnsEnd`, `ChatsSurvive`), since
TLAPS does not reason about fairness here.  Every invariant and every refinement
the passing runs check is stated by a theorem.

## Not modelled

* The allowlist and URL policies: stateless predicates over strings.  No tool is
  in `NETWORKED_TOOLS`, so the middleware's URL check is never made.
* Models, settings, logging, identifiers: no behaviour; the settings are the
  constants.
* `http_html_source.py`: nothing uses it.
* `CkanAgriDataAdapter.get_dataset` and `list_resources`: nothing calls them.
* The synthesizer's wording of a result, and the extraction of text from it.
* The static catalog's content: its lookups answer or raise.
* A transport that connects to several addresses at once, or answers over
  HTTP/2: `HttpOutbound` is the synchronous httpx client over HTTP/1.1.
* A `write_text` of the catalog that raises in a process that goes on (a full
  disk): in `AnsdCatalog` a write is cut off by a crash only.
* A services server that dies in the middle of an awaited call: in `AgentChat` it
  restarts between calls only.  What the gates and their files make of such a
  death is in `TrustAudit`.
* Whether the table a call returns is the one in the file: a file of another
  format may be read as CSV, since its content type is never found
  (`DatasetTables!Readings`, for the reason `Revalidation.cfg` shows).
* What negative limits should return: the model has them, no document says what
  to expect.
* A version of the services that differs between two processes, and an id that is
  lost when the portal catalog expires between two calls: the code keeps nothing
  across them.
* The audit record a failed load does not leave: the load is in
  `ServiceCatalog`, the file in `TrustAudit`, and no module composes the two.
* A clock that is set back: ages never decrease here.

## Plan

Done, in this order, most important first: the cache with its contract and
proofs; the network exchange with its proofs; the catalog with its proofs;
search; the gates and audit logs with their proofs; table downloads with their
proofs; the services server and the agent's chat over it with their proofs.

Next:

1. `HttpClient`: the cache and the exchange composed.
2. A server whose load fails, composed with the gates and their file.
