------------------------------ MODULE AnsdCatalog ------------------------------
(***************************************************************************)
(* The catalog of the ANSD portal kept by AnsdWebCatalogAdapter            *)
(* (mcp_opendata/adapters/ansd/web_catalog.py): in memory per process, in  *)
(* .cache/ansd/catalog.json for all of them, and rebuilt from the portal's *)
(* listing pages when both are missing, empty or too old.  The pages come  *)
(* through HttpClient.fetch, whose disk cache has a TTL of its own.        *)
(*                                                                         *)
(* A search and a get_dataset both start with _ensure_catalog: either is a *)
(* Search here.  Cached pages are taken as whole (HttpDiskCache says when  *)
(* that is so); a page is stamped when it has been read (http_client.py:   *)
(* 113), so that its content is as much older as the answer was on its     *)
(* way.  Instants are represented by ages, saturated at AgeCap.            *)
(* What has expired is never used again: a page older than HttpTTL is      *)
(* represented as absent, a catalog as old as CatalogTTL as NeverLoaded.   *)
(***************************************************************************)
EXTENDS Integers

CONSTANTS
  Procs,        \* processes sharing .cache
  NumListings,  \* listing pages fetched by a rebuild, in order
  CatalogTTL,   \* _catalog_ttl_seconds, in ticks
  HttpTTL,      \* HTTP_CACHE_TTL_SECONDS, in ticks
  MaxRebuild,   \* bound: ticks one rebuild takes, its fetches and its write;
                \* fetch has none against a server that dribbles (HttpOutbound)
  AgeCap        \* ages from AgeCap on are not told apart

OldestServed == (CatalogTTL - 1) + HttpTTL + 2 * MaxRebuild

ASSUME CatalogAssumption ==
  /\ {CatalogTTL, HttpTTL, MaxRebuild, AgeCap} \subseteq Nat
  /\ NumListings \in Nat \ {0}
  /\ MaxRebuild < CatalogTTL
  /\ AgeCap > OldestServed

VARIABLES
  portal,   \* the answers a listing request may get from the portal
  http,     \* [Listings -> HttpEntry]: the pages in the HTTP disk cache
  file,     \* catalog.json
  mem,      \* [Procs -> Catalog]: _datasets and _loaded_at
  pc,       \* where a process is in _ensure_catalog
  next,     \* [Procs -> Listings]: the listing a rebuild fetches next
  flight,   \* [Procs -> Nat]: how long the request of a fetch has been out
  draft,    \* [Procs -> Parts]: what a rebuild has collected
  spent,    \* [Procs -> Nat]: how long a rebuild has been going on
  answer,   \* [Procs -> Answers]: how the search that ended in the last step ended
  rebuilt,  \* history: age of the newest catalog stamped by any process
  calm      \* history: time since rebuilds overlapped or one was cut off

vars == <<portal, http, file, mem, pc, next, flight, draft, spent, answer, rebuilt, calm>>

Listings == 1..NumListings
Ages == 0..AgeCap
Older(a) == IF a < AgeCap THEN a + 1 ELSE a
Since(n) == IF n < CatalogTTL THEN n + 1 ELSE n    \* as far as it matters

\* good: datasets are parsed from it.  bare: 200, but none is.  poisoned: 200,
\* with a link HttpUrl rejects.  error: any other status.  unreachable: raises.
Pages == {"good", "bare", "poisoned"}
PortalAnswers == Pages \cup {"error", "unreachable"}
PortalStates == {{"good"}, PortalAnswers}   \* well, or in trouble

\* age: since the page was stamped.  late: how much older what it lists is.
HttpEntry == [has : BOOLEAN, page : Pages, age : 0..HttpTTL, late : 0..MaxRebuild]
NoPage == [has |-> FALSE, page |-> "bare", age |-> 0, late |-> 0]

\* The datasets of one listing: whether there are any, and the age of the page.
Part == [has : BOOLEAN, age : Ages]
Missing == [has |-> FALSE, age |-> 0]
Parts == [Listings -> Part]
Nothing == [l \in Listings |-> Missing]
Catalog == [age : 0..CatalogTTL, parts : Parts]
NeverLoaded == [age |-> CatalogTTL, parts |-> Nothing]
Nonempty(c) == \E l \in Listings : c.parts[l].has
Complete(c) == \A l \in Listings : c.parts[l].has

\* "empty": truncated by write_text and not written yet; "mixed": two writers'.
FileKinds == {"absent", "empty", "whole", "mixed"}
NoFile(kind) == [kind |-> kind, cat |-> NeverLoaded]

Init ==
  /\ portal \in PortalStates
  /\ http = [l \in Listings |-> NoPage]
  /\ file = NoFile("absent")
  /\ mem = [p \in Procs |-> NeverLoaded]
  /\ pc = [p \in Procs |-> "idle"]
  /\ next = [p \in Procs |-> 1]
  /\ flight = [p \in Procs |-> 0]
  /\ draft = [p \in Procs |-> Nothing]
  /\ spent = [p \in Procs |-> 0]
  /\ answer = [p \in Procs |-> "none"]
  /\ rebuilt = CatalogTTL
  /\ calm = CatalogTTL

\* The listings are through, or given up.
Clear(p) ==
  /\ next' = [next EXCEPT ![p] = 1]
  /\ draft' = [draft EXCEPT ![p] = Nothing]

NoAnswer == answer' = [p \in Procs |-> "none"]

\* _ensure_catalog is over.
End(p, outcome) ==
  /\ pc' = [pc EXCEPT ![p] = "idle"]
  /\ flight' = [flight EXCEPT ![p] = 0]
  /\ spent' = [spent EXCEPT ![p] = 0]
  /\ answer' = [q \in Procs |-> IF q = p THEN outcome ELSE "none"]

------------------------------------------------------------------------------
(* _ensure_catalog up to the rebuild.  In memory only a catalog with         *)
(* datasets counts; on file also an empty one.  The file is loaded even if   *)
(* it turns out too old; if it cannot be parsed, _datasets is emptied and    *)
(* _loaded_at stays.                                                         *)
Held(c) == Nonempty(c) /\ c.age < CatalogTTL
Busy == {p \in Procs : pc[p] # "idle"}

LoadedNow(c) == [c EXCEPT !.age = 0]   \* mutant: _loaded_at is the time of loading
Loaded(c) == c

\* mutant: an empty catalog is never taken from the file
UsableNonempty(c) == c.age < CatalogTTL /\ Nonempty(c)
Usable(c) == c.age < CatalogTTL

Search(p) ==
  LET cat == IF file.kind = "absent" THEN mem[p]
             ELSE IF file.kind = "whole" THEN Loaded(file.cat)
             ELSE [mem[p] EXCEPT !.parts = Nothing]
      usable == file.kind = "whole" /\ Usable(cat)
  IN
  /\ pc[p] = "idle"
  /\ IF Held(mem[p])
     THEN End(p, "served") /\ UNCHANGED mem
     ELSE /\ mem' = [mem EXCEPT ![p] = cat]
          /\ IF usable
             THEN End(p, "served")
             ELSE /\ pc' = [pc EXCEPT ![p] = "fetch"]
                  /\ NoAnswer
                  /\ UNCHANGED <<flight, spent>>
  /\ calm' = IF pc'[p] = "fetch" /\ Busy # {} THEN 0 ELSE calm
  /\ UNCHANGED <<portal, http, file, next, draft, rebuilt>>

(* HttpClient.fetch returns: the cached page if the fetch finds one when it  *)
(* starts, or the portal's answer a, read to its end, stored and only then   *)
(* stamped if it is a 200.  What was answered is taken to be as old as the   *)
(* request.                                                                  *)
CachedPage(p) == flight[p] = 0 /\ http[next[p]].has
Returns(p, a) == CachedPage(p) \/ a # "unreachable"
Got(p, a) ==
  IF CachedPage(p) THEN http[next[p]]
  ELSE IF a \notin Pages THEN NoPage
  ELSE [has |-> TRUE, page |-> a, age |-> 0, late |-> IF a = "good" THEN flight[p] ELSE 0]
Stored(p, a) == IF Got(p, a).has THEN [http EXCEPT ![next[p]] = Got(p, a)] ELSE http

(* _fetch_listing raises: the exchange fails, or a page cannot be parsed,    *)
(* which stays in the HTTP cache.  The rebuild is given up, the search fails.*)
Unanswered(p, a) == ~Returns(p, a) /\ a = "unreachable"

ListingFails(p, a) ==
  /\ pc[p] = "fetch"
  /\ \/ Unanswered(p, a) /\ UNCHANGED http
     \/ Returns(p, a) /\ Got(p, a).page = "poisoned" /\ http' = Stored(p, a)
  /\ End(p, "raised")
  /\ Clear(p)
  /\ UNCHANGED <<portal, file, mem, rebuilt, calm>>

MoreToCome(l) == l <= NumListings      \* mutant: one listing too many
More(l) == l < NumListings

(* _fetch_listing returns; a status other than 200 counts as no datasets.    *)
(* After the last listing the new catalog is stamped and put in memory.      *)
ListingDone(p, a) ==
  LET l == next[p]
      part == IF Got(p, a).page = "good" THEN
                [has |-> TRUE, age |-> Got(p, a).age + Got(p, a).late]
              ELSE Missing
      parts == [draft[p] EXCEPT ![l] = part]
  IN
  /\ pc[p] = "fetch" /\ Returns(p, a) /\ Got(p, a).page # "poisoned"
  /\ http' = Stored(p, a)
  /\ IF More(l)
     THEN /\ next' = [next EXCEPT ![p] = l + 1]
          /\ draft' = [draft EXCEPT ![p] = parts]
          /\ UNCHANGED <<mem, pc, rebuilt>>
     ELSE /\ mem' = [mem EXCEPT ![p] = [age |-> 0, parts |-> parts]]
          /\ pc' = [pc EXCEPT ![p] = "open"]
          /\ rebuilt' = 0
          /\ Clear(p)
  /\ flight' = [flight EXCEPT ![p] = 0]
  /\ NoAnswer
  /\ UNCHANGED <<portal, file, spent, calm>>

(* write_text truncates the file, then writes the catalog in memory at its   *)
(* start; where two writers overlap the longer one's tail stays.             *)
Open(p) ==
  /\ pc[p] = "open"
  /\ file' = NoFile("empty")
  /\ pc' = [pc EXCEPT ![p] = "write"]
  /\ NoAnswer
  /\ UNCHANGED <<portal, http, mem, next, flight, draft, spent, rebuilt, calm>>

Write(p) ==
  LET new == [kind |-> "whole", cat |-> mem[p]] IN
  /\ pc[p] = "write"
  /\ file' \in IF file.kind = "empty" THEN {new} ELSE {new, NoFile("mixed")}
  /\ End(p, "served")
  /\ UNCHANGED <<portal, http, mem, next, draft, rebuilt, calm>>

(* A process ends between two searches, or dies anywhere.                    *)
Leave(p) ==
  /\ End(p, "none")
  /\ mem' = [mem EXCEPT ![p] = NeverLoaded]
  /\ Clear(p)
  /\ UNCHANGED <<portal, http, file, rebuilt>>
Restart(p) == pc[p] = "idle" /\ Leave(p) /\ UNCHANGED calm
Crash(p) == pc[p] # "idle" /\ Leave(p) /\ calm' = 0

PortalChanges ==
  /\ portal' \in PortalStates \ {portal}
  /\ NoAnswer
  /\ UNCHANGED <<http, file, mem, pc, next, flight, draft, spent, rebuilt, calm>>

AgedPart(x) == IF x.has THEN [x EXCEPT !.age = Older(@)] ELSE x
AgedParts(ps) == [l \in Listings |-> AgedPart(ps[l])]
AgedCatalog(c) ==
  IF c.age + 1 < CatalogTTL THEN [age |-> c.age + 1, parts |-> AgedParts(c.parts)]
  ELSE NeverLoaded
AgedPage(e) == IF e.has /\ e.age < HttpTTL THEN [e EXCEPT !.age = @ + 1] ELSE NoPage
Tick ==
  /\ \A p \in Procs : pc[p] # "idle" => spent[p] < MaxRebuild
  /\ http' = [l \in Listings |-> AgedPage(http[l])]
  /\ file' = IF file.kind = "whole" THEN [file EXCEPT !.cat = AgedCatalog(@)] ELSE file
  /\ mem' = [p \in Procs |-> AgedCatalog(mem[p])]
  /\ draft' = [p \in Procs |-> AgedParts(draft[p])]
  /\ flight' = [p \in Procs |->
                  IF pc[p] = "fetch" /\ ~CachedPage(p) THEN flight[p] + 1 ELSE flight[p]]
  /\ spent' = [p \in Procs |-> IF pc[p] # "idle" THEN spent[p] + 1 ELSE spent[p]]
  /\ NoAnswer
  /\ rebuilt' = Since(rebuilt)
  /\ calm' = IF \E p, q \in Busy : p # q THEN 0 ELSE Since(calm)
  /\ UNCHANGED <<portal, pc, next>>

Rebuild(p) ==
  \/ \E a \in portal : ListingFails(p, a) \/ ListingDone(p, a)
  \/ Open(p) \/ Write(p)

Next ==
  \/ Tick
  \/ PortalChanges
  \/ \E p \in Procs : Search(p) \/ Rebuild(p) \/ Restart(p) \/ Crash(p)

(* Time passes, and a rebuild goes on: the portal's answers come to an end.  *)
Spec == Init /\ [][Next]_vars /\ WF_vars(Tick) /\ \A p \in Procs : WF_vars(Rebuild(p))

------------------------------------------------------------------------------
TypeOK ==
  /\ portal \in PortalStates
  /\ http \in [Listings -> HttpEntry]
  /\ file \in [kind : FileKinds, cat : Catalog]
  /\ mem \in [Procs -> Catalog]
  /\ pc \in [Procs -> {"idle", "fetch", "open", "write"}]
  /\ next \in [Procs -> Listings]
  /\ flight \in [Procs -> 0..MaxRebuild]
  /\ draft \in [Procs -> Parts]
  /\ spent \in [Procs -> 0..MaxRebuild]
  /\ \A p \in Procs : flight[p] <= spent[p]
  /\ answer \in [Procs -> {"none", "served", "raised"}]
  /\ {rebuilt, calm} \subseteq 0..CatalogTTL

(* The two TTLs stack, and no further: what a search is answered from was on *)
(* the portal at most CatalogTTL + HttpTTL and the time of two rebuilds ago  *)
(* (the page may have been on its way for one, and be used in another),      *)
(* through any chain of processes, restarts, reloads and torn files          *)
(* (_ensure_catalog takes over the file's generated_at).                     *)
ServedNotTooOld == \A p \in Procs : answer[p] = "served" =>
  \A l \in Listings : mem[p].parts[l].has => mem[p].parts[l].age <= OldestServed

(* An outage leaves nothing behind for good: empty and partial catalogs, bad *)
(* pages in the HTTP cache and torn files all give way.  Once the portal     *)
(* stays well, from some point on every search that ends is answered from    *)
(* all the listings.                                                         *)
Recovers == <>[](portal = {"good"}) =>
    <>[](\A p \in Procs : answer[p] # "raised" /\ (answer[p] = "served" => Complete(mem[p])))

(* Except after rebuilds that overlapped or were cut off, and then for no    *)
(* longer than CatalogTTL: whatever the portal answered last and however     *)
(* often processes restart, a rebuild does not start within CatalogTTL of a  *)
(* completed one ("keeps a small on-disk cache of parsed dataset metadata to *)
(* respect ANSD's robots/terms", web_catalog.py:19).                         *)
RebuildsSpaced == calm = CatalogTTL =>
  \A p \in Procs : pc[p] = "fetch" => rebuilt = CatalogTTL

(* With the same exception, processes that hold a usable catalog hold the    *)
(* same: an id found by a search in one of them is known to the one that     *)
(* gets the next call (in stdio mode every call starts a server process).    *)
ProcessesAgree == calm = CatalogTTL =>
  \A p, q \in Procs : Held(mem[p]) /\ Held(mem[q]) => mem[p] = mem[q]
==============================================================================
