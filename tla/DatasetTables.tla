----------------------------- MODULE DatasetTables -----------------------------
(***************************************************************************)
(* Tables of remote datasets: get_series and download_table of the         *)
(* opendata server, for one dataset of the ANSD portal or of CKAN.  Both   *)
(* adapters (download_adapter.py, ckan_agridata.py) fetch a document that  *)
(* points to a file - the dataset's page, or package_show - and then that  *)
(* file, each through the HTTP disk cache that all processes share.        *)
(*                                                                         *)
(* A document is abstracted to what it says of the dataset: its file, or   *)
(* how long ago the version in it was replaced on the portal (0: it is the *)
(* current one).  A cached document past HttpTTL is represented as absent: *)
(* it is never used again, nor revalidated (HttpDiskCache).  Entries are   *)
(* taken as whole.  Instants are represented by ages, saturated at AgeCap. *)
(***************************************************************************)
EXTENDS Integers

CONSTANTS
  Procs,       \* server processes sharing .cache
  Files,       \* the URLs the portal publishes the dataset's file at
  HttpTTL,     \* HTTP_CACHE_TTL_SECONDS, in ticks
  MaxCall,     \* bound: ticks one call takes; fetch has none against a server
               \* that dribbles bytes it does not count (HttpOutbound)
  MaxVersions, \* bound: new versions published in a behaviour
  AgeCap       \* ages from AgeCap on are not told apart

Page == "page"
NoFile == "none"
Documents == Files \cup {Page}
MaxLag == 1 + 2 * HttpTTL + 2 * MaxCall

ASSUME TablesAssumption ==
  /\ {HttpTTL, MaxCall, MaxVersions, AgeCap} \subseteq Nat
  /\ MaxCall > 0 /\ AgeCap > MaxLag
  /\ Files # {} /\ Page \notin Files /\ NoFile \notin Files

VARIABLES
  link,      \* the file the page links, or the package's resource names
  stock,     \* [Files -> Content]: what the portal has at each URL
  versions,  \* versions published so far
  http,      \* [Documents -> Entry]: the HTTP disk cache
  pc,        \* [Procs -> Phases]: "ask" for a document, "store" the answer
  at,        \* [Procs -> Documents]: the document a call is at
  got,       \* [Procs -> Content]: the answer on its way to the cache
  spent,     \* [Procs -> Nat]: how long the call has been going on
  answer     \* how the call that ended in the last step ended

portal == <<link, stock, versions>>
vars == <<portal, http, pc, at, got, spent, answer>>

Ages == 0..AgeCap
Older(a) == IF a < AgeCap THEN a + 1 ELSE a

(* file: what a page points to.  lag: for a file, 0 if its version is the    *)
(* current one, otherwise 1 + the time since that was replaced.              *)
Content == [has : BOOLEAN, file : Files \cup {NoFile}, lag : Ages]
Nothing == [has |-> FALSE, file |-> NoFile, lag |-> 0]
PageTo(f) == [has |-> TRUE, file |-> f, lag |-> 0]
CurrentVersion == [has |-> TRUE, file |-> NoFile, lag |-> 0]
Entry == [doc : Content, age : 0..HttpTTL]
Absent == [doc |-> Nothing, age |-> 0]

(* local: a table of the static catalog.  failed: an exception out of a      *)
(* fetch; raised: out of anything else.  table: a remote dataset's, with the *)
(* lag of its version; garbled: a table that is not the one in the file.  An *)
(* ending that says nothing of a remote dataset leaves no answer behind.     *)
Kinds == {"none", "local", "raised", "failed", "garbled", "table"}
Silent == {"none", "local", "raised"}
Answer == [kind : Kinds \ {"local", "raised"}, lag : Ages]
Said(kind) == [kind |-> IF kind \in Silent THEN "none" ELSE kind, lag |-> 0]

Init ==
  /\ link = CHOOSE f \in Files : TRUE     \* the URLs are alike
  /\ stock = [f \in Files |-> IF f = link THEN CurrentVersion ELSE Nothing]
  /\ versions = 0
  /\ http = [d \in Documents |-> Absent]
  /\ pc = [p \in Procs |-> "idle"]
  /\ at = [p \in Procs |-> Page]
  /\ got = [p \in Procs |-> Nothing]
  /\ spent = [p \in Procs |-> 0]
  /\ answer = Said("none")

------------------------------------------------------------------------------
NoAnswer == answer' = Said("none")

(* A tool call runs its synchronous use case to the end before its process   *)
(* takes up another.                                                         *)
End(p, a) ==
  /\ pc' = [pc EXCEPT ![p] = "idle"]
  /\ at' = [at EXCEPT ![p] = Page]
  /\ got' = [got EXCEPT ![p] = Nothing]
  /\ spent' = [spent EXCEPT ![p] = 0]
  /\ answer' = a

(* The static catalog, loaded at the start, or the series file of a dataset  *)
(* has what is asked for, or the call raises; explain_indicator and          *)
(* cite_source ask nobody else.                                              *)
LocalLookup == {"local", "raised"}

(* GetSeriesUseCase.execute routes by the prefix of the id.  Without one, or *)
(* for local:, the static catalog is asked; for ckan: a malformed id raises, *)
(* and for ansd: an id the catalog does not know and a catalog that cannot   *)
(* be rebuilt (AnsdCatalog), as does any other prefix.                       *)
Prefixes == {"local", "ansd", "ckan", "other"}
Route(prefix) ==
  CASE prefix = "local" -> LocalLookup
    [] prefix = "other" -> {"raised"}
    [] OTHER -> {"remote", "raised"}

Call(p, prefix) ==
  /\ pc[p] = "idle"
  /\ \E to \in Route(prefix) :
       IF to = "remote"
       THEN /\ pc' = [pc EXCEPT ![p] = "ask"]
            /\ NoAnswer
            /\ UNCHANGED <<at, got, spent>>
       ELSE End(p, Said(to))
  /\ UNCHANGED <<portal, http>>

(* The file is parsed by its content type, which is looked up as             *)
(* "Content-Type" among the transport's lower-case names and so never found: *)
(* every file is first parsed as CSV, which rejects little, and only then as *)
(* the adapter's other format.  Versions come in any format; an old .xls has *)
(* no parser in this build.                                                  *)
HeaderNames == {"content-type", "etag", "last-modified"}
Formats == {"csv", "other", "unsupported"}
Typed == "Content-Type" \in HeaderNames
Readings(format) ==
  CASE format = "csv" -> {"table"}
    [] format = "other" -> IF Typed THEN {"table"} ELSE {"garbled", "table"}
    [] format = "unsupported" -> IF Typed THEN {"raised"} ELSE {"garbled", "raised"}

(* get_series returns the table as it is; download_table exports it as csv   *)
(* or json, and finds only now that it does not know another format.         *)
Exports == {"none", "csv", "json", "other"}
Delivered(reading, export) == IF export = "other" THEN "raised" ELSE reading
Outcomes ==
  {Delivered(r, e) : r \in UNION {Readings(format) : format \in Formats}, e \in Exports}

(* A 200 is in hand.  A page leads on to its file, and is an error if it has *)
(* no link: not a success, no resource of that id, no CSV/XLS/XLSX anchor.   *)
LinkedOrNot(f) == TRUE       \* mutant: `if not download_url` is missing
Linked(f) == f # NoFile

Received(p, doc) ==
  IF at[p] = Page
  THEN IF Linked(doc.file)
       THEN /\ at' = [at EXCEPT ![p] = doc.file]
            /\ pc' = [pc EXCEPT ![p] = "ask"]
            /\ got' = [got EXCEPT ![p] = Nothing]
            /\ NoAnswer
            /\ UNCHANGED spent
       ELSE End(p, Said("failed"))
  ELSE \E kind \in Outcomes :
         End(p, IF kind = "table" THEN [kind |-> "table", lag |-> doc.lag] ELSE Said(kind))

\* fetch finds the document in the cache.
Hit(p) ==
  /\ pc[p] = "ask" /\ http[at[p]].doc.has
  /\ Received(p, http[at[p]].doc)
  /\ UNCHANGED <<portal, http>>

(* What the portal may answer for a URL: a document with a 200, or Nothing.  *)
(* Without a link it is unwell, and may answer nothing at all.               *)
Served(d) ==
  {IF d = Page THEN PageTo(link) ELSE stock[d]}
    \cup (IF link = NoFile THEN {Nothing} ELSE {})

Ask(p) ==
  /\ pc[p] = "ask" /\ ~http[at[p]].doc.has
  /\ \E doc \in Served(at[p]) : doc.has /\ got' = [got EXCEPT ![p] = doc]
  /\ pc' = [pc EXCEPT ![p] = "store"]
  /\ NoAnswer
  /\ UNCHANGED <<portal, http, at, spent>>

\* No answer, or a status other than 200, which is not cached.
Fail(p) ==
  /\ pc[p] = "ask" /\ ~http[at[p]].doc.has
  /\ Nothing \in Served(at[p])
  /\ End(p, Said("failed"))
  /\ UNCHANGED <<portal, http>>

(* The answer was on its way; it replaces whatever others stored meanwhile.  *)
Store(p) ==
  /\ pc[p] = "store"
  /\ http' = [http EXCEPT ![at[p]] = [doc |-> got[p], age |-> 0]]
  /\ Received(p, got[p])
  /\ UNCHANGED portal

------------------------------------------------------------------------------
(* The portal.  A new version replaces the linked file, goes to another URL, *)
(* or to one that held an older version, and the superseded files stay or    *)
(* go.  The page may lose its link or the whole portal be down for a while.  *)
Replaced(c) == IF c.has /\ c.lag = 0 THEN [c EXCEPT !.lag = 1] ELSE c

Publish(f, kept) ==
  /\ versions < MaxVersions
  /\ versions' = versions + 1
  /\ link' = f
  /\ stock' = [g \in Files |-> IF g = f THEN CurrentVersion
                            ELSE IF kept THEN Replaced(stock[g]) ELSE Nothing]
  /\ http' = [d \in Documents |->
               IF d = Page THEN http[d] ELSE [http[d] EXCEPT !.doc = Replaced(@)]]
  /\ got' = [p \in Procs |-> IF at[p] = Page THEN got[p] ELSE Replaced(got[p])]
  /\ NoAnswer
  /\ UNCHANGED <<pc, at, spent>>

Relink(f) ==
  /\ f \in Files => stock[f] = CurrentVersion
  /\ f # link
  /\ link' = f
  /\ NoAnswer
  /\ UNCHANGED <<stock, versions, http, pc, at, got, spent>>

\* Time passes; _load_cache no longer takes an entry older than the TTL.
AgedContent(c) == IF c.lag > 0 THEN [c EXCEPT !.lag = Older(@)] ELSE c
AgedForever(e) ==            \* mutant: an entry in the cache never expires
  [doc |-> AgedContent(e.doc), age |-> IF e.age < HttpTTL THEN e.age + 1 ELSE e.age]
AgedEntry(e) ==
  IF e.doc.has /\ e.age < HttpTTL THEN [doc |-> AgedContent(e.doc), age |-> e.age + 1]
  ELSE Absent

Tick ==
  /\ \A p \in Procs : pc[p] # "idle" => spent[p] < MaxCall
  /\ stock' = [f \in Files |-> AgedContent(stock[f])]
  /\ http' = [d \in Documents |-> AgedEntry(http[d])]
  /\ got' = [p \in Procs |-> AgedContent(got[p])]
  /\ spent' = [p \in Procs |-> IF pc[p] = "idle" THEN 0 ELSE spent[p] + 1]
  /\ NoAnswer
  /\ UNCHANGED <<link, versions, pc, at>>

GoOn(p) == Hit(p) \/ Ask(p) \/ Fail(p) \/ Store(p)

Next ==
  \/ Tick
  \/ \E p \in Procs : GoOn(p) \/ \E prefix \in Prefixes : Call(p, prefix)
  \/ \E f \in Files, kept \in BOOLEAN : Publish(f, kept)
  \/ \E f \in Files \cup {NoFile} : Relink(f)

(* Time passes, and a call goes on: each of its fetches ends (HttpOutbound). *)
Spec == Init /\ [][Next]_vars /\ WF_vars(Tick) /\ \A p \in Procs : WF_vars(GoOn(p))

------------------------------------------------------------------------------
TypeOK ==
  /\ link \in Files \cup {NoFile}
  /\ stock \in [Files -> Content]
  /\ versions \in 0..MaxVersions
  /\ http \in [Documents -> Entry]
  /\ pc \in [Procs -> {"idle", "ask", "store"}]
  /\ at \in [Procs -> Documents]
  /\ got \in [Procs -> Content]
  /\ spent \in [Procs -> 0..MaxCall]
  /\ answer \in Answer

(* How wrong accessed_at (download_adapter.py:66) can be: the version in a   *)
(* table was still the portal's current one at most two HTTP_CACHE_TTL and   *)
(* two calls before.  A page from the cache may link a file that was         *)
(* replaced, whose copy in the cache is older still; but the two TTLs do not *)
(* add up any further, though files move, URLs are used again and an older   *)
(* answer may replace a newer one in the cache.                              *)
VersionLagBounded == answer.lag <= MaxLag

(* Pages without a link, links to files that are gone and old files in the   *)
(* cache all give way: once the portal stays well and publishes nothing new  *)
(* (MaxVersions), from some point on no call fails in a fetch and every      *)
(* table is the current version.                                             *)
Well == link \in Files
Settles == <>[]Well =>
  <>[](answer.kind # "failed" /\ answer.lag = 0)

==============================================================================
