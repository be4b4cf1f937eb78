---------------------------- MODULE HttpDiskCache ----------------------------
(***************************************************************************)
(* The response cache behind HttpClient.fetch (mcp_core/http_client.py).   *)
(* Every URL has two files under .cache/http, <key>.json ("meta") and      *)
(* <key>.bin ("body"), shared by all the processes started in that         *)
(* directory: the two servers, and in local mode one stdio server process  *)
(* per tool call.  Nothing locks the files.                                *)
(*                                                                         *)
(* One process runs one fetch at a time (the handlers are synchronous);    *)
(* the fetches of different processes interleave at each file operation.   *)
(* The network exchange between the cache lookup and the store is one      *)
(* step here; module HttpOutbound says what happens inside it.             *)
(*                                                                         *)
(* The code only ever compares time.time() with a recorded instant, so an  *)
(* instant is represented by its age, saturated at AgeCap.                 *)
(***************************************************************************)
EXTENDS Naturals

CONSTANTS
  Procs,       \* processes sharing the cache directory
  Urls,        \* URLs, hence cache keys (sha256 is taken as injective)
  TTL,         \* _cache_ttl, in ticks
  AgeCap,      \* ages from AgeCap on are not told apart
  MaxCrashes,  \* bound: process crashes in a behaviour
  ETagOffers   \* whether the origin's responses may / must carry an ETag

ASSUME CacheAssumption ==
  /\ TTL \in Nat /\ AgeCap \in Nat /\ TTL < AgeCap
  /\ MaxCrashes \in Nat
  /\ ETagOffers \subseteq BOOLEAN /\ ETagOffers # {}

VARIABLES
  meta,       \* [Urls -> MetaFile]: <key>.json
  body,       \* [Urls -> BodyFile]: <key>.bin
  pc,         \* where each process is in fetch
  url,        \* fetch's url
  caching,    \* fetch's use_cache and method_upper == "GET"
  seen,       \* fetch's cached_meta, NoMeta for None
  stamp,      \* the metadata _store_cache is writing
  reply,      \* what the last fetch of the process returned
  crashes,    \* crashes so far (bounded by MaxCrashes)
  torn,       \* history: stores crashed or overlapped since one last began alone
  disturbed   \* history: the hit being served met a store or a torn entry

files == <<meta, body>>
vars == <<meta, body, pc, url, caching, seen, stamp, reply, crashes, torn, disturbed>>

Ages == 0..AgeCap
Older(a) == IF a < AgeCap THEN a + 1 ELSE AgeCap

\* "empty": truncated by open("wb"), nothing written yet.
\* "mixed": the bytes of two writers, which no parser accepts.
\* etag: the metadata records a validator; offered: the response came with one.
Kinds == {"absent", "empty", "whole", "mixed"}
MetaFile == [kind : Kinds, age : Ages, offered : BOOLEAN, etag : BOOLEAN]
BodyFile == [kind : Kinds, age : Ages]
MetaOf(kind) == [kind |-> kind, age |-> 0, offered |-> FALSE, etag |-> FALSE]
BodyOf(kind) == [kind |-> kind, age |-> 0]
NoMeta == MetaOf("absent")

\* How a fetch ends: from the cache (what the body is, and the age it was
\* judged by), from the network, or with an exception.
Reply == [kind : {"none", "hit", "net", "error"}, whole : BOOLEAN, age : Ages, claimed : Ages]
Answer(kind) == [kind |-> kind, whole |-> TRUE, age |-> 0, claimed |-> 0]

\* Past open(meta_path, "wb"), until body_path is written.
RewritePhases == {"writeMeta", "openBody", "writeBody"}
Phases == {"idle", "readMeta", "readBody", "request", "openMeta"} \cup RewritePhases
Rewriting(p, u) == pc[p] \in RewritePhases /\ url[p] = u
Quiet(u) == \A p \in Procs : ~Rewriting(p, u)

Init ==
  /\ meta = [u \in Urls |-> NoMeta]
  /\ body = [u \in Urls |-> BodyOf("absent")]
  /\ pc = [p \in Procs |-> "idle"]
  /\ url \in [Procs -> Urls]
  /\ caching = [p \in Procs |-> FALSE]
  /\ seen = [p \in Procs |-> NoMeta]
  /\ stamp = [p \in Procs |-> NoMeta]
  /\ reply = [p \in Procs |-> Answer("none")]
  /\ crashes = 0
  /\ torn = [u \in Urls |-> FALSE]
  /\ disturbed = [p \in Procs |-> FALSE]

\* fetch ends: its locals are gone.
Return(p, r) ==
  /\ pc' = [pc EXCEPT ![p] = "idle"]
  /\ reply' = [reply EXCEPT ![p] = r]
  /\ seen' = [seen EXCEPT ![p] = NoMeta]
  /\ stamp' = [stamp EXCEPT ![p] = NoMeta]
  /\ UNCHANGED <<url, caching>>

GoTo(p, phase) == pc' = [pc EXCEPT ![p] = phase]

------------------------------------------------------------------------------
(* fetch up to the existence test of _load_cache.  The files are never      *)
(* deleted, so testing both at once is the same as one after the other.     *)
Fetch(p, u, c) ==
  /\ pc[p] = "idle"
  /\ url' = [url EXCEPT ![p] = u]
  /\ caching' = [caching EXCEPT ![p] = c]
  /\ GoTo(p, IF c /\ meta[u].kind # "absent" /\ body[u].kind # "absent"
             THEN "readMeta" ELSE "request")
  /\ reply' = [reply EXCEPT ![p] = Answer("none")]
  /\ disturbed' = [disturbed EXCEPT ![p] = FALSE]
  /\ UNCHANGED <<files, seen, stamp, crashes, torn>>

(* The entry parses and is within its TTL.                                   *)
FreshForever(m) == m.kind = "whole"     \* mutant: the TTL test is lost
Fresh(m) == m.kind = "whole" /\ m.age <= TTL

(* _load_cache reads the metadata.  Unparsable: (None, None).  Too old:      *)
(* (None, meta).  Otherwise it goes on to the body.                         *)
ReadMeta(p) ==
  LET m == meta[url[p]] IN
  /\ pc[p] = "readMeta"
  /\ seen' = [seen EXCEPT ![p] = IF m.kind = "whole" THEN m ELSE NoMeta]
  /\ GoTo(p, IF Fresh(m) THEN "readBody" ELSE "request")
  /\ disturbed' = [disturbed EXCEPT ![p] = torn[url[p]] \/ ~Quiet(url[p])]
  /\ UNCHANGED <<files, url, caching, stamp, reply, crashes, torn>>

(* Mutant: a hit refreshes fetched_at (a sliding TTL).                       *)
ReadBodySliding(p) ==
  LET b == body[url[p]] IN
  /\ pc[p] = "readBody"
  /\ meta' = [meta EXCEPT ![url[p]] = [seen[p] EXCEPT !.age = 0]]
  /\ Return(p, [kind |-> "hit", whole |-> b.kind = "whole",
                age |-> b.age, claimed |-> seen[p].age])
  /\ UNCHANGED <<body, crashes, torn, disturbed>>

(* _load_cache reads the body, whatever is in it, and fetch returns a hit.   *)
ReadBody(p) ==
  LET b == body[url[p]] IN
  /\ pc[p] = "readBody"
  /\ Return(p, [kind |-> "hit", whole |-> b.kind = "whole",
                age |-> b.age, claimed |-> seen[p].age])
  /\ UNCHANGED <<files, crashes, torn, disturbed>>

(* fetch keeps the headers in a dict made of the transport's items, whose    *)
(* names are in lower case whatever the origin sent, and looks "ETag" up by  *)
(* its exact name.                                                           *)
HeaderNames(offered) == IF offered THEN {"etag"} ELSE {}
RecordsETag(offered) == "ETag" \in HeaderNames(offered)

(* If-None-Match is sent for expired metadata that recorded a validator.     *)
Conditional(p) == seen[p].etag

(* The exchange fails (connection, timeout, size cap): raised to the caller. *)
RequestFails(p) ==
  /\ pc[p] = "request"
  /\ Return(p, Answer("error"))
  /\ UNCHANGED <<files, crashes, torn, disturbed>>

(* A cacheable 200 goes on to _store_cache, whose fetched_at is now.  Any    *)
(* other response is returned as it is; that includes 304, which the origin  *)
(* sends to a conditional request only: the branch that refreshes the entry  *)
(* requires cached_response, which is None whenever fetch gets this far.     *)
RequestAnswered(p, status, offered) ==
  /\ pc[p] = "request"
  /\ status = 304 => Conditional(p)
  /\ IF status = 200 /\ caching[p]
     THEN /\ GoTo(p, "openMeta")
          /\ stamp' = [stamp EXCEPT ![p] =
               [kind |-> "whole", age |-> 0,
                offered |-> offered, etag |-> RecordsETag(offered)]]
          /\ seen' = [seen EXCEPT ![p] = NoMeta]
          /\ UNCHANGED <<url, caching, reply>>
     ELSE Return(p, Answer("net"))
  /\ UNCHANGED <<files, crashes, torn, disturbed>>

------------------------------------------------------------------------------
(* Path.write_bytes opens with truncation and then writes at offset 0.  If   *)
(* another writer has put bytes there since, the longer file's tail stays.   *)
Written(file, new, mixed) ==
  IF file.kind = "empty" THEN {new} ELSE {new, mixed}

OpenMeta(p) ==
  LET u == url[p] IN
  /\ pc[p] = "openMeta"
  /\ meta' = [meta EXCEPT ![u] = MetaOf("empty")]
  /\ GoTo(p, "writeMeta")
  /\ torn' = [torn EXCEPT ![u] = ~Quiet(u)]
  /\ disturbed' = [q \in Procs |-> disturbed[q] \/ (pc[q] = "readBody" /\ url[q] = u)]
  /\ UNCHANGED <<body, url, caching, seen, stamp, reply, crashes>>

WriteMeta(p) ==
  LET u == url[p] IN
  /\ pc[p] = "writeMeta"
  /\ \E m \in Written(meta[u], stamp[p], MetaOf("mixed")) : meta' = [meta EXCEPT ![u] = m]
  /\ GoTo(p, "openBody")
  /\ UNCHANGED <<body, url, caching, seen, stamp, reply, crashes, torn, disturbed>>

(* Mutant: the body is opened without truncation.                            *)
OpenBodyInPlace(p) ==
  /\ pc[p] = "openBody"
  /\ body' = [body EXCEPT ![url[p]].kind = IF @ = "absent" THEN "empty" ELSE "mixed"]
  /\ GoTo(p, "writeBody")
  /\ UNCHANGED <<meta, url, caching, seen, stamp, reply, crashes, torn, disturbed>>

OpenBody(p) ==
  /\ pc[p] = "openBody"
  /\ body' = [body EXCEPT ![url[p]] = BodyOf("empty")]
  /\ GoTo(p, "writeBody")
  /\ UNCHANGED <<meta, url, caching, seen, stamp, reply, crashes, torn, disturbed>>

\* What goes into the body file.
MetaIntoBody(p) == stamp[p]             \* mutant: data written to both files
Content(p) == [kind |-> "whole", age |-> stamp[p].age]

WriteBody(p) ==
  LET u == url[p] IN
  /\ pc[p] = "writeBody"
  /\ \E b \in Written(body[u], Content(p), BodyOf("mixed")) : body' = [body EXCEPT ![u] = b]
  /\ Return(p, Answer("net"))
  /\ UNCHANGED <<meta, crashes, torn, disturbed>>

(* A process dies anywhere in fetch (or is killed when its stdio session     *)
(* closes, or a file operation raises): what it had written stays on disk.   *)
Crash(p) ==
  /\ pc[p] # "idle"
  /\ crashes < MaxCrashes
  /\ crashes' = crashes + 1
  /\ Return(p, Answer("error"))
  /\ torn' = [torn EXCEPT ![url[p]] = @ \/ pc[p] \in RewritePhases]
  /\ UNCHANGED <<files, disturbed>>

(* One unit of time passes.  Only a whole file carries an instant anyone     *)
(* reads, so the others keep their canonical age.                            *)
Aged(file) == IF file.kind = "whole" THEN [file EXCEPT !.age = Older(@)] ELSE file
Tick ==
  /\ meta' = [u \in Urls |-> Aged(meta[u])]
  /\ body' = [u \in Urls |-> Aged(body[u])]
  /\ seen' = [p \in Procs |-> Aged(seen[p])]
  /\ stamp' = [p \in Procs |-> Aged(stamp[p])]
  /\ UNCHANGED <<pc, url, caching, reply, crashes, torn, disturbed>>

Step(p) ==
  \/ \E u \in Urls, c \in BOOLEAN : Fetch(p, u, c)
  \/ ReadMeta(p)
  \/ ReadBody(p)
  \/ RequestFails(p)
  \/ \E status \in {200, 304, 500}, offered \in ETagOffers :
       RequestAnswered(p, status, offered)
  \/ OpenMeta(p)
  \/ WriteMeta(p)
  \/ OpenBody(p)
  \/ WriteBody(p)
  \/ Crash(p)

Next == Tick \/ \E p \in Procs : Step(p)

(* Time passes; nobody is obliged to fetch.                                  *)
Spec == Init /\ [][Next]_vars /\ WF_vars(Tick)

------------------------------------------------------------------------------
TypeOK ==
  /\ meta \in [Urls -> MetaFile]
  /\ body \in [Urls -> BodyFile]
  /\ pc \in [Procs -> Phases]
  /\ url \in [Procs -> Urls]
  /\ caching \in [Procs -> BOOLEAN]
  /\ seen \in [Procs -> MetaFile]
  /\ stamp \in [Procs -> MetaFile]
  /\ reply \in [Procs -> Reply]
  /\ crashes \in 0..MaxCrashes
  /\ torn \in [Urls -> BOOLEAN]
  /\ disturbed \in [Procs -> BOOLEAN]

Vacant(u) == meta[u].kind = "absent" /\ body[u].kind = "absent"
Matched(u) ==
  /\ meta[u].kind = "whole" /\ body[u].kind = "whole"
  /\ meta[u].age = body[u].age

(* Whatever junk earlier crashes and overlapping writers left behind, once   *)
(* a store has run alone to its end the two files are whole and belong to    *)
(* the same response (_store_cache rewrites both).                           *)
QuietEntryMatched == \A u \in Urls : Quiet(u) /\ ~torn[u] => Vacant(u) \/ Matched(u)

(* A cache hit that met no store and no torn entry returns a complete body   *)
(* stored exactly as long ago as the metadata _load_cache judged it by says. *)
UndisturbedHitSound == \A p \in Procs :
  reply[p].kind = "hit" /\ ~disturbed[p] =>
    reply[p].whole /\ reply[p].age = reply[p].claimed

(* Serving a bad pair does not prolong it: an entry whose fresh metadata     *)
(* vouches for an older or incomplete body stops being servable, because     *)
(* hits never refresh fetched_at.                                            *)
Misleading(u) ==
  /\ Quiet(u)
  /\ meta[u].kind = "whole" /\ meta[u].age <= TTL
  /\ body[u].kind # "whole" \/ body[u].age > meta[u].age
MisleadingEntryLapses == \A u \in Urls : Misleading(u) ~> ~Misleading(u)

------------------------------------------------------------------------------
(* What the documentation says and the code does not do.                     *)

(* "TTL in seconds for HTTP disk cache entries" (mcp_core/config.py:38) and  *)
(* "a `file_hash` (SHA-256 of downloaded content)" (README.md:86): the body  *)
(* of a hit, which the adapters parse and hash, is one whole response of the *)
(* origin, no older than the fetched_at that was checked against the TTL.    *)
HitIsTheResponse == \A p \in Procs :
  reply[p].kind = "hit" => reply[p].whole /\ reply[p].age <= reply[p].claimed

(* "conditional requests using `ETag` / `Last-Modified` when provided"       *)
(* (README.md:73): an expired entry whose response came with an ETag is      *)
(* revalidated with it.                                                      *)
ExpiredIsRevalidated == \A p \in Procs :
  pc[p] = "request" /\ seen[p].offered => Conditional(p)
==============================================================================
