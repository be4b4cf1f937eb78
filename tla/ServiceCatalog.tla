----------------------------- MODULE ServiceCatalog -----------------------------
(***************************************************************************)
(* The services server (mcp_services/server.py) and its catalog of YAML    *)
(* files (adapters/yaml_repository.py).  The first tool call of a process  *)
(* loads the catalog, file by file while others may edit the files;        *)
(* lru_cache keeps what it loaded until the process ends, but not a load   *)
(* that raised: the next call tries again.                                 *)
(*                                                                         *)
(* In docker mode one process serves all clients; in stdio mode every call *)
(* starts its own.  Both are behaviours here: between two calls the server *)
(* may be another process.  A call runs to its end before the next, as its *)
(* load and its use case are synchronous.                                  *)
(***************************************************************************)
EXTENDS Integers, Sequences, FiniteSets

CONSTANTS
  NumFiles,  \* names in the catalog directory, in the order _load opens them
  Ids,       \* service ids
  MaxEdits   \* bound: edits of catalog files in a behaviour

ASSUME CatalogFilesAssumption ==
  /\ NumFiles \in Nat /\ MaxEdits \in Nat
  /\ Ids # {} /\ "all" \notin Ids

VARIABLES
  disk,    \* [Names -> Contents]: the catalog directory
  edits,   \* edits so far
  pc,      \* where the server is in a call
  asked,   \* what the call asks for
  todo,    \* the names a load still has to open
  draft,   \* _services of the repository being built
  loaded,  \* _build_dependencies has returned in this process
  repo,    \* the services it holds, in the order of the dict
  reply,   \* how the call ended
  steady,  \* history: no file was edited since this process's load began
  listed   \* history: ids this process has returned from list_services

server == <<pc, asked, todo, draft, loaded, repo, reply>>
catalogVars == <<disk, edits, server, steady, listed>>

Names == 1..NumFiles
Services == [id : Ids, version : 0..MaxEdits]
\* malformed: not YAML, not a mapping, or without a field the models require.
NotAService == {"absent", "malformed"}
File(kind) == [kind |-> kind, service |-> [id |-> CHOOSE i \in Ids : TRUE, version |-> 0]]
Holding(s) == [kind |-> "service", service |-> s]
Contents == [kind : NotAService \cup {"service"}, service : Services]

(* list_services asks for all services; get_service, eligibility_check,      *)
(* required_documents and steps look one up by its id.                       *)
All == "all"
Calls == Ids \cup {All}
\* unloaded: raised by _load.  unknown: KeyError.  raised: by the gates.
Replies == {"none", "ok", "unknown", "raised", "unloaded"}

CatalogInit ==
  /\ disk \in [Names -> {File("absent")} \cup {Holding([id |-> i, version |-> 0]) : i \in Ids}]
  /\ edits = 0
  /\ pc = "idle"
  /\ asked = All
  /\ todo = {} /\ draft = <<>>
  /\ loaded = FALSE /\ repo = <<>>
  /\ reply = "none"
  /\ steady = FALSE /\ listed = {}

------------------------------------------------------------------------------
(* A tool function: _build_dependencies comes first.                         *)
Call(what) ==
  /\ pc = "idle"
  /\ pc' = IF loaded THEN "handle" ELSE "list"
  /\ asked' = what
  /\ UNCHANGED <<disk, edits, todo, draft, loaded, repo, reply, steady, listed>>

\* sorted(glob("*.yml")) + sorted(glob("*.yaml")), before any file is opened.
ListFiles ==
  /\ pc = "list"
  /\ pc' = "read"
  /\ todo' = {n \in Names : disk[n].kind # "absent"}
  /\ steady' = TRUE
  /\ UNCHANGED <<disk, edits, asked, draft, loaded, repo, reply, listed>>

\* self._services[service.id] = service: the place of the first, the value of the last.
Put(s, services) ==
  IF \E k \in DOMAIN services : services[k].id = s.id
  THEN [k \in DOMAIN services |-> IF services[k].id = s.id THEN s ELSE services[k]]
  ELSE Append(services, s)

\* mutant: a second file for an id is an error
ParsedOnce(f) == f.kind = "service" /\ \A k \in DOMAIN draft : draft[k].id # f.service.id
Parsed(f) == f.kind = "service"

\* The load opens the file of this name next.
Due(n) == pc = "read" /\ n \in todo /\ \A m \in todo : n <= m

ReadFile(n) ==
  /\ Due(n)
  /\ Parsed(disk[n])
  /\ draft' = Put(disk[n].service, draft)
  /\ todo' = todo \ {n}
  /\ UNCHANGED <<disk, edits, pc, asked, loaded, repo, reply, steady, listed>>

\* The constructor raises, and the repository it was filling is dropped.
LeftOver(services) == services  \* mutant: _services is shared by all instances
Dropped(services) == <<>>
\* mutant: the load is tried again at once
Retried == pc' = "list" /\ UNCHANGED reply
GivenUp == pc' = "replied" /\ reply' = "unloaded"

LoadFails(n) ==
  /\ Due(n)
  /\ ~Parsed(disk[n])
  /\ GivenUp
  /\ todo' = {}
  /\ draft' = Dropped(draft)
  /\ steady' = FALSE
  /\ UNCHANGED <<disk, edits, asked, loaded, repo, listed>>

Loaded ==
  /\ pc = "read" /\ todo = {}
  /\ pc' = "handle"
  /\ loaded' = TRUE /\ repo' = draft
  /\ draft' = <<>>
  /\ UNCHANGED <<disk, edits, asked, todo, reply, steady, listed>>

(* with_trust_safety around the use case: list_services answers with all the *)
(* services, the other tools look theirs up.  The gates may raise            *)
(* (TrustAudit), which depends on their environment.                         *)
Found(what) == what = All \/ \E k \in DOMAIN repo : repo[k].id = what

GetOrNone(what) == IF Found(what) THEN "ok" ELSE "null"    \* mutant: dict.get, no KeyError
Lookup(what) == IF Found(what) THEN "ok" ELSE "unknown"

Handle ==
  /\ pc = "handle"
  /\ pc' = "replied"
  /\ reply' \in {"raised", Lookup(asked)}
  /\ listed' = IF reply' = "ok" /\ asked = All
               THEN {repo[k].id : k \in DOMAIN repo} ELSE listed
  /\ UNCHANGED <<disk, edits, asked, todo, draft, loaded, repo, steady>>

\* The client has the reply.
Replied ==
  /\ pc = "replied"
  /\ pc' = "idle"
  /\ reply' = "none" /\ asked' = All
  /\ UNCHANGED <<disk, edits, todo, draft, loaded, repo, steady, listed>>

\* mutant: an edited file is looked at again by the running process
Reload == loaded' = FALSE /\ repo' = <<>>
KeepLoaded == UNCHANGED <<loaded, repo>>

EditFile(n) ==
  /\ edits < MaxEdits
  /\ edits' = edits + 1
  /\ \E f \in {File(kind) : kind \in NotAService} \cup
              {Holding([id |-> i, version |-> edits + 1]) : i \in Ids} :
       disk' = [disk EXCEPT ![n] = f]
  /\ steady' = FALSE
  /\ KeepLoaded
  /\ UNCHANGED <<pc, asked, todo, draft, reply, listed>>

Restart ==
  /\ pc = "idle" /\ loaded
  /\ loaded' = FALSE /\ repo' = <<>> /\ draft' = <<>>
  /\ steady' = FALSE /\ listed' = {}
  /\ UNCHANGED <<disk, edits, pc, asked, todo, reply>>

ServerStep ==
  \/ ListFiles \/ Loaded \/ Handle
  \/ \E n \in Names : ReadFile(n) \/ LoadFails(n)

------------------------------------------------------------------------------
CatalogTypeOK ==
  /\ disk \in [Names -> Contents]
  /\ edits \in 0..MaxEdits
  /\ pc \in {"idle", "list", "read", "handle", "replied"}
  /\ asked \in Calls
  /\ todo \subseteq Names /\ draft \in Seq(Services) /\ repo \in Seq(Services)
  /\ loaded \in BOOLEAN /\ steady \in BOOLEAN
  /\ reply \in Replies
  /\ listed \subseteq Ids

(* The services the directory stands for: of each id the last file's, in the *)
(* order of the first file with that id.                                     *)
FilesOf(i) == {n \in Names : disk[n].kind = "service" /\ disk[n].service.id = i}
First(names) == CHOOSE n \in names : \A m \in names : n <= m
Last(names) == CHOOSE n \in names : \A m \in names : m <= n
IsTheDirectory(services) ==
  LET present == {i \in Ids : FilesOf(i) # {}} IN
  /\ Len(services) = Cardinality(present)
  /\ {services[k] : k \in DOMAIN services} = {disk[Last(FilesOf(i))].service : i \in present}
  /\ \A j, k \in DOMAIN services : j < k =>
       First(FilesOf(services[j].id)) < First(FilesOf(services[k].id))

(* A catalog that was loaded while nobody edited a file is the directory's   *)
(* content, whatever loads failed before it and whatever the process they    *)
(* failed in had read: duplicate ids, files that came, went or were mended.  *)
LoadedIsTheDirectory == loaded /\ steady => IsTheDirectory(repo)

(* What a process has listed it goes on knowing, however the files change:   *)
(* no later call to it for such an id ends in KeyError.                      *)
ListedStaysKnown == reply = "unknown" => asked \notin listed
==============================================================================
