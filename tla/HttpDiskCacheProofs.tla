-------------------------- MODULE HttpDiskCacheProofs --------------------------
(***************************************************************************)
(* Theorems about the disk cache for any number of processes, URLs and     *)
(* crashes and any TTL: the pairing of the two files, and the refinement   *)
(* of CacheContract.                                                       *)
(***************************************************************************)
EXTENDS HttpDiskCacheContract, TLAPS

LEMMA OlderType == \A a \in Ages : Older(a) \in Ages
  BY CacheAssumption DEF Ages, Older

LEMMA AgedMeta == \A m \in MetaFile : Aged(m) \in MetaFile
  BY OlderType DEF Aged, MetaFile

LEMMA AgedBody == \A b \in BodyFile : Aged(b) \in BodyFile
  BY OlderType DEF Aged, BodyFile

\* The constant records have the types of what they are stored in.
LEMMA RecordTypes ==
  /\ \A k \in Kinds : MetaOf(k) \in MetaFile /\ BodyOf(k) \in BodyFile
  /\ \A k \in {"none", "hit", "net", "error"} : Answer(k) \in Reply
  BY CacheAssumption DEF MetaOf, BodyOf, Answer, MetaFile, BodyFile, Reply, Ages

LEMMA NoMetaType == NoMeta \in MetaFile
  BY RecordTypes DEF NoMeta, Kinds

LEMMA ReturnType ==
  ASSUME TypeOK, NEW p \in Procs, NEW r \in Reply, Return(p, r)
  PROVE  /\ pc' \in [Procs -> Phases] /\ reply' \in [Procs -> Reply]
         /\ seen' \in [Procs -> MetaFile] /\ stamp' \in [Procs -> MetaFile]
         /\ url' \in [Procs -> Urls] /\ caching' \in [Procs -> BOOLEAN]
  BY NoMetaType DEF TypeOK, Return, Phases

(* Every file, local and answer keeps its type, whatever interleaving and    *)
(* crashes.                                                                  *)
THEOREM TypeCorrect == Spec => []TypeOK
<1>1. Init => TypeOK
  BY RecordTypes, NoMetaType, CacheAssumption DEF Init, TypeOK, Kinds, Phases
<1>2. TypeOK /\ [Next]_vars => TypeOK'
  <2> SUFFICES ASSUME TypeOK, [Next]_vars PROVE TypeOK'
    OBVIOUS
  <2>1. CASE Tick
    BY <2>1, AgedMeta, AgedBody DEF Tick, TypeOK
  <2>2. ASSUME NEW p \in Procs, NEW u \in Urls, NEW c \in BOOLEAN, Fetch(p, u, c)
        PROVE TypeOK'
    BY <2>2, RecordTypes DEF Fetch, GoTo, files, TypeOK, Phases
  <2>3. ASSUME NEW p \in Procs, ReadMeta(p) PROVE TypeOK'
    BY <2>3, NoMetaType DEF ReadMeta, GoTo, files, TypeOK, Phases
  <2>4. ASSUME NEW p \in Procs, ReadBody(p) PROVE TypeOK'
    <3> DEFINE r == [kind |-> "hit", whole |-> body[url[p]].kind = "whole",
                     age |-> body[url[p]].age, claimed |-> seen[p].age]
    <3>1. r \in Reply
      BY DEF TypeOK, Reply, BodyFile, MetaFile
    <3>2. Return(p, r) /\ UNCHANGED <<files, crashes, torn, disturbed>>
      BY <2>4 DEF ReadBody
    <3> QED
      BY <3>1, <3>2, ReturnType DEF files, TypeOK
  <2>5. ASSUME NEW p \in Procs, RequestFails(p) PROVE TypeOK'
    BY <2>5, RecordTypes, ReturnType DEF RequestFails, files, TypeOK
  <2>6. ASSUME NEW p \in Procs, NEW status \in {200, 304, 500}, NEW offered \in ETagOffers,
               RequestAnswered(p, status, offered)
        PROVE TypeOK'
    <3>1. CASE status = 200 /\ caching[p]
      <4> DEFINE m == [kind |-> "whole", age |-> 0,
                       offered |-> offered, etag |-> RecordsETag(offered)]
      <4>1. m \in MetaFile
        BY CacheAssumption DEF MetaFile, Kinds, Ages, RecordsETag, HeaderNames
      <4>2. /\ stamp' = [stamp EXCEPT ![p] = m] /\ GoTo(p, "openMeta")
            /\ seen' = [seen EXCEPT ![p] = NoMeta]
            /\ UNCHANGED <<url, caching, reply, files, crashes, torn, disturbed>>
        BY <2>6, <3>1 DEF RequestAnswered
      <4> QED
        BY <4>1, <4>2, NoMetaType DEF GoTo, files, TypeOK, Phases
    <3>2. CASE ~(status = 200 /\ caching[p])
      BY <2>6, <3>2, RecordTypes, ReturnType DEF RequestAnswered, files, TypeOK
    <3> QED BY <3>1, <3>2
  <2>7. ASSUME NEW p \in Procs, OpenMeta(p) PROVE TypeOK'
    BY <2>7, RecordTypes DEF OpenMeta, GoTo, TypeOK, Phases, RewritePhases, Kinds
  <2>8. ASSUME NEW p \in Procs, WriteMeta(p) PROVE TypeOK'
    <3>1. \A m \in Written(meta[url[p]], stamp[p], MetaOf("mixed")) : m \in MetaFile
      BY RecordTypes DEF Written, TypeOK, Kinds
    <3> QED
      BY <2>8, <3>1 DEF WriteMeta, GoTo, TypeOK, Phases, RewritePhases
  <2>9. ASSUME NEW p \in Procs, OpenBody(p) PROVE TypeOK'
    BY <2>9, RecordTypes DEF OpenBody, GoTo, TypeOK, Phases, RewritePhases, Kinds
  <2>10. ASSUME NEW p \in Procs, WriteBody(p) PROVE TypeOK'
    <3>1. Content(p) \in BodyFile
      BY DEF Content, TypeOK, MetaFile, BodyFile, Kinds
    <3>2. \A b \in Written(body[url[p]], Content(p), BodyOf("mixed")) : b \in BodyFile
      BY <3>1, RecordTypes DEF Written, Kinds
    <3>3. body' \in [Urls -> BodyFile]
      BY <2>10, <3>2 DEF WriteBody, TypeOK
    <3>4. Return(p, Answer("net")) /\ UNCHANGED <<meta, crashes, torn, disturbed>>
      BY <2>10 DEF WriteBody
    <3> QED
      BY <3>3, <3>4, RecordTypes, ReturnType DEF TypeOK
  <2>11. ASSUME NEW p \in Procs, Crash(p) PROVE TypeOK'
    <3>1. Return(p, Answer("error")) /\ UNCHANGED <<files, disturbed>>
      BY <2>11 DEF Crash
    <3>2. crashes' \in 0..MaxCrashes /\ torn' \in [Urls -> BOOLEAN]
      BY <2>11, CacheAssumption DEF Crash, TypeOK
    <3> QED
      BY <3>1, <3>2, RecordTypes, ReturnType DEF files, TypeOK
  <2>12. CASE UNCHANGED vars
    BY <2>12 DEF vars, TypeOK
  <2> QED
    BY <2>1, <2>2, <2>3, <2>4, <2>5, <2>6, <2>7, <2>8, <2>9, <2>10, <2>11, <2>12
       DEF Next, Step
<1> QED
  BY <1>1, <1>2, PTL DEF Spec

------------------------------------------------------------------------------
(***************************************************************************)
(* The pairing of the two files.  QuietEntryMatched speaks of the entry    *)
(* when nobody rewrites it; to be inductive it needs to know how far the   *)
(* one rewriting process of an entry that is not torn has come.            *)
(***************************************************************************)
\* What has been rewritten so far, at each phase of _store_cache.
Progress(p, u) ==
  /\ pc[p] = "writeMeta" => meta[u].kind = "empty"
  /\ pc[p] \in {"openBody", "writeBody"} =>
       meta[u].kind = "whole" /\ meta[u].age = stamp[p].age
  /\ pc[p] = "writeBody" => body[u].kind = "empty"

\* Someone who has a response to store has its metadata ready.
StampReady == \A p \in Procs :
  pc[p] \in RewritePhases \cup {"openMeta"} => stamp[p].kind = "whole"

RewriteAlone(u) == ~torn[u] =>
  /\ \A p, q \in Procs : Rewriting(p, u) /\ Rewriting(q, u) => p = q
  /\ \A p \in Procs : Rewriting(p, u) => Progress(p, u)
  /\ Quiet(u) => Vacant(u) \/ Matched(u)

\* A reader between the two files that met nothing so far.
ReadAlone(p) == pc[p] = "readBody" /\ ~disturbed[p] =>
  /\ ~torn[url[p]] /\ Quiet(url[p]) /\ Matched(url[p])
  /\ seen[p].kind = "whole" /\ seen[p].age = meta[url[p]].age

\* A fetch under way has not answered.
Unanswered(p) == pc[p] # "idle" => reply[p].kind = "none"

PairInv ==
  /\ StampReady
  /\ \A u \in Urls : RewriteAlone(u)
  /\ \A p \in Procs : ReadAlone(p) /\ Unanswered(p)
  /\ UndisturbedHitSound

LEMMA PairInvInit == Init => PairInv
  BY DEF Init, PairInv, StampReady, RewriteAlone, ReadAlone, Unanswered, UndisturbedHitSound,
         Rewriting, RewritePhases, Vacant, NoMeta, MetaOf, BodyOf, Answer

(* A process that is not past open(meta_path, "wb") before and after a step  *)
(* that leaves the files alone changes nothing for the others.               *)
LEMMA Bystanders ==
  ASSUME TypeOK, PairInv, NEW p \in Procs,
         UNCHANGED <<meta, body, torn>>,
         \A q \in Procs \ {p} : pc'[q] = pc[q] /\ url'[q] = url[q]
           /\ seen'[q] = seen[q] /\ stamp'[q] = stamp[q]
           /\ reply'[q] = reply[q] /\ disturbed'[q] = disturbed[q],
         pc[p] \notin RewritePhases, pc'[p] \notin RewritePhases,
         pc'[p] = "openMeta" => stamp'[p].kind = "whole",
         ReadAlone(p)', Unanswered(p)',
         reply'[p].kind = "hit" /\ ~disturbed'[p] =>
           reply'[p].whole /\ reply'[p].age = reply'[p].claimed
  PROVE  PairInv'
<1>1. \A q \in Procs, u \in Urls : Rewriting(q, u)' <=> Rewriting(q, u)
  BY DEF Rewriting
<1>2. \A u \in Urls : Quiet(u)' <=> Quiet(u)
  BY <1>1 DEF Quiet
<1>3. StampReady'
  BY DEF PairInv, StampReady
<1>4. ASSUME NEW u \in Urls PROVE RewriteAlone(u)'
  <2>1. \A q \in Procs : Rewriting(q, u) => pc'[q] = pc[q] /\ stamp'[q] = stamp[q]
    BY DEF Rewriting
  <2> QED
    BY <1>1, <1>2, <2>1 DEF PairInv, RewriteAlone, Progress, Vacant, Matched
<1>5. ASSUME NEW q \in Procs PROVE ReadAlone(q)'
  <2>1. CASE q = p
    BY <2>1
  <2>2. CASE q # p
    <3>1. url[q] \in Urls
      BY DEF TypeOK
    <3> QED
      BY <2>2, <3>1, <1>2 DEF PairInv, ReadAlone, Matched
  <2> QED BY <2>1, <2>2
<1>6. ASSUME NEW q \in Procs PROVE Unanswered(q)'
  BY DEF PairInv, Unanswered
<1>7. UndisturbedHitSound'
  BY DEF PairInv, UndisturbedHitSound
<1> QED
  BY <1>3, <1>4, <1>5, <1>6, <1>7 DEF PairInv

LEMMA PairInvTick == TypeOK /\ PairInv /\ Tick => PairInv'
<1> SUFFICES ASSUME TypeOK, PairInv, Tick PROVE PairInv'
  OBVIOUS
<1>1. \A f \in MetaFile \cup BodyFile :
        Aged(f).kind = f.kind /\ (f.kind = "whole" => Aged(f).age = Older(f.age))
  BY DEF Aged, MetaFile, BodyFile
<1>2. /\ \A u \in Urls : /\ meta'[u] = Aged(meta[u]) /\ body'[u] = Aged(body[u])
                         /\ meta[u] \in MetaFile /\ body[u] \in BodyFile
      /\ \A p \in Procs : /\ seen'[p] = Aged(seen[p]) /\ stamp'[p] = Aged(stamp[p])
                          /\ seen[p] \in MetaFile /\ stamp[p] \in MetaFile /\ url[p] \in Urls
  BY DEF Tick, TypeOK
<1>3. /\ pc' = pc /\ url' = url /\ torn' = torn /\ disturbed' = disturbed /\ reply' = reply
  BY DEF Tick
<1>4. StampReady'
  BY <1>1, <1>2, <1>3 DEF PairInv, StampReady
<1>5. ASSUME NEW u \in Urls PROVE RewriteAlone(u)'
  <2>1. Quiet(u)' <=> Quiet(u)
    BY <1>3 DEF Quiet, Rewriting
  <2>2. \A p \in Procs : Rewriting(p, u) => stamp[p].kind = "whole"
    BY DEF PairInv, StampReady, Rewriting
  <2>3. \A p \in Procs : Rewriting(p, u) /\ Progress(p, u) => Progress(p, u)'
    BY <1>1, <1>2, <1>3, <2>2 DEF Progress
  <2>4. Vacant(u) \/ Matched(u) => (Vacant(u) \/ Matched(u))'
    BY <1>1, <1>2 DEF Vacant, Matched
  <2> QED
    BY <1>3, <2>1, <2>3, <2>4 DEF PairInv, RewriteAlone, Rewriting
<1>6. ASSUME NEW p \in Procs PROVE ReadAlone(p)'
  <2>1. Quiet(url[p])' <=> Quiet(url[p])
    BY <1>3 DEF Quiet, Rewriting
  <2> QED
    BY <1>1, <1>2, <1>3, <2>1 DEF PairInv, ReadAlone, Matched
<1>7. ASSUME NEW p \in Procs PROVE Unanswered(p)'
  BY <1>3 DEF PairInv, Unanswered
<1>8. UndisturbedHitSound'
  BY <1>3 DEF PairInv, UndisturbedHitSound
<1> QED
  BY <1>4, <1>5, <1>6, <1>7, <1>8 DEF PairInv

LEMMA PairInvRead ==
  ASSUME TypeOK, PairInv, NEW p \in Procs,
         \/ \E u \in Urls, c \in BOOLEAN : Fetch(p, u, c)
         \/ ReadMeta(p)
         \/ ReadBody(p)
         \/ RequestFails(p)
         \/ \E status \in {200, 304, 500}, offered \in ETagOffers :
              RequestAnswered(p, status, offered)
  PROVE  PairInv'
<1>0. url[p] \in Urls
  BY DEF TypeOK
<1>1. ASSUME NEW u \in Urls, NEW c \in BOOLEAN, Fetch(p, u, c) PROVE PairInv'
  <2>1. pc'[p] \in {"readMeta", "request"} /\ reply'[p].kind = "none"
    BY <1>1 DEF Fetch, GoTo, TypeOK, Answer
  <2>2. pc[p] = "idle" /\ UNCHANGED <<meta, body, torn, seen, stamp>>
    BY <1>1 DEF Fetch, files
  <2>3. \A q \in Procs \ {p} : /\ pc'[q] = pc[q] /\ url'[q] = url[q]
                              /\ reply'[q] = reply[q] /\ disturbed'[q] = disturbed[q]
    BY <1>1 DEF Fetch, GoTo, TypeOK
  <2> QED
    BY <2>1, <2>2, <2>3, Bystanders DEF ReadAlone, Unanswered, RewritePhases
<1>2. ASSUME ReadMeta(p) PROVE PairInv'
  <2>1. /\ pc[p] = "readMeta" /\ pc'[p] \in {"readBody", "request"}
        /\ UNCHANGED <<meta, body, torn, url, stamp, reply>>
        /\ disturbed'[p] = (torn[url[p]] \/ ~Quiet(url[p]))
        /\ pc'[p] = "readBody" => meta[url[p]].kind = "whole" /\ seen'[p] = meta[url[p]]
    BY <1>2 DEF ReadMeta, GoTo, files, TypeOK, Fresh
  <2>2. \A q \in Procs \ {p} : /\ pc'[q] = pc[q] /\ seen'[q] = seen[q]
                              /\ disturbed'[q] = disturbed[q]
    BY <1>2 DEF ReadMeta, GoTo, TypeOK
  <2>3. Quiet(url[p])' <=> Quiet(url[p])
    BY <2>1, <2>2 DEF Quiet, Rewriting, RewritePhases
  <2>4. ASSUME pc'[p] = "readBody", ~disturbed'[p]
        PROVE  /\ ~torn[url[p]] /\ Quiet(url[p]) /\ Matched(url[p])
               /\ seen'[p].kind = "whole" /\ seen'[p].age = meta[url[p]].age
    BY <1>0, <2>1, <2>4 DEF PairInv, RewriteAlone, Vacant
  <2>6. ReadAlone(p)'
    BY <2>1, <2>3, <2>4 DEF ReadAlone, Matched
  <2>5. reply'[p].kind = "none"
    BY <2>1 DEF PairInv, Unanswered
  <2> QED
    BY <2>1, <2>2, <2>5, <2>6, Bystanders DEF RewritePhases, Unanswered
<1>3. ASSUME NEW r, Return(p, r), UNCHANGED <<meta, body, torn, disturbed>>,
             pc[p] \notin RewritePhases,
             r.kind = "hit" /\ ~disturbed[p] => r.whole /\ r.age = r.claimed
      PROVE  PairInv'
  <2>1. pc'[p] = "idle" /\ reply'[p] = r /\ url' = url
    BY <1>3 DEF Return, TypeOK
  <2>2. \A q \in Procs \ {p} : /\ pc'[q] = pc[q] /\ seen'[q] = seen[q]
                              /\ stamp'[q] = stamp[q] /\ reply'[q] = reply[q]
    BY <1>3 DEF Return, TypeOK
  <2> QED
    BY <1>3, <2>1, <2>2, Bystanders DEF ReadAlone, Unanswered, RewritePhases
<1>4. ASSUME ReadBody(p) PROVE PairInv'
  <2> DEFINE r == [kind |-> "hit", whole |-> body[url[p]].kind = "whole",
                   age |-> body[url[p]].age, claimed |-> seen[p].age]
  <2>1. /\ pc[p] = "readBody" /\ Return(p, r) /\ UNCHANGED <<meta, body, torn, disturbed>>
    BY <1>4 DEF ReadBody, files
  <2>2. ASSUME ~disturbed[p] PROVE body[url[p]].kind = "whole" /\ body[url[p]].age = seen[p].age
    BY <2>1, <2>2 DEF PairInv, ReadAlone, Matched
  <2>3. ~disturbed[p] => r.whole /\ r.age = r.claimed
    BY <2>2
  <2> QED
    BY <1>3, <2>1, <2>3 DEF RewritePhases
<1>5. ASSUME RequestFails(p) PROVE PairInv'
  BY <1>3, <1>5 DEF RequestFails, files, Answer, RewritePhases
<1>6. ASSUME NEW status \in {200, 304, 500}, NEW offered \in ETagOffers,
             RequestAnswered(p, status, offered)
      PROVE  PairInv'
  <2>1. CASE status = 200 /\ caching[p]
    <3>1. /\ pc[p] = "request" /\ pc'[p] = "openMeta" /\ stamp'[p].kind = "whole"
          /\ UNCHANGED <<meta, body, torn, url, reply, disturbed>>
      BY <1>6, <2>1 DEF RequestAnswered, GoTo, files, TypeOK
    <3>2. \A q \in Procs \ {p} : /\ pc'[q] = pc[q] /\ seen'[q] = seen[q]
                                /\ stamp'[q] = stamp[q]
      BY <1>6, <2>1 DEF RequestAnswered, GoTo, TypeOK
    <3>3. reply[p].kind = "none"
      BY <3>1 DEF PairInv, Unanswered
    <3> QED
      BY <3>1, <3>2, <3>3, Bystanders DEF ReadAlone, Unanswered, RewritePhases
  <2>2. CASE ~(status = 200 /\ caching[p])
    BY <1>3, <1>6, <2>2 DEF RequestAnswered, files, Answer, RewritePhases
  <2> QED BY <2>1, <2>2
<1> QED
  BY <1>1, <1>2, <1>4, <1>5, <1>6

(* A step of _store_cache by p: the entries of other URLs, and the other     *)
(* processes' phases and locals, stay as they are.                           *)
LEMMA PairInvStore ==
  ASSUME TypeOK, PairInv, NEW p \in Procs,
         pc[p] \in RewritePhases \cup {"openMeta"},
         url' = url,
         \A q \in Procs \ {p} : pc'[q] = pc[q] /\ seen'[q] = seen[q]
           /\ stamp'[q] = stamp[q] /\ reply'[q] = reply[q],
         \A u \in Urls \ {url[p]} : meta'[u] = meta[u] /\ body'[u] = body[u]
           /\ torn'[u] = torn[u],
         \A q \in Procs : disturbed'[q] <=>
           disturbed[q] \/ (pc[p] = "openMeta" /\ pc'[p] # "idle"
                            /\ pc[q] = "readBody" /\ url[q] = url[p]),
         pc[p] = "openMeta" => pc'[p] # "idle" \/ UNCHANGED <<meta, body, torn>>,
         pc'[p] \in RewritePhases => stamp'[p].kind = "whole",
         pc'[p] \in RewritePhases \cup {"idle"},
         Unanswered(p)',
         reply'[p].kind # "hit",
         RewriteAlone(url[p])'
  PROVE  PairInv'
<1>0. url[p] \in Urls
  BY DEF TypeOK
<1>1. StampReady'
  BY DEF PairInv, StampReady, RewritePhases
<1>2. ASSUME NEW u \in Urls, u # url[p] PROVE RewriteAlone(u)'
  <2>1. \A q \in Procs : Rewriting(q, u)' <=> Rewriting(q, u)
    BY <1>2 DEF Rewriting
  <2>2. \A q \in Procs : Rewriting(q, u) => q # p
    BY <1>2 DEF Rewriting
  <2>3. Quiet(u)' <=> Quiet(u)
    BY <2>1 DEF Quiet
  <2>4. \A q \in Procs : Rewriting(q, u) /\ Progress(q, u) => Progress(q, u)'
    BY <1>2, <2>2 DEF Progress
  <2> QED
    BY <1>2, <2>1, <2>3, <2>4 DEF PairInv, RewriteAlone, Vacant, Matched
<1>3. ASSUME NEW q \in Procs PROVE ReadAlone(q)'
  <2> SUFFICES ASSUME pc'[q] = "readBody", ~disturbed'[q]
               PROVE  /\ ~torn'[url[q]] /\ Quiet(url[q])' /\ Matched(url[q])'
                      /\ seen'[q].kind = "whole" /\ seen'[q].age = meta'[url[q]].age
    BY DEF ReadAlone
  <2>1. q # p /\ pc[q] = "readBody" /\ ~disturbed[q] /\ url[q] \in Urls
    BY DEF RewritePhases, TypeOK
  <2>2. /\ ~torn[url[q]] /\ Quiet(url[q]) /\ Matched(url[q])
        /\ seen[q].kind = "whole" /\ seen[q].age = meta[url[q]].age
    BY <2>1 DEF PairInv, ReadAlone
  <2>3. CASE url[q] = url[p]
    <3>1. pc[p] = "openMeta"
      BY <2>2, <2>3 DEF Quiet, Rewriting
    <3>2. pc'[p] = "idle"
      BY <2>1, <2>3, <3>1
    <3>3. Quiet(url[q])'
      BY <2>2, <3>1, <3>2 DEF Quiet, Rewriting, RewritePhases
    <3> QED
      BY <2>1, <2>2, <3>1, <3>2, <3>3 DEF Matched
  <2>4. CASE url[q] # url[p]
    <3>1. Quiet(url[q])'
      BY <2>2, <2>4 DEF Quiet, Rewriting
    <3> QED
      BY <2>1, <2>2, <2>4, <3>1 DEF Matched
  <2> QED BY <2>3, <2>4
<1>4. ASSUME NEW q \in Procs PROVE Unanswered(q)'
  BY DEF PairInv, Unanswered
<1>5. UndisturbedHitSound'
  BY DEF PairInv, UndisturbedHitSound
<1> QED
  BY <1>0, <1>1, <1>2, <1>3, <1>4, <1>5 DEF PairInv

LEMMA PairInvOpenMeta ==
  ASSUME TypeOK, PairInv, NEW p \in Procs, OpenMeta(p) PROVE PairInv'
<1> DEFINE u == url[p]
<1>0. u \in Urls
  BY DEF TypeOK
<1>1. /\ pc[p] = "openMeta" /\ pc'[p] = "writeMeta" /\ stamp[p].kind = "whole"
      /\ UNCHANGED <<body, url, seen, stamp, reply>>
      /\ torn'[u] = ~Quiet(u) /\ meta'[u].kind = "empty"
  BY <1>0 DEF OpenMeta, GoTo, TypeOK, MetaOf, PairInv, StampReady
<1>2. /\ \A q \in Procs \ {p} : pc'[q] = pc[q]
      /\ \A v \in Urls \ {u} : meta'[v] = meta[v] /\ torn'[v] = torn[v]
      /\ \A q \in Procs : disturbed'[q] <=> disturbed[q] \/ (pc[q] = "readBody" /\ url[q] = u)
  BY DEF OpenMeta, GoTo, TypeOK
<1>3. reply[p].kind = "none"
  BY <1>1 DEF PairInv, Unanswered
<1>4. RewriteAlone(u)'
  <2>1. ASSUME Quiet(u), NEW q \in Procs, Rewriting(q, u)' PROVE q = p
    BY <1>1, <1>2, <2>1 DEF Quiet, Rewriting
  <2>2. Rewriting(p, u)' /\ Progress(p, u)'
    BY <1>1 DEF Rewriting, RewritePhases, Progress
  <2> QED
    BY <1>1, <2>1, <2>2 DEF RewriteAlone, Quiet
<1> QED
  BY <1>1, <1>2, <1>3, <1>4, PairInvStore DEF RewritePhases, Unanswered

LEMMA PairInvWriteMeta ==
  ASSUME TypeOK, PairInv, NEW p \in Procs, WriteMeta(p) PROVE PairInv'
<1> DEFINE u == url[p]
<1>0. u \in Urls
  BY DEF TypeOK
<1>1. /\ pc[p] = "writeMeta" /\ pc'[p] = "openBody" /\ stamp[p].kind = "whole"
      /\ UNCHANGED <<body, url, seen, stamp, reply, torn, disturbed>>
      /\ meta'[u] \in Written(meta[u], stamp[p], MetaOf("mixed"))
  BY <1>0 DEF WriteMeta, GoTo, TypeOK, PairInv, StampReady, RewritePhases
<1>2. /\ \A q \in Procs \ {p} : pc'[q] = pc[q]
      /\ \A v \in Urls \ {u} : meta'[v] = meta[v]
  BY DEF WriteMeta, GoTo, TypeOK
<1>3. reply[p].kind = "none"
  BY <1>1 DEF PairInv, Unanswered
<1>4. Rewriting(p, u) /\ \A q \in Procs : Rewriting(q, u)' <=> Rewriting(q, u)
  BY <1>1, <1>2 DEF Rewriting, RewritePhases
<1>5. RewriteAlone(u)'
  <2> SUFFICES ASSUME ~torn[u]
               PROVE  /\ \A q, r \in Procs : Rewriting(q, u) /\ Rewriting(r, u) => q = r
                      /\ Progress(p, u)'
    BY <1>1, <1>4 DEF RewriteAlone, Quiet
  <2>1. /\ \A q, r \in Procs : Rewriting(q, u) /\ Rewriting(r, u) => q = r
        /\ meta[u].kind = "empty"
    BY <1>0, <1>1, <1>4 DEF PairInv, RewriteAlone, Progress
  <2>2. meta'[u] = stamp[p]
    BY <1>1, <2>1 DEF Written
  <2> QED
    BY <1>1, <2>1, <2>2 DEF Progress
<1> QED
  BY <1>1, <1>2, <1>3, <1>5, PairInvStore DEF RewritePhases, Unanswered

LEMMA PairInvOpenBody ==
  ASSUME TypeOK, PairInv, NEW p \in Procs, OpenBody(p) PROVE PairInv'
<1> DEFINE u == url[p]
<1>0. u \in Urls
  BY DEF TypeOK
<1>1. /\ pc[p] = "openBody" /\ pc'[p] = "writeBody" /\ stamp[p].kind = "whole"
      /\ UNCHANGED <<meta, url, seen, stamp, reply, torn, disturbed>>
      /\ body'[u].kind = "empty"
  BY <1>0 DEF OpenBody, GoTo, TypeOK, PairInv, StampReady, RewritePhases, BodyOf
<1>2. /\ \A q \in Procs \ {p} : pc'[q] = pc[q]
      /\ \A v \in Urls \ {u} : body'[v] = body[v]
  BY DEF OpenBody, GoTo, TypeOK
<1>3. reply[p].kind = "none"
  BY <1>1 DEF PairInv, Unanswered
<1>4. Rewriting(p, u) /\ \A q \in Procs : Rewriting(q, u)' <=> Rewriting(q, u)
  BY <1>1, <1>2 DEF Rewriting, RewritePhases
<1>5. RewriteAlone(u)'
  <2> SUFFICES ASSUME ~torn[u]
               PROVE  /\ \A q, r \in Procs : Rewriting(q, u) /\ Rewriting(r, u) => q = r
                      /\ Progress(p, u)'
    BY <1>1, <1>4 DEF RewriteAlone, Quiet
  <2> QED
    BY <1>0, <1>1, <1>4 DEF PairInv, RewriteAlone, Progress
<1> QED
  BY <1>1, <1>2, <1>3, <1>5, PairInvStore DEF RewritePhases, Unanswered

LEMMA PairInvWriteBody ==
  ASSUME TypeOK, PairInv, NEW p \in Procs, WriteBody(p) PROVE PairInv'
<1> DEFINE u == url[p]
<1>0. u \in Urls
  BY DEF TypeOK
<1>1. /\ pc[p] = "writeBody" /\ pc'[p] = "idle" /\ reply'[p].kind = "net"
      /\ UNCHANGED <<meta, url, torn, disturbed>>
      /\ body'[u] \in Written(body[u], Content(p), BodyOf("mixed"))
  BY <1>0 DEF WriteBody, Return, TypeOK, Answer
<1>2. /\ \A q \in Procs \ {p} : /\ pc'[q] = pc[q] /\ seen'[q] = seen[q]
                               /\ stamp'[q] = stamp[q] /\ reply'[q] = reply[q]
      /\ \A v \in Urls \ {u} : body'[v] = body[v]
  BY DEF WriteBody, Return, TypeOK
<1>3. Rewriting(p, u)
  BY <1>1 DEF Rewriting, RewritePhases
<1>4. RewriteAlone(u)'
  <2> SUFFICES ASSUME ~torn[u]
               PROVE  Quiet(u)' /\ Matched(u)'
    BY <1>1 DEF RewriteAlone, Quiet
  <2>1. /\ \A q \in Procs : Rewriting(q, u) => q = p
        /\ body[u].kind = "empty" /\ meta[u].kind = "whole" /\ meta[u].age = stamp[p].age
    BY <1>0, <1>1, <1>3 DEF PairInv, RewriteAlone, Progress
  <2>2. Quiet(u)'
    BY <1>1, <1>2, <2>1 DEF Quiet, Rewriting, RewritePhases
  <2>3. body'[u] = Content(p)
    BY <1>1, <2>1 DEF Written
  <2> QED
    BY <1>1, <2>1, <2>2, <2>3 DEF Matched, Content
<1> QED
  BY <1>1, <1>2, <1>4, PairInvStore DEF RewritePhases, Unanswered

LEMMA PairInvCrash ==
  ASSUME TypeOK, PairInv, NEW p \in Procs, Crash(p) PROVE PairInv'
<1> DEFINE u == url[p]
<1>0. u \in Urls
  BY DEF TypeOK
<1>1. /\ pc'[p] = "idle" /\ reply'[p].kind = "error"
      /\ UNCHANGED <<meta, body, url, disturbed>>
      /\ torn'[u] = (torn[u] \/ pc[p] \in RewritePhases)
  BY <1>0 DEF Crash, Return, TypeOK, Answer, files
<1>2. /\ \A q \in Procs \ {p} : /\ pc'[q] = pc[q] /\ seen'[q] = seen[q]
                               /\ stamp'[q] = stamp[q] /\ reply'[q] = reply[q]
      /\ \A v \in Urls \ {u} : torn'[v] = torn[v]
  BY DEF Crash, Return, TypeOK
<1>3. CASE pc[p] \in RewritePhases
  <2>1. RewriteAlone(u)'
    BY <1>1, <1>3 DEF RewriteAlone
  <2> QED
    BY <1>1, <1>2, <1>3, <2>1, PairInvStore DEF RewritePhases, Unanswered
<1>4. CASE pc[p] \notin RewritePhases
  <2>1. torn' = torn
    BY <1>4 DEF Crash, TypeOK
  <2> QED
    BY <1>1, <1>2, <1>4, <2>1, Bystanders DEF RewritePhases, ReadAlone, Unanswered
<1> QED BY <1>3, <1>4

LEMMA PairInvStep == TypeOK /\ PairInv /\ [Next]_vars => PairInv'
<1> SUFFICES ASSUME TypeOK, PairInv, [Next]_vars PROVE PairInv'
  OBVIOUS
<1>1. CASE UNCHANGED vars
  BY <1>1 DEF vars, PairInv, StampReady, RewriteAlone, ReadAlone, Unanswered, Progress,
       UndisturbedHitSound, Quiet, Rewriting, Vacant, Matched
<1> QED
  BY <1>1, PairInvTick, PairInvRead, PairInvOpenMeta, PairInvWriteMeta, PairInvOpenBody,
     PairInvWriteBody, PairInvCrash DEF Next, Step

(* The two files of an entry stay paired as far as any store has got.        *)
THEOREM PairInvariant == Spec => []PairInv
  BY TypeCorrect, PairInvInit, PairInvStep, PTL DEF Spec

(* Once a store has run alone to its end, the entry's two files are whole    *)
(* and of the same response, whatever crashes and overlaps came before.      *)
THEOREM EntryMatched == Spec => []QuietEntryMatched
<1>1. PairInv => QuietEntryMatched
  BY DEF PairInv, RewriteAlone, QuietEntryMatched
<1> QED
  BY <1>1, PairInvariant, PTL

(* A hit that met no store and no torn entry is one complete response of     *)
(* exactly the age its metadata gave it.                                     *)
THEOREM HitSound == Spec => []UndisturbedHitSound
<1>1. PairInv => UndisturbedHitSound
  BY DEF PairInv
<1> QED
  BY <1>1, PairInvariant, PTL

------------------------------------------------------------------------------
(* The refinement.                                                           *)

(* What PairInv says of the entries and the processes.                       *)
Settled ==
  /\ \A u \in Urls : Quiet(u) /\ ~torn[u] => Vacant(u) \/ Matched(u)
  /\ \A p \in Procs :
       /\ pc[p] \in StorePhases => stamp[p].kind = "whole"
       /\ pc[p] = "writeBody" /\ ~torn[url[p]] =>
            /\ meta[url[p]].kind = "whole" /\ meta[url[p]].age = stamp[p].age
            /\ body[url[p]].kind = "empty"
            /\ \A q \in Procs : Rewriting(q, url[p]) => q = p
       /\ pc[p] = "readBody" /\ ~disturbed[p] =>
            /\ Matched(url[p])
            /\ seen[p].kind = "whole" /\ seen[p].age = meta[url[p]].age
       /\ pc[p] # "idle" => reply[p].kind = "none"

LEMMA SettledHolds ==
  ASSUME TypeOK, PairInv
  PROVE  Settled
<1>1. \A p \in Procs : url[p] \in Urls
  BY DEF TypeOK
<1>2. ASSUME NEW p \in Procs, pc[p] = "writeBody", ~torn[url[p]]
      PROVE  /\ Progress(p, url[p])
             /\ \A q \in Procs : Rewriting(q, url[p]) => q = p
  BY <1>1, <1>2 DEF PairInv, RewriteAlone, Rewriting, RewritePhases
<1>3. \A p \in Procs : ReadAlone(p) /\ Unanswered(p)
  BY DEF PairInv
<1>4. StampReady
  BY DEF PairInv
<1>5. \A u \in Urls : Quiet(u) /\ ~torn[u] => Vacant(u) \/ Matched(u)
  BY DEF PairInv, RewriteAlone
<1> QED
  BY <1>2, <1>3, <1>4, <1>5 DEF Settled, Progress, ReadAlone, Unanswered, StampReady, StorePhases

(* A step of p leaves what the other processes hold alone.                   *)
Others(p) == \A q \in Procs : q # p =>
  /\ pc'[q] = pc[q] /\ url'[q] = url[q]
  /\ seen'[q] = seen[q] /\ stamp'[q] = stamp[q] /\ reply'[q] = reply[q]
Undisturbing(p) == \A q \in Procs : q # p => disturbed'[q] = disturbed[q]

LEMMA OthersWait ==
  ASSUME TypeOK, NEW p \in Procs, Step(p)
  PROVE  Others(p) /\ (Undisturbing(p) \/ OpenMeta(p))
<1>1. ASSUME NEW r, Return(p, r) PROVE Others(p)
  BY <1>1 DEF Return, Others, TypeOK
<1>2. CASE ReadBody(p) \/ RequestFails(p) \/ WriteBody(p) \/ Crash(p)
  BY <1>1, <1>2 DEF ReadBody, RequestFails, WriteBody, Crash, Undisturbing
<1>3. CASE \E status \in {200, 304, 500}, offered \in ETagOffers :
             RequestAnswered(p, status, offered)
  <2>1. PICK status \in {200, 304, 500}, offered \in ETagOffers :
          RequestAnswered(p, status, offered)
    BY <1>3
  <2>2. CASE status = 200 /\ caching[p]
    BY <2>1, <2>2 DEF RequestAnswered, GoTo, Others, Undisturbing, TypeOK
  <2>3. CASE ~(status = 200 /\ caching[p])
    BY <1>1, <2>1, <2>3 DEF RequestAnswered, Undisturbing
  <2> QED BY <2>2, <2>3
<1>4. CASE ReadMeta(p) \/ OpenMeta(p) \/ WriteMeta(p) \/ OpenBody(p)
  BY <1>4 DEF ReadMeta, OpenMeta, WriteMeta, OpenBody, GoTo, Others, Undisturbing, TypeOK
<1>5. CASE \E u \in Urls, c \in BOOLEAN : Fetch(p, u, c)
  BY <1>5 DEF Fetch, GoTo, Others, Undisturbing, TypeOK
<1> QED BY <1>2, <1>3, <1>4, <1>5 DEF Step

--------------------------------------------------------------------------------
(* The mapped variables after a step of p that disturbs nobody: all of them  *)
(* change at p alone.                                                        *)
LEMMA ReceivedBecomes ==
  ASSUME NEW p \in Procs, Others(p), NEW x, Received(p)' = x
  PROVE  [q \in Procs |-> Received(q)]' = [[q \in Procs |-> Received(q)] EXCEPT ![p] = x]
BY DEF Others, Received

LEMMA ReceivedStays ==
  ASSUME NEW p \in Procs, Others(p), Received(p)' = Received(p)
  PROVE  [q \in Procs |-> Received(q)]' = [q \in Procs |-> Received(q)]
BY DEF Others, Received

LEMMA ChosenBecomes ==
  ASSUME NEW p \in Procs, Others(p), Undisturbing(p), NEW x, Chosen(p)' = x
  PROVE  [q \in Procs |-> Chosen(q)]' = [[q \in Procs |-> Chosen(q)] EXCEPT ![p] = x]
BY DEF Others, Undisturbing, Chosen, Serving

LEMMA ChosenStays ==
  ASSUME NEW p \in Procs, Others(p), Undisturbing(p), Chosen(p)' = Chosen(p)
  PROVE  [q \in Procs |-> Chosen(q)]' = [q \in Procs |-> Chosen(q)]
BY DEF Others, Undisturbing, Chosen, Serving

Unsure(p) == Serving(p) /\ disturbed[p]

LEMMA UnsureBecomes ==
  ASSUME NEW p \in Procs, Others(p), Undisturbing(p), NEW x, Unsure(p)' = x
  PROVE  [q \in Procs |-> Serving(q) /\ disturbed[q]]' =
           [[q \in Procs |-> Serving(q) /\ disturbed[q]] EXCEPT ![p] = x]
BY DEF Others, Undisturbing, Unsure, Serving

LEMMA UnsureStays ==
  ASSUME NEW p \in Procs, Others(p), Undisturbing(p), Unsure(p)' = Unsure(p)
  PROVE  [q \in Procs |-> Serving(q) /\ disturbed[q]]' =
           [q \in Procs |-> Serving(q) /\ disturbed[q]]
BY DEF Others, Undisturbing, Unsure, Serving

LEMMA AnswerBecomes ==
  ASSUME NEW p \in Procs, Others(p), Undisturbing(p), NEW x, Ended(p)' = x
  PROVE  [q \in Procs |-> Ended(q)]' = [[q \in Procs |-> Ended(q)] EXCEPT ![p] = x]
BY DEF Others, Undisturbing, Ended

LEMMA AnswerStays ==
  ASSUME NEW p \in Procs, Others(p), Undisturbing(p), Ended(p)' = Ended(p)
  PROVE  [q \in Procs |-> Ended(q)]' = [q \in Procs |-> Ended(q)]
BY DEF Others, Undisturbing, Ended

(* A step of p that neither begins nor ends a store.                         *)
LEMMA StoresStay ==
  ASSUME NEW p \in Procs, Others(p), pc[p] \in RewritePhases <=> pc'[p] \in RewritePhases,
         pc[p] \in RewritePhases => url'[p] = url[p]
  PROVE  /\ \A u \in Urls : Quiet(u)' <=> Quiet(u)
         /\ {q \in Procs : pc[q] \in RewritePhases}' = {q \in Procs : pc[q] \in RewritePhases}
<1>1. \A q \in Procs, u \in Urls : Rewriting(q, u)' <=> Rewriting(q, u)
  BY DEF Rewriting, Others
<1> QED BY <1>1 DEF Quiet, Others

LEMMA OfferStays ==
  ASSUME NEW u \in Urls, meta'[u] = meta[u], body'[u] = body[u], torn'[u] = torn[u],
         Quiet(u)' <=> Quiet(u)
  PROVE  OnOffer(u)' = OnOffer(u)
BY DEF OnOffer, Matched

LEMMA OfferBecomes ==
  ASSUME NEW v \in Urls, NEW x, OnOffer(v)' = x,
         \A u \in Urls : u # v => OnOffer(u)' = OnOffer(u)
  PROVE  [u \in Urls |-> OnOffer(u)]' = [[u \in Urls |-> OnOffer(u)] EXCEPT ![v] = x]
OBVIOUS

LEMMA OffersStay ==
  ASSUME NEW p \in Procs, Others(p), UNCHANGED <<meta, body, torn>>,
         pc[p] \notin RewritePhases, pc'[p] \notin RewritePhases
  PROVE  /\ [u \in Urls |-> OnOffer(u)]' = [u \in Urls |-> OnOffer(u)]
         /\ {q \in Procs : pc[q] \in RewritePhases}' = {q \in Procs : pc[q] \in RewritePhases}
<1>1. \A u \in Urls : OnOffer(u)' = OnOffer(u)
  BY StoresStay, OfferStays
<1> QED BY <1>1, StoresStay

LEMMA IsUndecided ==
  ASSUME NEW p \in Procs, pc[p] \notin StorePhases, pc[p] # "readBody"
  PROVE  Contract!Undecided(p) /\ Chosen(p) = Nothing /\ Received(p) = Nothing /\ ~Unsure(p)
BY DEF Contract!Undecided, Chosen, Received, Unsure, Serving, Nothing

LEMMA NotAnswered ==
  ASSUME Settled, NEW p \in Procs, pc[p] # "idle"
  PROVE  [q \in Procs |-> Ended(q)][p].kind = "none"
BY DEF Settled, Ended

\* What changes in the contract when p's fetch neither ends nor decides.
LEMMA StillUndecided ==
  ASSUME NEW p \in Procs, pc[p] \notin StorePhases, pc[p] # "readBody",
         pc'[p] \notin StorePhases, pc'[p] # "readBody"
  PROVE  /\ Chosen(p)' = Chosen(p) /\ Received(p)' = Received(p) /\ Unsure(p)' = Unsure(p)
BY DEF Chosen, Received, Unsure, Serving

--------------------------------------------------------------------------------
LEMMA FetchAsks ==
  ASSUME TypeOK, NEW p \in Procs, Others(p), Undisturbing(p),
         NEW u \in Urls, NEW c \in BOOLEAN, Fetch(p, u, c)
  PROVE  Contract!Ask(p, u)
<1>1. /\ pc[p] = "idle" /\ pc'[p] \in {"readMeta", "request"}
      /\ reply'[p] = Answer("none") /\ url' = [url EXCEPT ![p] = u]
      /\ UNCHANGED <<meta, body, torn>>
  BY DEF Fetch, GoTo, TypeOK, files
<1>2. /\ pc[p] \notin StorePhases /\ pc[p] # "readBody"
      /\ pc'[p] \notin StorePhases /\ pc'[p] # "readBody"
      /\ pc[p] \notin RewritePhases /\ pc'[p] \notin RewritePhases
  BY <1>1 DEF StorePhases, RewritePhases
<1>3. Ended(p)' = Contract!Outcome("none", Contract!Nothing)
  BY <1>1 DEF Ended, Answer, Contract!Outcome, Contract!Nothing, Nothing
<1> QED
  BY <1>1, <1>2, <1>3, IsUndecided, StillUndecided, OffersStay, ReceivedStays, ChosenStays,
     UnsureStays, AnswerBecomes DEF Contract!Ask

LEMMA ReadMetaChooses ==
  ASSUME TypeOK, Settled, NEW p \in Procs, Others(p), Undisturbing(p), ReadMeta(p)
  PROVE  Contract!Choose(p) \/ Contract!Gamble(p) \/ UNCHANGED Contract!cvars
<1> DEFINE u == url[p]
<1>1. /\ pc[p] = "readMeta" /\ UNCHANGED <<meta, body, torn, url, reply>> /\ u \in Urls
      /\ disturbed'[p] = (torn[u] \/ ~Quiet(u))
      /\ \/ pc'[p] = "readBody" /\ Fresh(meta[u]) /\ seen'[p] = meta[u]
         \/ pc'[p] = "request"
  BY DEF ReadMeta, GoTo, TypeOK, files, Fresh
<1>2. /\ pc[p] \notin StorePhases /\ pc[p] # "readBody" /\ pc'[p] \notin StorePhases
      /\ pc[p] \notin RewritePhases /\ pc'[p] \notin RewritePhases
  BY <1>1 DEF StorePhases, RewritePhases
<1>3. /\ Contract!Undecided(p) /\ [q \in Procs |-> Ended(q)][p].kind = "none"
      /\ Chosen(p) = Nothing /\ Received(p) = Nothing /\ ~Unsure(p)
  BY <1>1, <1>2, IsUndecided, NotAnswered
<1>4. /\ [v \in Urls |-> OnOffer(v)]' = [v \in Urls |-> OnOffer(v)]
      /\ {q \in Procs : pc[q] \in RewritePhases}' = {q \in Procs : pc[q] \in RewritePhases}
  BY <1>1, <1>2, OffersStay
<1>5. Ended(p)' = Ended(p) /\ Received(p)' = Received(p)
  BY <1>1, <1>2 DEF Settled, Ended, Received
<1>6. UNCHANGED <<[q \in Procs |-> Ended(q)], [q \in Procs |-> Received(q)]>>
  BY <1>5, AnswerStays, ReceivedStays
<1>7. CASE pc'[p] = "request"
  <2>1. Chosen(p)' = Chosen(p) /\ Unsure(p)' = Unsure(p)
    BY <1>2, <1>7, StillUndecided
  <2> QED BY <1>1, <1>4, <1>6, <2>1, ChosenStays, UnsureStays DEF Contract!cvars
<1>8. CASE pc'[p] = "readBody" /\ Fresh(meta[u]) /\ seen'[p] = meta[u] /\ ~(torn[u] \/ ~Quiet(u))
  <2>1. Matched(u)
    BY <1>1, <1>8 DEF Settled, Fresh, Vacant
  <2>2. OnOffer(u) = Response(meta[u].age)
    BY <1>8, <2>1 DEF OnOffer
  <2>3. Chosen(p)' = OnOffer(u) /\ OnOffer(u).has /\ OnOffer(u).age <= TTL
    <3>1. ~disturbed'[p]
      BY <1>1, <1>8
    <3>2. Chosen(p)' = Response(meta[u].age)
      BY <1>8, <3>1 DEF Chosen, Serving
    <3>3. meta[u].age <= TTL
      BY <1>8 DEF Fresh
    <3>4. OnOffer(u).has /\ OnOffer(u).age = meta[u].age
      BY <2>2 DEF Response
    <3> QED BY <2>2, <3>2, <3>3, <3>4
  <2>4. Unsure(p)' = Unsure(p)
    BY <1>1, <1>3, <1>8 DEF Unsure
  <2>5. [v \in Urls |-> OnOffer(v)][u] = OnOffer(u)
    BY <1>1
  <2> QED
    BY <1>1, <1>3, <1>4, <1>6, <2>3, <2>4, <2>5, ChosenBecomes, UnsureStays DEF Contract!Choose
<1>9. CASE pc'[p] = "readBody" /\ (torn[u] \/ ~Quiet(u))
  <2>1. torn[u] \/ Contract!BeingStored(u)
    BY <1>1, <1>9 DEF Quiet, Rewriting, Contract!BeingStored
  <2>2. Chosen(p)' = Chosen(p) /\ Unsure(p)' = TRUE
    BY <1>1, <1>3, <1>9 DEF Chosen, Unsure, Serving
  <2> QED
    BY <1>1, <1>3, <1>4, <1>6, <2>1, <2>2, ChosenStays, UnsureBecomes DEF Contract!Gamble
<1> QED BY <1>1, <1>7, <1>8, <1>9

LEMMA ReadBodyServes ==
  ASSUME TypeOK, Settled, NEW p \in Procs, Others(p), Undisturbing(p), ReadBody(p)
  PROVE  Contract!Serve(p) \/ Contract!ServeAnything(p)
<1> DEFINE r == [kind |-> "hit", whole |-> body[url[p]].kind = "whole",
                 age |-> body[url[p]].age, claimed |-> seen[p].age]
<1>1. /\ pc[p] = "readBody" /\ pc'[p] = "idle" /\ reply'[p] = r
      /\ UNCHANGED <<meta, body, torn, url, disturbed>>
  BY DEF ReadBody, Return, TypeOK, files
<1>2. /\ [v \in Urls |-> OnOffer(v)]' = [v \in Urls |-> OnOffer(v)]
      /\ {q \in Procs : pc[q] \in RewritePhases}' = {q \in Procs : pc[q] \in RewritePhases}
  BY <1>1, OffersStay DEF RewritePhases
<1>3. [q \in Procs |-> Received(q)]' = [q \in Procs |-> Received(q)]
  BY <1>1, ReceivedStays DEF Received, StorePhases, RewritePhases
<1>4. Chosen(p)' = Nothing /\ Unsure(p)' = FALSE /\ Nothing = Contract!Nothing
  BY <1>1 DEF Chosen, Unsure, Serving, Nothing, Contract!Nothing
<1>5. CASE ~disturbed[p]
  <2>1. body[url[p]].kind = "whole" /\ body[url[p]].age = seen[p].age
    BY <1>1, <1>5 DEF Settled, Matched
  <2>2. r.whole /\ r.age = seen[p].age /\ r.kind = "hit"
    BY <2>1
  <2> HIDE DEF r
  <2>3. Chosen(p) = Response(seen[p].age) /\ Unsure(p) = FALSE
    BY <1>1, <1>5 DEF Chosen, Unsure, Serving
  <2>4. Ended(p)' = Contract!Outcome("hit", Chosen(p))
    BY <1>1, <1>5, <2>2, <2>3 DEF Ended, Contract!Outcome
  <2>5. [q \in Procs |-> Chosen(q)][p] = Chosen(p) /\ Chosen(p).has
    BY <2>3 DEF Response
  <2>6. Unsure(p)' = Unsure(p)
    BY <1>4, <2>3
  <2> QED
    BY <1>1, <1>2, <1>3, <1>4, <2>4, <2>5, <2>6, AnswerBecomes, ChosenBecomes, UnsureStays
       DEF Contract!Serve
<1>6. CASE disturbed[p]
  <2>1. r.kind = "hit"
    OBVIOUS
  <2> HIDE DEF r
  <2>2. Ended(p)' = Contract!Outcome("anything", Contract!Nothing)
    BY <1>1, <1>4, <1>6, <2>1 DEF Ended, Contract!Outcome
  <2>3. Chosen(p)' = Chosen(p)
    BY <1>4, <1>6 DEF Chosen
  <2>4. [q \in Procs |-> Serving(q) /\ disturbed[q]][p]
    BY <1>1, <1>6 DEF Serving
  <2> QED
    BY <1>1, <1>2, <1>3, <1>4, <2>2, <2>3, <2>4, AnswerBecomes, ChosenStays, UnsureBecomes
       DEF Contract!ServeAnything
<1>7. disturbed[p] \in BOOLEAN
  BY DEF TypeOK
<1> QED BY <1>5, <1>6

LEMMA RequestEnds ==
  ASSUME TypeOK, Settled, NEW p \in Procs, Others(p), Undisturbing(p),
         \/ RequestFails(p)
         \/ \E status \in {200, 304, 500}, offered \in ETagOffers :
              RequestAnswered(p, status, offered)
  PROVE  Contract!Bypass(p) \/ Contract!Receive(p)
<1>1. /\ pc[p] = "request" /\ UNCHANGED <<meta, body, torn, url, disturbed>>
  BY DEF RequestFails, RequestAnswered, Return, files
<1>2. /\ Contract!Undecided(p) /\ [q \in Procs |-> Ended(q)][p].kind = "none"
      /\ Chosen(p) = Nothing /\ Received(p) = Nothing /\ ~Unsure(p)
  BY <1>1, IsUndecided, NotAnswered DEF StorePhases, RewritePhases
<1>3. CASE \E kind \in {"net", "error"} : Return(p, Answer(kind))
  <2>1. PICK kind \in {"net", "error"} : Return(p, Answer(kind))
    BY <1>3
  <2>2. pc'[p] = "idle" /\ reply'[p] = Answer(kind)
    BY <2>1 DEF Return, TypeOK
  <2>3. Ended(p)' = Contract!Outcome(kind, Contract!Nothing)
    BY <2>2 DEF Ended, Answer, Contract!Outcome, Contract!Nothing, Nothing
  <2>4. Chosen(p)' = Chosen(p) /\ Received(p)' = Received(p) /\ Unsure(p)' = Unsure(p)
    BY <1>1, <2>2, StillUndecided DEF StorePhases, RewritePhases
  <2>5. /\ [v \in Urls |-> OnOffer(v)]' = [v \in Urls |-> OnOffer(v)]
        /\ {q \in Procs : pc[q] \in RewritePhases}' = {q \in Procs : pc[q] \in RewritePhases}
    BY <1>1, <2>2, OffersStay DEF RewritePhases
  <2>6. UNCHANGED <<[q \in Procs |-> Chosen(q)], [q \in Procs |-> Received(q)],
                    [q \in Procs |-> Serving(q) /\ disturbed[q]]>>
    BY <2>4, ChosenStays, ReceivedStays, UnsureStays
  <2>7. [q \in Procs |-> Ended(q)]' = [[q \in Procs |-> Ended(q)] EXCEPT ![p] =
                                       Contract!Outcome(kind, Contract!Nothing)]
    BY <2>3, AnswerBecomes
  <2> QED BY <1>1, <1>2, <2>5, <2>6, <2>7 DEF Contract!Bypass
<1>4. CASE ~\E kind \in {"net", "error"} : Return(p, Answer(kind))
  <2>1. pc'[p] = "openMeta" /\ stamp'[p].age = 0 /\ reply' = reply
    BY <1>4 DEF RequestFails, RequestAnswered, GoTo, TypeOK
  <2>2. Received(p)' = Contract!Response(0)
    BY <2>1 DEF Received, StorePhases, Response, Contract!Response
  <2>3. Chosen(p)' = Chosen(p) /\ Unsure(p)' = Unsure(p) /\ Ended(p)' = Ended(p)
    BY <1>1, <2>1 DEF Chosen, Unsure, Serving, Ended
  <2>4. /\ [v \in Urls |-> OnOffer(v)]' = [v \in Urls |-> OnOffer(v)]
        /\ {q \in Procs : pc[q] \in RewritePhases}' = {q \in Procs : pc[q] \in RewritePhases}
    BY <1>1, <2>1, OffersStay DEF RewritePhases
  <2> QED
    BY <1>1, <1>2, <2>2, <2>3, <2>4, AnswerStays, ChosenStays, ReceivedBecomes, UnsureStays
       DEF Contract!Receive
<1> QED BY <1>3, <1>4

(* The beginning of a store withdraws what was on offer from those about to  *)
(* serve it.                                                                 *)
LEMMA OpenMetaBegins ==
  ASSUME TypeOK, Settled, NEW p \in Procs, Others(p), OpenMeta(p)
  PROVE  Contract!Begin(p)
<1> DEFINE u == url[p]
           storing == {q \in Procs : pc[q] \in RewritePhases}
<1>1. /\ pc[p] = "openMeta" /\ pc' = [pc EXCEPT ![p] = "writeMeta"] /\ u \in Urls
      /\ torn' = [torn EXCEPT ![u] = ~Quiet(u)]
      /\ \A q \in Procs : disturbed'[q] = (disturbed[q] \/ (pc[q] = "readBody" /\ url[q] = u))
      /\ UNCHANGED <<body, url, seen, stamp, reply>>
      /\ \A v \in Urls : v # u => meta'[v] = meta[v]
  BY DEF OpenMeta, GoTo, TypeOK
<1>2. Quiet(u) <=> ~Contract!BeingStored(u)
  BY DEF Quiet, Rewriting, Contract!BeingStored
<1>3. torn' = [torn EXCEPT ![u] = Contract!BeingStored(u)]
  <2>1. PICK b \in BOOLEAN : (b <=> ~Quiet(u)) /\ (b <=> Contract!BeingStored(u))
    BY <1>2
  <2>2. b = ~Quiet(u)
    BY <2>1 DEF Quiet
  <2>3. b = Contract!BeingStored(u)
    BY <2>1 DEF Contract!BeingStored
  <2>4. torn' = [torn EXCEPT ![u] = b]
    BY <2>2 DEF OpenMeta
  <2> QED BY <2>3, <2>4
<1>4. storing' = storing \cup {p} /\ p \notin storing
  BY <1>1 DEF RewritePhases, TypeOK
<1>5. [q \in Procs |-> Received(q)][p].has
      /\ [q \in Procs |-> Received(q)]' = [q \in Procs |-> Received(q)]
  <2>1. Received(p) = Response(stamp[p].age) /\ Received(p)' = Received(p)
    BY <1>1 DEF Received, StorePhases, RewritePhases, TypeOK
  <2>2. [q \in Procs |-> Received(q)][p] = Received(p)
    OBVIOUS
  <2>3. Received(p).has
    BY <2>1 DEF Response
  <2> QED BY <2>1, <2>2, <2>3, ReceivedStays
<1>6. [v \in Urls |-> OnOffer(v)]' = [[v \in Urls |-> OnOffer(v)] EXCEPT ![u] = Contract!Nothing]
  <2>1. Rewriting(p, u)'
    BY <1>1 DEF Rewriting, RewritePhases, TypeOK
  <2>2. OnOffer(u)' = Contract!Nothing
    BY <2>1 DEF OnOffer, Quiet, Nothing, Contract!Nothing
  <2>3. ASSUME NEW v \in Urls, v # u PROVE OnOffer(v)' = OnOffer(v)
    <3>1. \A q \in Procs : Rewriting(q, v)' <=> Rewriting(q, v)
      BY <1>1, <2>3 DEF Rewriting, TypeOK
    <3>2. (Quiet(v)' <=> Quiet(v)) /\ torn'[v] = torn[v] /\ meta'[v] = meta[v] /\ body'[v] = body[v]
      BY <1>1, <2>3, <3>1 DEF Quiet, TypeOK
    <3> QED BY <3>2, OfferStays
  <2> QED BY <1>1, <2>2, <2>3, OfferBecomes
<1>7. \A q \in Procs : Serving(q)' <=> Serving(q)
  BY <1>1 DEF Serving, TypeOK
<1>8. [q \in Procs |-> Chosen(q)]' =
        [q \in Procs |-> IF url[q] = u THEN Contract!Nothing ELSE [r \in Procs |-> Chosen(r)][q]]
  <2>1. ASSUME NEW q \in Procs
        PROVE  Chosen(q)' = IF url[q] = u THEN Contract!Nothing ELSE Chosen(q)
    <3>1. CASE url[q] = u
      BY <1>1, <1>7, <3>1 DEF Chosen, Serving, Nothing, Contract!Nothing
    <3>2. CASE url[q] # u
      <4>1. disturbed'[q] <=> disturbed[q]
        BY <1>1, <3>2
      <4> QED BY <1>1, <1>7, <3>2, <4>1 DEF Chosen
    <3> QED BY <3>1, <3>2
  <2> QED BY <2>1
<1>9. [q \in Procs |-> Serving(q) /\ disturbed[q]]' =
        [q \in Procs |-> [r \in Procs |-> Serving(r) /\ disturbed[r]][q]
                         \/ (url[q] = u /\ [r \in Procs |-> Chosen(r)][q].has)]
  <2>1. ASSUME NEW q \in Procs
        PROVE  (Serving(q) /\ disturbed[q])' =
                 ((Serving(q) /\ disturbed[q]) \/ (url[q] = u /\ Chosen(q).has))
    <3>1. Chosen(q).has = (Serving(q) /\ ~disturbed[q])
      BY DEF Chosen, Response, Nothing, Serving
    <3>2. disturbed'[q] = (disturbed[q] \/ (Serving(q) /\ url[q] = u))
      BY <1>1 DEF Serving
    <3>3. Serving(q) \in BOOLEAN /\ Serving(q)' \in BOOLEAN /\ disturbed[q] \in BOOLEAN
      BY DEF Serving, TypeOK
    <3> QED BY <1>7, <3>1, <3>2, <3>3
  <2> QED BY <2>1
<1>10. [q \in Procs |-> Ended(q)]' = [q \in Procs |-> Ended(q)]
  <2>1. ASSUME NEW q \in Procs PROVE Ended(q)' = Ended(q)
    <3>1. pc[q] = "readBody" => reply[q].kind # "hit"
      BY DEF Settled
    <3>2. pc[q] # "readBody" => (disturbed'[q] <=> disturbed[q])
      BY <1>1
    <3> QED BY <1>1, <3>1, <3>2 DEF Ended
  <2> QED BY <2>1
<1> QED
  BY <1>1, <1>3, <1>4, <1>5, <1>6, <1>8, <1>9, <1>10 DEF Contract!Begin

(* While p rewrites an entry, nothing is on offer there.                     *)
LEMMA StoreStutters ==
  ASSUME TypeOK, Settled, NEW p \in Procs, Others(p), Undisturbing(p), WriteMeta(p) \/ OpenBody(p)
  PROVE  UNCHANGED Contract!cvars
<1>1. /\ pc[p] \in RewritePhases /\ pc'[p] \in RewritePhases
      /\ UNCHANGED <<url, stamp, reply, torn, disturbed>> /\ url[p] \in Urls
      /\ \A v \in Urls : v # url[p] => meta'[v] = meta[v] /\ body'[v] = body[v]
  BY DEF WriteMeta, OpenBody, GoTo, TypeOK, RewritePhases
<1>2. /\ \A v \in Urls : Quiet(v)' <=> Quiet(v)
      /\ {q \in Procs : pc[q] \in RewritePhases}' = {q \in Procs : pc[q] \in RewritePhases}
  BY <1>1, StoresStay
<1>3. ASSUME NEW v \in Urls PROVE OnOffer(v)' = OnOffer(v)
  <2>1. CASE v = url[p]
    <3>1. ~Quiet(v)
      BY <1>1, <2>1 DEF Quiet, Rewriting
    <3> QED BY <1>2, <3>1 DEF OnOffer
  <2>2. CASE v # url[p]
    BY <1>1, <1>2, <2>2, OfferStays
  <2> QED BY <2>1, <2>2
<1>4. /\ Chosen(p)' = Chosen(p) /\ Received(p)' = Received(p) /\ Unsure(p)' = Unsure(p)
      /\ Ended(p)' = Ended(p)
  BY <1>1 DEF Chosen, Unsure, Serving, Received, Ended, RewritePhases, StorePhases
<1> QED
  BY <1>1, <1>2, <1>3, <1>4, ChosenStays, ReceivedStays, UnsureStays, AnswerStays
     DEF Contract!cvars

(* With its last write a store that ran alone puts its response on offer.    *)
LEMMA WriteBodyCompletes ==
  ASSUME TypeOK, Settled, NEW p \in Procs, Others(p), Undisturbing(p), WriteBody(p)
  PROVE  Contract!Complete(p)
<1> DEFINE u == url[p]
           storing == {q \in Procs : pc[q] \in RewritePhases}
<1>1. /\ pc[p] = "writeBody" /\ pc'[p] = "idle" /\ reply'[p] = Answer("net")
      /\ UNCHANGED <<url, meta, torn>> /\ u \in Urls
      /\ \A v \in Urls : v # u => body'[v] = body[v]
  BY DEF WriteBody, Return, TypeOK
<1>2. p \in storing /\ storing' = storing \ {p}
  BY <1>1 DEF RewritePhases, Others
<1>3. Received(p) = Response(stamp[p].age) /\ Received(p)' = Contract!Nothing
  BY <1>1 DEF Received, StorePhases, RewritePhases, Nothing, Contract!Nothing
<1>4. \A q \in Procs, v \in Urls : Rewriting(q, v)' <=> Rewriting(q, v) /\ q # p
  BY <1>1 DEF Rewriting, RewritePhases, Others
<1>5. OnOffer(u)' = IF torn[u] THEN Contract!Nothing ELSE Received(p)
  <2>1. CASE torn[u]
    BY <1>1, <2>1 DEF OnOffer, Nothing, Contract!Nothing
  <2>2. CASE ~torn[u]
    <3>1. /\ meta[u].kind = "whole" /\ meta[u].age = stamp[p].age /\ body[u].kind = "empty"
          /\ \A q \in Procs : Rewriting(q, u) => q = p
      BY <1>1, <2>2 DEF Settled
    <3>2. body' = [body EXCEPT ![u] = Content(p)]
      BY <3>1 DEF WriteBody, Written
    <3>3. body'[u].kind = "whole" /\ body'[u].age = stamp[p].age
      BY <1>1, <3>2 DEF Content, TypeOK
    <3>4. Quiet(u)'
      BY <1>1, <1>4, <3>1 DEF Quiet
    <3>5. Matched(u)' /\ meta'[u].age = stamp[p].age
      BY <1>1, <3>1, <3>3 DEF Matched
    <3> QED BY <1>1, <1>3, <2>2, <3>4, <3>5 DEF OnOffer
  <2> QED BY <2>1, <2>2
<1>6. ASSUME NEW v \in Urls, v # u PROVE OnOffer(v)' = OnOffer(v)
  <2>1. \A q \in Procs : Rewriting(q, v)' <=> Rewriting(q, v)
    BY <1>1, <1>4, <1>6 DEF Rewriting
  <2> QED BY <1>1, <1>6, <2>1, OfferStays DEF Quiet
<1>7. [v \in Urls |-> OnOffer(v)]' =
        [[v \in Urls |-> OnOffer(v)] EXCEPT
           ![u] = IF torn[u] THEN Contract!Nothing ELSE [q \in Procs |-> Received(q)][p]]
  <2>1. [q \in Procs |-> Received(q)][p] = Received(p)
    OBVIOUS
  <2> QED BY <1>1, <1>5, <1>6, <2>1, OfferBecomes
<1>8. Ended(p)' = Contract!Outcome("net", Contract!Nothing)
  BY <1>1 DEF Ended, Answer, Contract!Outcome, Contract!Nothing, Nothing
<1>9. Chosen(p)' = Chosen(p) /\ Unsure(p)' = Unsure(p)
  BY <1>1 DEF Chosen, Unsure, Serving
<1>10. UNCHANGED <<[q \in Procs |-> Chosen(q)], [q \in Procs |-> Serving(q) /\ disturbed[q]]>>
  BY <1>9, ChosenStays, UnsureStays
<1>11. /\ [q \in Procs |-> Received(q)]' = [[q \in Procs |-> Received(q)] EXCEPT ![p] = Contract!Nothing]
       /\ [q \in Procs |-> Ended(q)]' =
            [[q \in Procs |-> Ended(q)] EXCEPT ![p] = Contract!Outcome("net", Contract!Nothing)]
  BY <1>3, <1>8, ReceivedBecomes, AnswerBecomes
<1> QED BY <1>1, <1>2, <1>7, <1>10, <1>11 DEF Contract!Complete

(* A process that dies in its store leaves nothing on offer there.           *)
LEMMA CrashDies ==
  ASSUME TypeOK, Settled, NEW p \in Procs, Others(p), Undisturbing(p), Crash(p)
  PROVE  Contract!Die(p)
<1> DEFINE u == url[p]
           storing == {q \in Procs : pc[q] \in RewritePhases}
<1>1. /\ pc'[p] = "idle" /\ reply'[p] = Answer("error") /\ u \in Urls
      /\ torn' = [torn EXCEPT ![u] = @ \/ pc[p] \in RewritePhases]
      /\ UNCHANGED <<meta, body, url>>
  BY DEF Crash, Return, TypeOK, files
<1>2. storing' = storing \ {p} /\ (p \in storing <=> pc[p] \in RewritePhases)
  BY <1>1 DEF RewritePhases, Others
<1>3. torn' = [torn EXCEPT ![u] = @ \/ p \in storing]
  BY <1>1, <1>2
<1>4. \A q \in Procs, v \in Urls : Rewriting(q, v)' <=> Rewriting(q, v) /\ q # p
  BY <1>1 DEF Rewriting, RewritePhases, Others
<1>5. ASSUME NEW v \in Urls PROVE OnOffer(v)' = OnOffer(v)
  <2>1. CASE Rewriting(p, v)
    <3>1. v = u /\ torn'[v] /\ ~Quiet(v)
      BY <1>1, <2>1 DEF Rewriting, Quiet, TypeOK
    <3> QED BY <3>1 DEF OnOffer
  <2>2. CASE ~Rewriting(p, v)
    <3>1. Quiet(v)' <=> Quiet(v)
      BY <1>4, <2>2 DEF Quiet
    <3>2. torn'[v] = torn[v]
      BY <1>1, <2>2 DEF Rewriting, TypeOK
    <3> QED BY <1>1, <3>1, <3>2, OfferStays
  <2> QED BY <2>1, <2>2
<1>6. /\ Chosen(p)' = Contract!Nothing /\ Received(p)' = Contract!Nothing /\ Unsure(p)' = FALSE
      /\ Ended(p)' = Contract!Outcome("error", Contract!Nothing)
  BY <1>1 DEF Chosen, Unsure, Serving, Received, StorePhases, RewritePhases, Ended, Answer,
     Contract!Outcome, Nothing, Contract!Nothing
<1>7. [q \in Procs |-> Chosen(q)]' = [[q \in Procs |-> Chosen(q)] EXCEPT ![p] = Contract!Nothing]
  BY <1>6, ChosenBecomes
<1>8. [q \in Procs |-> Received(q)]' = [[q \in Procs |-> Received(q)] EXCEPT ![p] = Contract!Nothing]
  BY <1>6, ReceivedBecomes
<1>9. [q \in Procs |-> Serving(q) /\ disturbed[q]]' =
        [[q \in Procs |-> Serving(q) /\ disturbed[q]] EXCEPT ![p] = FALSE]
  BY <1>6, UnsureBecomes
<1>10. [q \in Procs |-> Ended(q)]' =
         [[q \in Procs |-> Ended(q)] EXCEPT ![p] = Contract!Outcome("error", Contract!Nothing)]
  BY <1>6, AnswerBecomes
<1>11. [v \in Urls |-> OnOffer(v)]' = [v \in Urls |-> OnOffer(v)]
  BY <1>5
<1> QED BY <1>1, <1>2, <1>3, <1>7, <1>8, <1>9, <1>10, <1>11 DEF Contract!Die

(* Time passes for what is on offer, chosen or received.                     *)
LEMMA TickPasses ==
  ASSUME TypeOK, Settled, Tick
  PROVE  Contract!Pass
<1>1. \A f \in MetaFile \cup BodyFile :
        /\ Aged(f).kind = f.kind
        /\ f.kind = "whole" => Aged(f).age = Older(f.age)
        /\ f.age \in Ages
  BY DEF Aged, MetaFile, BodyFile
<1>2. ASSUME NEW a \in Ages PROVE Contract!Later(Response(a)) = Response(Older(a))
  <2>1. Response(a).has /\ Response(a).age = a /\ Contract!Response(a + 1) = Response(a + 1)
    BY DEF Response, Contract!Response
  <2>2. a < AgeCap \/ a = AgeCap
    BY CacheAssumption DEF Ages
  <2>3. Contract!Later(Response(a)) = IF a < AgeCap THEN Response(a + 1) ELSE Response(a)
    BY <2>1 DEF Contract!Later
  <2>4. Older(a) = IF a < AgeCap THEN a + 1 ELSE a
    BY <2>2 DEF Older
  <2> QED BY <2>3, <2>4
<1>3. Contract!Later(Nothing) = Nothing
  BY DEF Contract!Later, Nothing
<1>4. /\ pc' = pc /\ url' = url /\ reply' = reply /\ torn' = torn /\ disturbed' = disturbed
      /\ \A p \in Procs : /\ seen'[p] = Aged(seen[p]) /\ stamp'[p] = Aged(stamp[p])
                          /\ seen[p] \in MetaFile /\ stamp[p] \in MetaFile
      /\ \A u \in Urls : meta'[u] = Aged(meta[u]) /\ body'[u] = Aged(body[u])
      /\ \A u \in Urls : meta[u] \in MetaFile /\ body[u] \in BodyFile
  BY DEF Tick, TypeOK
<1>5. ASSUME NEW u \in Urls PROVE OnOffer(u)' = Contract!Later(OnOffer(u))
  <2>1. Quiet(u)' <=> Quiet(u)
    BY <1>4 DEF Quiet, Rewriting
  <2>2. CASE Quiet(u) /\ ~torn[u]
    <3>1. Vacant(u) \/ Matched(u)
      BY <2>2 DEF Settled
    <3>2. Matched(u)' <=> Matched(u)
      BY <1>1, <1>4, <3>1 DEF Matched, Vacant
    <3>3. Matched(u) => meta'[u].age = Older(meta[u].age) /\ meta[u].age \in Ages
      BY <1>1, <1>4 DEF Matched
    <3> QED BY <1>2, <1>3, <1>4, <2>1, <2>2, <3>2, <3>3 DEF OnOffer
  <2>3. CASE ~(Quiet(u) /\ ~torn[u])
    BY <1>3, <1>4, <2>1, <2>3 DEF OnOffer
  <2> QED BY <2>2, <2>3
<1>6. ASSUME NEW q \in Procs PROVE Chosen(q)' = Contract!Later(Chosen(q))
  <2>1. pc[q] = "readBody" /\ ~disturbed[q] =>
          seen'[q].age = Older(seen[q].age) /\ seen[q].age \in Ages
    BY <1>1, <1>4 DEF Settled
  <2> QED BY <1>2, <1>3, <1>4, <2>1 DEF Chosen, Serving
<1>7. ASSUME NEW q \in Procs PROVE Received(q)' = Contract!Later(Received(q))
  <2>1. pc[q] \in StorePhases => stamp'[q].age = Older(stamp[q].age) /\ stamp[q].age \in Ages
    BY <1>1, <1>4 DEF Settled
  <2> QED BY <1>2, <1>3, <1>4, <2>1 DEF Received
<1>8. \A q \in Procs : Ended(q)' = Ended(q) /\ (Serving(q)' <=> Serving(q))
  BY <1>4 DEF Ended, Serving
<1> QED BY <1>4, <1>5, <1>6, <1>7, <1>8 DEF Contract!Pass

--------------------------------------------------------------------------------
LEMMA StepIsOfContract ==
  TypeOK /\ PairInv /\ [Next]_vars => [Contract!CNext]_(Contract!cvars)
<1> SUFFICES ASSUME TypeOK, PairInv, [Next]_vars
             PROVE  Contract!CNext \/ UNCHANGED Contract!cvars
  OBVIOUS
<1>0. Settled
  BY SettledHolds
<1>1. CASE Tick
  BY <1>0, <1>1, TickPasses DEF Contract!CNext
<1>2. ASSUME NEW p \in Procs, Step(p) PROVE Contract!CNext \/ UNCHANGED Contract!cvars
  <2>0. Others(p) /\ (Undisturbing(p) \/ OpenMeta(p))
    BY <1>2, OthersWait
  <2>1. CASE Undisturbing(p) /\ \E u \in Urls, c \in BOOLEAN : Fetch(p, u, c)
    <3>1. \E u \in Urls : Contract!Ask(p, u)
      BY <2>0, <2>1, FetchAsks
    <3> QED BY <3>1 DEF Contract!CNext, Contract!CStep
  <2>2. CASE Undisturbing(p) /\ ReadMeta(p)
    BY <1>0, <2>0, <2>2, ReadMetaChooses DEF Contract!CNext, Contract!CStep
  <2>3. CASE Undisturbing(p) /\ ReadBody(p)
    BY <1>0, <2>0, <2>3, ReadBodyServes DEF Contract!CNext, Contract!CStep
  <2>4. CASE /\ Undisturbing(p)
             /\ \/ RequestFails(p)
                \/ \E status \in {200, 304, 500}, offered \in ETagOffers :
                     RequestAnswered(p, status, offered)
    BY <1>0, <2>0, <2>4, RequestEnds DEF Contract!CNext, Contract!CStep
  <2>5. CASE OpenMeta(p)
    BY <1>0, <2>0, <2>5, OpenMetaBegins DEF Contract!CNext, Contract!CStep
  <2>6. CASE Undisturbing(p) /\ (WriteMeta(p) \/ OpenBody(p))
    BY <1>0, <2>0, <2>6, StoreStutters
  <2>7. CASE Undisturbing(p) /\ WriteBody(p)
    BY <1>0, <2>0, <2>7, WriteBodyCompletes DEF Contract!CNext, Contract!CStep
  <2>8. CASE Undisturbing(p) /\ Crash(p)
    BY <1>0, <2>0, <2>8, CrashDies DEF Contract!CNext, Contract!CStep
  <2> QED BY <1>2, <2>0, <2>1, <2>2, <2>3, <2>4, <2>5, <2>6, <2>7, <2>8 DEF Step
<1>3. CASE UNCHANGED vars
  <2>1. \A u \in Urls : OnOffer(u)' = OnOffer(u)
    BY <1>3 DEF vars, OnOffer, Quiet, Rewriting, Matched
  <2>2. \A q \in Procs : /\ Chosen(q)' = Chosen(q) /\ Ended(q)' = Ended(q)
                         /\ Received(q)' = Received(q) /\ (Serving(q)' <=> Serving(q))
    BY <1>3 DEF vars, Chosen, Ended, Received, Serving
  <2> QED BY <1>3, <2>1, <2>2 DEF vars, Contract!cvars
<1> QED BY <1>1, <1>2, <1>3 DEF Next

LEMMA ContractInit == Init => Contract!CInit
<1> SUFFICES ASSUME Init PROVE Contract!CInit
  OBVIOUS
<1>1. \A u \in Urls : OnOffer(u) = Nothing
  BY DEF Init, OnOffer, Matched, NoMeta, MetaOf
<1>2. \A p \in Procs : /\ Chosen(p) = Nothing /\ Received(p) = Nothing /\ ~Serving(p)
                       /\ pc[p] \notin RewritePhases
  BY DEF Init, Chosen, Received, Serving, StorePhases, RewritePhases
<1>3. \A p \in Procs : Ended(p) = Contract!Outcome("none", Contract!Nothing)
  BY DEF Init, Ended, Answer, Contract!Outcome, Contract!Nothing, Nothing
<1> QED BY <1>1, <1>2, <1>3 DEF Init, Contract!CInit, Contract!Nothing, Nothing

(* Through any interleaving and any crashes of the processes sharing .cache, *)
(* for any URLs and any TTL, the two files do what CacheContract says: a     *)
(* fetch served from the cache gets the last response of its URL whose store *)
(* ran alone, in full, decided on within its TTL, unless the entry is spoilt *)
(* or a store of it meets the fetch (_load_cache, _store_cache).             *)
THEOREM ContractServed == Spec => ServesTheContract
<1>1. TypeOK /\ PairInv /\ [Next]_vars => [Contract!CNext]_(Contract!cvars)
  BY StepIsOfContract
<1> QED
  BY <1>1, ContractInit, TypeCorrect, PairInvariant, PTL DEF Spec, ServesTheContract, Contract!CSpec
==============================================================================
