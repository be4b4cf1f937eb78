------------------------ MODULE HttpDiskCacheContract ------------------------
(***************************************************************************)
(* The two files of every URL, shared by processes that interleave and     *)
(* crash, implement CacheContract.  The refinement mapping reads the       *)
(* response on offer from the files when nobody is rewriting them and      *)
(* they are not torn.                                                      *)
(***************************************************************************)
EXTENDS HttpDiskCache

Nothing == [has |-> FALSE, age |-> 0]
Response(a) == [has |-> TRUE, age |-> a]

\* From the receipt of a response to the end of its store.
StorePhases == RewritePhases \cup {"openMeta"}
Received(p) == IF pc[p] \in StorePhases THEN Response(stamp[p].age) ELSE Nothing

OnOffer(u) ==
  IF Matched(u) /\ Quiet(u) /\ ~torn[u] THEN Response(meta[u].age) ELSE Nothing

Serving(p) == pc[p] = "readBody"
Chosen(p) == IF Serving(p) /\ ~disturbed[p] THEN Response(seen[p].age) ELSE Nothing

\* A disturbed hit may be anything; any other hit on anything but one whole
\* response is no outcome of the contract.
Ended(p) ==
  LET r == reply[p] IN
  IF r.kind # "hit" THEN [kind |-> r.kind, served |-> Nothing]
  ELSE IF disturbed[p] THEN [kind |-> "anything", served |-> Nothing]
  ELSE [kind |-> IF r.whole THEN "hit" ELSE "broken", served |-> Response(r.age)]

Contract == INSTANCE CacheContract WITH
  asked <- url,
  received <- [p \in Procs |-> Received(p)],
  storing <- {p \in Procs : pc[p] \in RewritePhases},
  spoilt <- torn,
  offer <- [u \in Urls |-> OnOffer(u)],
  chosen <- [p \in Procs |-> Chosen(p)],
  unsure <- [p \in Procs |-> Serving(p) /\ disturbed[p]],
  answer <- [p \in Procs |-> Ended(p)]

(* Whatever the processes sharing .cache do and wherever they die, a fetch   *)
(* that the contract promises anything is served from the cache only the     *)
(* last response of the URL asked for whose store ran alone, in full, and    *)
(* decides to within that response's TTL (_load_cache, _store_cache).        *)
ServesTheContract == Contract!CSpec
==============================================================================
