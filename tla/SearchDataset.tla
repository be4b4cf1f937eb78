----------------------------- MODULE SearchDataset -----------------------------
(***************************************************************************)
(* SearchDatasetUseCase.execute (mcp_opendata/usecases/                    *)
(* search_dataset_uc.py): one search over the local catalog, the ANSD      *)
(* portal catalog and CKAN AgriData, whose results are merged, sorted and  *)
(* cut.  What a source finds is arbitrary, within what its adapter can     *)
(* return; an item is known by its title and URL, its timestamp and        *)
(* whether that timestamp carries a time zone.                             *)
(***************************************************************************)
EXTENDS Integers, Sequences, FiniteSets, SequencesExt

CONSTANTS
  Keys,      \* pairs of a normalized title and a normalized URL
  Stamps,    \* the updated_at values of the local catalog and of CKAN
  Limits,    \* the limits a caller asks for
  MaxItems   \* bound: items one source finds

Epoch == 0   \* datetime.fromtimestamp(0, tz=UTC)

ASSUME SearchAssumption ==
  /\ Stamps \subseteq Nat
  /\ Limits \subseteq Int
  /\ MaxItems \in Nat

VARIABLES
  pc,       \* the step of execute that comes next
  limit,
  results,  \* the items of the sources asked so far, in order
  taken,    \* how many of them the loop has been through
  dedup,    \* the values of the dict, in its order
  outcome,  \* "none", "answered", "raised", or "broken": the local search raised
  answer    \* the items returned

vars == <<pc, limit, results, taken, dedup, outcome, answer>>

Items(stamps, zones, source) ==
  [key : Keys, updated_at : stamps, aware : zones, source : {source}]
AnyItem ==
  UNION {Items(Stamps \cup {Epoch}, BOOLEAN, s) : s \in {"local", "ansd", "ckan"}}
Found(items) == BoundedSeq(items, MaxItems)

Init ==
  /\ pc = "local"
  /\ limit \in Limits
  /\ results = <<>>
  /\ taken = 0
  /\ dedup = <<>>
  /\ outcome = "none"
  /\ answer = <<>>

------------------------------------------------------------------------------
(* The loop of StaticCatalogSource.search and AnsdWebCatalogAdapter.search:  *)
(* the limit is looked at after each catalog entry, so that one below 1      *)
(* still lets the first entry through when that one matches.                 *)
FirstOf(s, n) == SubSeq(s, 1, IF n < Len(s) THEN n ELSE Len(s))
UpTo(s, n) == IF n >= 1 THEN {FirstOf(s, n)} ELSE {<<>>, FirstOf(s, 1)}

Extend(items, step) ==
  /\ results' = results \o items
  /\ pc' = step
  /\ UNCHANGED <<limit, taken, dedup, outcome, answer>>

Raise(how) ==
  /\ outcome' = how
  /\ pc' = "done"
  /\ UNCHANGED <<limit, results, taken, dedup, answer>>

\* The timestamps of assets/catalog.json carry a time zone.
Local ==
  /\ pc = "local"
  /\ \E s \in Found(Items(Stamps, {TRUE}, "local")) :
       \E items \in UpTo(s, limit) : Extend(items, "ansd")

(* Nothing around the local search catches what it raises: an entry of       *)
(* assets/catalog.json that matches cannot be parsed (a date, a URL, a key). *)
LocalFails == pc = "local" /\ Raise("broken")

\* What the portal shows is stamped with the epoch, in UTC.
Ansd ==
  /\ pc = "ansd"
  /\ \E s \in Found(Items({Epoch}, {TRUE}, "ansd")) :
       \E items \in UpTo(s, limit) : Extend(items, "ckan")

(* The limit counts CKAN's packages, each with any number of resources.      *)
(* metadata_modified is parsed by fromisoformat, with a time zone or without *)
(* one; what cannot be parsed becomes the epoch in UTC.                      *)
\* mutant: what cannot be parsed becomes datetime.min, before the epoch
CkanItemsUndated == Items(Stamps, BOOLEAN, "ckan") \cup Items({Epoch - 1}, {TRUE}, "ckan")
CkanItems == Items(Stamps, BOOLEAN, "ckan") \cup Items({Epoch}, {TRUE}, "ckan")
Ckan ==
  /\ pc = "ckan"
  /\ \E items \in Found(CkanItems) :
       /\ limit < 1 => items = <<>>
       /\ Extend(items, "merge")

PropagateFailure(step) == Raise("raised")   \* mutant: the exception is not caught
IgnoreFailure(step) ==
  /\ pc' = step
  /\ UNCHANGED <<limit, results, taken, dedup, outcome, answer>>

\* A remote source raises: execute goes on without its items.
AnsdFails == pc = "ansd" /\ IgnoreFailure("ckan")
CkanFails == pc = "ckan" /\ IgnoreFailure("merge")

------------------------------------------------------------------------------
(* The loop: a dict keeps the place of a key whose value is replaced.        *)
(* Python refuses to order a timestamp with a time zone and one without.     *)
NoLater(x, y) == x.updated_at >= y.updated_at   \* mutant: a tie is taken over
Later(x, y) == x.updated_at > y.updated_at

Comparable(x, y) == x.aware = y.aware

Places(item) == {k \in DOMAIN dedup : dedup[k].key = item.key}
Kept(item) ==
  IF Places(item) = {} THEN Append(dedup, item)
  ELSE [k \in DOMAIN dedup |->
          IF k \in Places(item) /\ Later(item, dedup[k]) THEN item ELSE dedup[k]]

Taking == pc = "merge" /\ taken < Len(results)
Item == results[taken + 1]

Take ==
  /\ Taking
  /\ \A k \in Places(Item) : Comparable(Item, dedup[k])
  /\ dedup' = Kept(Item)
  /\ taken' = taken + 1
  /\ UNCHANGED <<pc, limit, results, outcome, answer>>

TakeRaises ==
  /\ Taking
  /\ \E k \in Places(Item) : ~Comparable(Item, dedup[k])
  /\ Raise("raised")

(* sorted(..., reverse=True) keeps the order of equal elements.  The place   *)
(* of a value is how many come before it.                                    *)
Before(s, i, j) ==
  \/ s[i].updated_at > s[j].updated_at
  \/ s[i].updated_at = s[j].updated_at /\ i < j
Rank(s, i) == Cardinality({j \in DOMAIN s : Before(s, j, i)})
NewestFirst(s) ==
  [place \in DOMAIN s |-> s[CHOOSE i \in DOMAIN s : Rank(s, i) = place - 1]]

\* combined[:n]: a negative n drops that many from the end.
Slice(s, n) ==
  IF n >= 0 THEN FirstOf(s, n)
  ELSE SubSeq(s, 1, IF Len(s) + n > 0 THEN Len(s) + n ELSE 0)

(* Whatever the order in which a sort compares, among values of both kinds   *)
(* it has to compare one of each.                                            *)
Sorting == pc = "merge" /\ taken = Len(results)

Sort ==
  /\ Sorting
  /\ \A j, k \in DOMAIN dedup : Comparable(dedup[j], dedup[k])
  /\ outcome' = "answered"
  /\ answer' = Slice(NewestFirst(dedup), limit)
  /\ pc' = "done"
  /\ UNCHANGED <<limit, results, taken, dedup>>

SortRaises ==
  /\ Sorting
  /\ \E j, k \in DOMAIN dedup : ~Comparable(dedup[j], dedup[k])
  /\ Raise("raised")

Next ==
  \/ Local \/ LocalFails \/ Ansd \/ AnsdFails \/ Ckan \/ CkanFails
  \/ Take \/ TakeRaises \/ Sort \/ SortRaises

Spec == Init /\ [][Next]_vars

------------------------------------------------------------------------------
TypeOK ==
  /\ pc \in {"local", "ansd", "ckan", "merge", "done"}
  /\ limit \in Limits
  /\ results \in Seq(AnyItem)
  /\ taken \in 0..Len(results)
  /\ dedup \in Seq(AnyItem)
  /\ outcome \in {"none", "answered", "raised", "broken"}
  /\ answer \in Seq(AnyItem)

(* The copy of a dataset that stands for it: of its freshest copies, the one *)
(* whose source was asked first.                                             *)
Chosen(item) ==
  LET copies == {i \in DOMAIN results : results[i].key = item.key}
      freshest == {i \in copies : \A j \in copies : results[i].updated_at >= results[j].updated_at}
  IN results[CHOOSE i \in freshest : \A j \in freshest : i <= j]

FirstPlace(item) == CHOOSE i \in DOMAIN results :
  /\ results[i].key = item.key
  /\ \A j \in 1..(i - 1) : results[j].key # item.key

(* What a search returns: each dataset once, by the copy that stands for it; *)
(* freshest first, equal ones as the sources came; at most limit of them,    *)
(* and one is left out only when the answer is full of no staler ones        *)
(* (search_dataset_uc.py:57-67).                                             *)
AnswerIsTheFreshest == outcome = "answered" /\ limit >= 0 =>
  /\ Len(answer) <= limit
  /\ \A i \in DOMAIN answer : answer[i] = Chosen(answer[i])
  /\ \A i, j \in DOMAIN answer : i < j =>
       /\ answer[i].key # answer[j].key
       /\ \/ answer[i].updated_at > answer[j].updated_at
          \/ /\ answer[i].updated_at = answer[j].updated_at
             /\ FirstPlace(answer[i]) < FirstPlace(answer[j])
  /\ \A r \in ToSet(results) :
       \/ \E i \in DOMAIN answer : answer[i].key = r.key
       \/ /\ Len(answer) = limit
          /\ \A i \in DOMAIN answer : answer[i].updated_at >= r.updated_at

(* Past the local catalog, what a search raises over is timestamps of both   *)
(* kinds, and nothing else: whichever remote sources fail, it is answered    *)
(* (search_dataset_uc.py:44 and :53).  In whatever order they come and       *)
(* whatever they are deduplicated to, two items that cannot be compared are  *)
(* never passed over (:62, :66).                                             *)
Mixed == \E i, j \in DOMAIN results : ~Comparable(results[i], results[j])
FailuresAbsorbed ==
  /\ outcome = "raised" => Mixed
  /\ outcome = "answered" => ~Mixed

(* Never violated according to the comment at search_dataset_uc.py:46 ("In   *)
(* this context we only care that the local catalog remains usable"): a      *)
(* search that found something in the local catalog is answered, whatever    *)
(* the remote sources do.                                                    *)
LocalRemainsUsable ==
  (\E i \in DOMAIN results : results[i].source = "local") => outcome # "raised"
==============================================================================
