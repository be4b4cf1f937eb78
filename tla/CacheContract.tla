---------------------------- MODULE CacheContract ----------------------------
(***************************************************************************)
(* What HttpClient.fetch promises its callers about the disk cache, without *)
(* files.  Per URL there is at most one response on offer: the last one     *)
(* whose store ran to its end, alone.  A fetch answered from the cache      *)
(* returns exactly that response, in full, and decides to do so while the   *)
(* response is within its TTL.  Nothing is promised to a fetch that finds   *)
(* the entry spoilt or being stored, or meets the beginning of a store      *)
(* between the decision and the answer.  An entry is spoilt by stores that  *)
(* overlap or are cut off, until a store begins and ends alone.             *)
(***************************************************************************)
EXTENDS Naturals

CONSTANTS Procs, Urls, TTL, AgeCap

VARIABLES
  asked,     \* [Procs -> Urls]: the URL of the current or last fetch
  received,  \* [Procs -> Offer]: the response a fetch has got and must store
  storing,   \* the processes that have begun to store theirs
  spoilt,    \* [Urls -> BOOLEAN]
  offer,     \* [Urls -> Offer]: the response on offer, by age
  chosen,    \* [Procs -> Offer]: the response a fetch has decided to serve
  unsure,    \* [Procs -> BOOLEAN]: it has decided to serve whatever there is
  answer     \* [Procs -> Outcome]: how the last fetch ended

cvars == <<asked, received, storing, spoilt, offer, chosen, unsure, answer>>

Nothing == [has |-> FALSE, age |-> 0]
Response(a) == [has |-> TRUE, age |-> a]
Outcome(kind, r) == [kind |-> kind, served |-> r]
Later(r) == IF r.has /\ r.age < AgeCap THEN Response(r.age + 1) ELSE r

CInit ==
  /\ asked \in [Procs -> Urls]
  /\ received = [p \in Procs |-> Nothing]
  /\ storing = {}
  /\ spoilt = [u \in Urls |-> FALSE]
  /\ offer = [u \in Urls |-> Nothing]
  /\ chosen = [p \in Procs |-> Nothing]
  /\ unsure = [p \in Procs |-> FALSE]
  /\ answer = [p \in Procs |-> Outcome("none", Nothing)]

\* A fetch that has neither decided to serve nor got a response.
Undecided(p) == ~chosen[p].has /\ ~unsure[p] /\ ~received[p].has
BeingStored(u) == \E q \in storing : asked[q] = u

\* A new fetch is asked for.
Ask(p, u) ==
  /\ Undecided(p)
  /\ asked' = [asked EXCEPT ![p] = u]
  /\ answer' = [answer EXCEPT ![p] = Outcome("none", Nothing)]
  /\ UNCHANGED <<received, storing, spoilt, offer, chosen, unsure>>

\* It finds the response on offer fresh.
Choose(p) ==
  /\ Undecided(p) /\ answer[p].kind = "none"
  /\ offer[asked[p]].has /\ offer[asked[p]].age <= TTL
  /\ chosen' = [chosen EXCEPT ![p] = offer[asked[p]]]
  /\ UNCHANGED <<asked, received, storing, spoilt, offer, unsure, answer>>

\* It finds an entry nothing is promised of, and takes it.
Gamble(p) ==
  /\ Undecided(p) /\ answer[p].kind = "none"
  /\ spoilt[asked[p]] \/ BeingStored(asked[p])
  /\ unsure' = [unsure EXCEPT ![p] = TRUE]
  /\ UNCHANGED <<asked, received, storing, spoilt, offer, chosen, answer>>

\* It returns the response chosen.
Serve(p) ==
  /\ chosen[p].has
  /\ answer' = [answer EXCEPT ![p] = Outcome("hit", chosen[p])]
  /\ chosen' = [chosen EXCEPT ![p] = Nothing]
  /\ UNCHANGED <<asked, received, storing, spoilt, offer, unsure>>

\* It returns whatever it finds.
ServeAnything(p) ==
  /\ unsure[p]
  /\ answer' = [answer EXCEPT ![p] = Outcome("anything", Nothing)]
  /\ unsure' = [unsure EXCEPT ![p] = FALSE]
  /\ UNCHANGED <<asked, received, storing, spoilt, offer, chosen>>

\* A fetch ends without the cache.
Bypass(p) ==
  /\ Undecided(p) /\ answer[p].kind = "none"
  /\ \E kind \in {"net", "error"} :
       answer' = [answer EXCEPT ![p] = Outcome(kind, Nothing)]
  /\ UNCHANGED <<asked, received, storing, spoilt, offer, chosen, unsure>>

\* The origin's response, to be stored, has come.
Receive(p) ==
  /\ Undecided(p) /\ answer[p].kind = "none"
  /\ received' = [received EXCEPT ![p] = Response(0)]
  /\ UNCHANGED <<asked, storing, spoilt, offer, chosen, unsure, answer>>

\* Its store begins: what was on offer is withdrawn, from those who had
\* decided to serve it too.
Begin(p) ==
  LET u == asked[p] IN
  /\ received[p].has /\ p \notin storing
  /\ storing' = storing \cup {p}
  /\ spoilt' = [spoilt EXCEPT ![u] = BeingStored(u)]
  /\ offer' = [offer EXCEPT ![u] = Nothing]
  /\ chosen' = [q \in Procs |-> IF asked[q] = u THEN Nothing ELSE chosen[q]]
  /\ unsure' = [q \in Procs |-> unsure[q] \/ (asked[q] = u /\ chosen[q].has)]
  /\ UNCHANGED <<asked, received, answer>>

\* Its store ends: unless the entry is spoilt, the response is on offer.
Complete(p) ==
  LET u == asked[p] IN
  /\ p \in storing
  /\ storing' = storing \ {p}
  /\ offer' = [offer EXCEPT ![u] = IF spoilt[u] THEN Nothing ELSE received[p]]
  /\ received' = [received EXCEPT ![p] = Nothing]
  /\ answer' = [answer EXCEPT ![p] = Outcome("net", Nothing)]
  /\ UNCHANGED <<asked, spoilt, chosen, unsure>>

\* A fetch is cut off.
Die(p) ==
  /\ storing' = storing \ {p}
  /\ spoilt' = [spoilt EXCEPT ![asked[p]] = @ \/ p \in storing]
  /\ received' = [received EXCEPT ![p] = Nothing]
  /\ chosen' = [chosen EXCEPT ![p] = Nothing]
  /\ unsure' = [unsure EXCEPT ![p] = FALSE]
  /\ answer' = [answer EXCEPT ![p] = Outcome("error", Nothing)]
  /\ UNCHANGED <<asked, offer>>

Pass ==
  /\ offer' = [u \in Urls |-> Later(offer[u])]
  /\ chosen' = [p \in Procs |-> Later(chosen[p])]
  /\ received' = [p \in Procs |-> Later(received[p])]
  /\ UNCHANGED <<asked, storing, spoilt, unsure, answer>>

CStep(p) ==
  \/ \E u \in Urls : Ask(p, u)
  \/ Choose(p) \/ Gamble(p) \/ Serve(p) \/ ServeAnything(p) \/ Bypass(p)
  \/ Receive(p) \/ Begin(p) \/ Complete(p) \/ Die(p)

CNext == Pass \/ \E p \in Procs : CStep(p)

CSpec == CInit /\ [][CNext]_cvars
==============================================================================
