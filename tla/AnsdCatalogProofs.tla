-------------------------- MODULE AnsdCatalogProofs --------------------------
(***************************************************************************)
(* Theorems about AnsdCatalog, for any processes, listings, TTLs and       *)
(* length of a rebuild: its types, the age of what a search is answered    *)
(* from, how rebuilds are spaced and that processes hold the same catalog. *)
(***************************************************************************)
EXTENDS AnsdCatalog, TLAPS

(* Why the two TTLs stack and no further.  What a page in the cache lists is *)
(* at most HttpTTL and the time of the rebuild that asked for it old, so a   *)
(* part of a draft is at most that and the time of its own rebuild so far.   *)
(* A catalog's parts are older than its stamp by no more than that, wherever *)
(* it is: a process that loads the file takes over the stamp with the parts. *)
PageAge == HttpTTL + MaxRebuild
AgeWithin(parts, most) == \A l \in Listings : parts[l].has => parts[l].age <= most
DraftsInTime == \A p \in Procs : AgeWithin(draft[p], PageAge + spent[p])
Stamped(c) ==
  /\ AgeWithin(c.parts, PageAge + MaxRebuild + c.age)
  /\ Nonempty(c) => c.age < CatalogTTL
OnlyFetchesDraft == \A p \in Procs : pc[p] # "fetch" => draft[p] = Nothing
AgeInv ==
  /\ OnlyFetchesDraft /\ DraftsInTime
  /\ \A p \in Procs : Stamped(mem[p])
  /\ file.kind = "whole" => Stamped(file.cat)

------------------------------------------------------------------------------
LEMMA ConstantFacts ==
  /\ CatalogTTL \in Nat /\ HttpTTL \in Nat /\ MaxRebuild \in Nat
  /\ AgeCap \in Nat /\ NumListings \in Nat /\ 1 <= NumListings
  /\ CatalogTTL > MaxRebuild
  /\ PageAge \in Nat /\ PageAge = HttpTTL + MaxRebuild
  /\ OldestServed = (CatalogTTL - 1) + PageAge + MaxRebuild
  /\ PageAge < AgeCap
BY CatalogAssumption DEF OldestServed, PageAge

LEMMA ValueTypes ==
  /\ NoPage \in HttpEntry /\ Missing \in Part /\ Nothing \in Parts /\ NeverLoaded \in Catalog
  /\ \A kind \in FileKinds : NoFile(kind) \in [kind : FileKinds, cat : Catalog]
  /\ \A x \in Part : AgedPart(x) \in Part
  /\ \A ps \in Parts : AgedParts(ps) \in Parts
  /\ \A c \in Catalog : AgedCatalog(c) \in Catalog
  /\ \A e \in HttpEntry : AgedPage(e) \in HttpEntry
<1>1. NoPage \in HttpEntry
  BY ConstantFacts DEF NoPage, HttpEntry, Pages
<1>2. Missing \in Part
  BY ConstantFacts DEF Missing, Part, Ages
<1>3. Nothing \in Parts
  BY <1>2 DEF Nothing, Parts
<1>4. NeverLoaded \in Catalog
  BY <1>3, ConstantFacts DEF NeverLoaded, Catalog
<1>5. \A kind \in FileKinds : NoFile(kind) \in [kind : FileKinds, cat : Catalog]
  BY <1>4 DEF NoFile
<1>6. \A x \in Part : AgedPart(x) \in Part
  BY ConstantFacts DEF AgedPart, Part, Ages, Older
<1>7. \A ps \in Parts : AgedParts(ps) \in Parts
  BY <1>6 DEF AgedParts, Parts
<1>8. ASSUME NEW c \in Catalog PROVE AgedCatalog(c) \in Catalog
  <2>1. c.age \in Nat /\ c.parts \in Parts
    BY ConstantFacts DEF Catalog
  <2>2. AgedParts(c.parts) \in Parts
    BY <1>7, <2>1
  <2> QED BY <1>4, <2>1, <2>2, ConstantFacts DEF AgedCatalog, Catalog
<1>9. \A e \in HttpEntry : AgedPage(e) \in HttpEntry
  BY <1>1, ConstantFacts DEF AgedPage, HttpEntry
<1> QED BY <1>1, <1>2, <1>3, <1>4, <1>5, <1>6, <1>7, <1>8, <1>9

LEMMA GotType ==
  ASSUME TypeOK, NEW p \in Procs, NEW a
  PROVE  /\ Got(p, a) \in HttpEntry
         /\ Got(p, a).age + Got(p, a).late \in Nat
         /\ Got(p, a).age + Got(p, a).late <= PageAge
<1>1. http[next[p]] \in HttpEntry /\ flight[p] \in 0..MaxRebuild
  BY DEF TypeOK
<1>2. Got(p, a) \in HttpEntry
  BY <1>1, ValueTypes, ConstantFacts DEF Got, HttpEntry
<1>3. Got(p, a).age \in 0..HttpTTL /\ Got(p, a).late \in 0..MaxRebuild
  BY <1>2 DEF HttpEntry
<1> HIDE DEF Got
<1> QED BY <1>2, <1>3, ConstantFacts

LEMMA EndType ==
  ASSUME TypeOK, NEW p \in Procs, NEW outcome \in {"none", "served", "raised"}, End(p, outcome)
  PROVE  /\ pc' \in [Procs -> {"idle", "fetch", "open", "write"}]
         /\ spent' \in [Procs -> 0..MaxRebuild] /\ flight' \in [Procs -> 0..MaxRebuild]
         /\ \A q \in Procs : flight'[q] <= spent'[q]
         /\ answer' \in [Procs -> {"none", "served", "raised"}]
BY ConstantFacts DEF End, TypeOK

LEMMA ClearType ==
  ASSUME TypeOK, NEW p \in Procs, Clear(p)
  PROVE  next' \in [Procs -> Listings] /\ draft' \in [Procs -> Parts]
BY ConstantFacts, ValueTypes DEF Clear, TypeOK, Listings

LEMMA TypeInit == Init => TypeOK
<1> SUFFICES ASSUME Init PROVE TypeOK
  OBVIOUS
<1>1. NoFile("absent") \in [kind : FileKinds, cat : Catalog]
  BY ValueTypes DEF FileKinds
<1> QED
  BY <1>1, ConstantFacts, ValueTypes DEF Init, TypeOK, Listings

LEMMA TypeStep == TypeOK /\ [Next]_vars => TypeOK'
<1> SUFFICES ASSUME TypeOK, [Next]_vars PROVE TypeOK'
  OBVIOUS
<1>c. \A n \in 0..CatalogTTL : Since(n) \in 0..CatalogTTL /\ 0 \in 0..CatalogTTL
  BY ConstantFacts DEF Since
<1>1. CASE Tick
  <2>1. http' \in [Listings -> HttpEntry] /\ mem' \in [Procs -> Catalog]
        /\ draft' \in [Procs -> Parts]
    BY <1>1, ValueTypes DEF Tick, TypeOK
  <2>2. file' \in [kind : FileKinds, cat : Catalog]
    BY <1>1, ValueTypes DEF Tick, TypeOK
  <2>3. /\ spent' \in [Procs -> 0..MaxRebuild] /\ flight' \in [Procs -> 0..MaxRebuild]
        /\ \A q \in Procs : flight'[q] <= spent'[q]
    <3>1. ASSUME NEW q \in Procs
          PROVE  spent'[q] \in 0..MaxRebuild /\ flight'[q] \in 0..spent'[q]
      <4>1. spent[q] \in 0..MaxRebuild /\ flight[q] \in 0..spent[q]
        BY ConstantFacts DEF TypeOK
      <4>2. /\ spent'[q] = IF pc[q] # "idle" THEN spent[q] + 1 ELSE spent[q]
            /\ flight'[q] = flight[q] \/ (pc[q] = "fetch" /\ flight'[q] = flight[q] + 1)
            /\ pc[q] # "idle" => spent[q] < MaxRebuild
        BY <1>1 DEF Tick
      <4> QED BY <4>1, <4>2, ConstantFacts
    <3>2. spent' = [q \in Procs |-> spent'[q]] /\ flight' = [q \in Procs |-> flight'[q]]
      BY <1>1 DEF Tick
    <3>3. \A q \in Procs : spent'[q] \in 0..MaxRebuild /\ flight'[q] \in 0..MaxRebuild
                          /\ flight'[q] <= spent'[q]
      BY <3>1, ConstantFacts
    <3> QED BY <3>2, <3>3
  <2>4. {rebuilt', calm'} \subseteq 0..CatalogTTL
    BY <1>1, <1>c, ConstantFacts DEF Tick, TypeOK
  <2>5. answer' \in [Procs -> {"none", "served", "raised"}]
    BY <1>1 DEF Tick, NoAnswer
  <2> QED BY <1>1, <2>1, <2>2, <2>3, <2>4, <2>5 DEF Tick, TypeOK
<1>2. CASE PortalChanges
  BY <1>2 DEF PortalChanges, NoAnswer, TypeOK
<1>3. ASSUME NEW p \in Procs, Search(p) PROVE TypeOK'
  <2> DEFINE cat == IF file.kind = "absent" THEN mem[p]
                    ELSE IF file.kind = "whole" THEN Loaded(file.cat)
                    ELSE [mem[p] EXCEPT !.parts = Nothing]
             usable == file.kind = "whole" /\ Usable(cat)
  <2>1. cat \in Catalog
    BY ValueTypes DEF TypeOK, Loaded, Catalog
  <2>2. /\ pc[p] = "idle"
        /\ IF Held(mem[p])
           THEN End(p, "served") /\ UNCHANGED mem
           ELSE /\ mem' = [mem EXCEPT ![p] = cat]
                /\ IF usable
                   THEN End(p, "served")
                   ELSE /\ pc' = [pc EXCEPT ![p] = "fetch"]
                        /\ NoAnswer
                        /\ UNCHANGED <<flight, spent>>
        /\ calm' = IF pc'[p] = "fetch" /\ Busy # {} THEN 0 ELSE calm
        /\ UNCHANGED <<portal, http, file, next, draft, rebuilt>>
    BY <1>3 DEF Search
  <2> HIDE DEF cat, usable
  <2>3. mem' \in [Procs -> Catalog]
    BY <2>1, <2>2 DEF TypeOK
  <2>4. /\ pc' \in [Procs -> {"idle", "fetch", "open", "write"}]
        /\ spent' \in [Procs -> 0..MaxRebuild] /\ flight' \in [Procs -> 0..MaxRebuild]
        /\ \A q \in Procs : flight'[q] <= spent'[q]
        /\ answer' \in [Procs -> {"none", "served", "raised"}]
    BY <2>2, EndType DEF NoAnswer, TypeOK
  <2>5. {rebuilt', calm'} \subseteq 0..CatalogTTL
    BY <1>c, <2>2, ConstantFacts DEF TypeOK
  <2> QED BY <2>2, <2>3, <2>4, <2>5 DEF TypeOK
<1>4. ASSUME NEW p \in Procs, NEW a, ListingFails(p, a) PROVE TypeOK'
  <2>1. http' \in [Listings -> HttpEntry]
    <3>1. next[p] \in Listings
      BY DEF TypeOK
    <3>2. Got(p, a) \in HttpEntry
      BY GotType
    <3>3. http' = http \/ http' = [http EXCEPT ![next[p]] = Got(p, a)]
      BY <1>4 DEF ListingFails, Stored
    <3> QED BY <3>1, <3>2, <3>3 DEF TypeOK
  <2> QED BY <1>4, <2>1, EndType, ClearType DEF ListingFails, TypeOK
<1>5. ASSUME NEW p \in Procs, NEW a, ListingDone(p, a) PROVE TypeOK'
  <2> DEFINE l == next[p]
             part == IF Got(p, a).page = "good" THEN
                       [has |-> TRUE, age |-> Got(p, a).age + Got(p, a).late]
                     ELSE Missing
             parts == [draft[p] EXCEPT ![l] = part]
  <2>1. l \in Listings /\ Got(p, a) \in HttpEntry
    BY GotType DEF TypeOK
  <2>2. part \in Part
    <3>1. Got(p, a).age + Got(p, a).late \in Ages
      BY GotType, ConstantFacts DEF Ages
    <3> QED BY <3>1, ValueTypes DEF Part
  <2>3. parts \in Parts
    BY <2>1, <2>2 DEF TypeOK, Parts
  <2>4. http' \in [Listings -> HttpEntry]
    <3>1. http' = http \/ http' = [http EXCEPT ![l] = Got(p, a)]
      BY <1>5 DEF ListingDone, Stored
    <3> QED BY <2>1, <3>1 DEF TypeOK
  <2>b. /\ flight' \in [Procs -> 0..MaxRebuild] /\ spent' = spent
        /\ \A q \in Procs : flight'[q] <= spent'[q]
    BY <1>5, ConstantFacts DEF ListingDone, TypeOK
  <2>a. answer' \in [Procs -> {"none", "served", "raised"}]
    BY <1>5 DEF ListingDone, NoAnswer
  <2>5. CASE More(l)
    <3>1. l + 1 \in Listings
      BY <2>1, <2>5, ConstantFacts DEF More, Listings
    <3>2. /\ next' = [next EXCEPT ![p] = l + 1]
          /\ draft' = [draft EXCEPT ![p] = parts]
          /\ UNCHANGED <<pc, mem, rebuilt, portal, file, spent, calm>>
      BY <1>5, <2>5 DEF ListingDone
    <3> QED BY <2>3, <2>4, <2>a, <2>b, <3>1, <3>2 DEF TypeOK
  <2>6. CASE ~More(l)
    <3>1. /\ mem' = [mem EXCEPT ![p] = [age |-> 0, parts |-> parts]]
          /\ pc' = [pc EXCEPT ![p] = "open"]
          /\ rebuilt' = 0
          /\ Clear(p)
          /\ UNCHANGED <<portal, file, spent, calm>>
      BY <1>5, <2>6 DEF ListingDone
    <3>2. [age |-> 0, parts |-> parts] \in Catalog
      BY <2>3, ConstantFacts DEF Catalog
    <3>3. mem' \in [Procs -> Catalog]
      BY <3>1, <3>2 DEF TypeOK
    <3>4. next' \in [Procs -> Listings] /\ draft' \in [Procs -> Parts]
      BY <3>1, ClearType
    <3> HIDE DEF parts
    <3> QED BY <1>c, <2>4, <2>a, <2>b, <3>1, <3>3, <3>4 DEF TypeOK
  <2> QED BY <2>5, <2>6
<1>6. ASSUME NEW p \in Procs, Open(p) PROVE TypeOK'
  <2>1. file' \in [kind : FileKinds, cat : Catalog]
    BY <1>6, ValueTypes DEF Open, FileKinds
  <2> QED BY <1>6, <2>1 DEF Open, NoAnswer, TypeOK
<1>7. ASSUME NEW p \in Procs, Write(p) PROVE TypeOK'
  <2>1. mem[p] \in Catalog
    BY DEF TypeOK
  <2>2. {[kind |-> "whole", cat |-> mem[p]], NoFile("mixed")}
          \subseteq [kind : FileKinds, cat : Catalog]
    BY <2>1, ValueTypes DEF FileKinds
  <2>3. file' \in [kind : FileKinds, cat : Catalog]
    BY <1>7, <2>2 DEF Write
  <2> QED BY <1>7, <2>3, EndType DEF Write, TypeOK
<1>8. ASSUME NEW p \in Procs, Restart(p) \/ Crash(p) PROVE TypeOK'
  <2>1. Leave(p)
    BY <1>8 DEF Restart, Crash
  <2>2. mem' \in [Procs -> Catalog]
    BY <2>1, ValueTypes DEF Leave, TypeOK
  <2>3. {rebuilt', calm'} \subseteq 0..CatalogTTL
    BY <1>8, <1>c, ConstantFacts DEF Restart, Crash, Leave, TypeOK
  <2> QED BY <2>1, <2>2, <2>3, EndType, ClearType DEF Leave, TypeOK
<1>9. CASE UNCHANGED vars
  BY <1>9 DEF vars, TypeOK
<1> QED
  BY <1>1, <1>2, <1>3, <1>4, <1>5, <1>6, <1>7, <1>8, <1>9 DEF Next, Rebuild

(* Every variable of the portal catalog keeps its type: a rebuild asks for   *)
(* the listings there are and no other (web_catalog.py:91-95).                *)
THEOREM TypeCorrect == Spec => []TypeOK
BY TypeInit, TypeStep, PTL DEF Spec
------------------------------------------------------------------------------
LEMMA AgeInit == Init => AgeInv
BY CatalogAssumption DEF Init, AgeInv, OnlyFetchesDraft, DraftsInTime, Stamped, AgeWithin,
   Nonempty, NeverLoaded, Nothing, Missing, NoFile

(* Emptied and new catalogs are Stamped, and a Stamped one ages as such.     *)
LEMMA StampedFacts ==
  /\ Stamped(NeverLoaded)
  /\ \A c \in Catalog : Stamped([c EXCEPT !.parts = Nothing])
  /\ \A c \in Catalog : Stamped(c) => Stamped(AgedCatalog(c))
  /\ \A ps \in Parts : AgeWithin(ps, PageAge + MaxRebuild) => Stamped([age |-> 0, parts |-> ps])
<1>0. \A l \in Listings : Nothing[l].has = FALSE
  BY DEF Nothing, Missing
<1>1. Stamped(NeverLoaded)
  BY <1>0 DEF NeverLoaded, Stamped, AgeWithin, Nonempty
<1>2. ASSUME NEW c \in Catalog PROVE Stamped([c EXCEPT !.parts = Nothing])
  <2>1. [c EXCEPT !.parts = Nothing].parts = Nothing
    BY DEF Catalog
  <2> QED BY <1>0, <2>1 DEF Stamped, AgeWithin, Nonempty
<1>3. ASSUME NEW c \in Catalog, Stamped(c) PROVE Stamped(AgedCatalog(c))
  <2>1. CASE c.age + 1 < CatalogTTL
    <3>1. /\ AgedCatalog(c).age = c.age + 1
          /\ AgedCatalog(c).parts = AgedParts(c.parts)
      BY <2>1 DEF AgedCatalog
    <3>2. ASSUME NEW l \in Listings, AgedParts(c.parts)[l].has
          PROVE  AgedParts(c.parts)[l].age <= PageAge + MaxRebuild + (c.age + 1)
      <4>1. c.parts[l] \in Part /\ c.age \in Nat
        BY ConstantFacts DEF Catalog, Parts
      <4>2. AgedParts(c.parts)[l] = AgedPart(c.parts[l])
        BY DEF AgedParts
      <4>3. c.parts[l].has /\ c.parts[l].age \in Nat
        BY <3>2, <4>1, <4>2, ConstantFacts DEF AgedPart, Part, Ages
      <4>4. AgedPart(c.parts[l]).age <= c.parts[l].age + 1
        BY <4>1, <4>3, ConstantFacts DEF AgedPart, Part, Ages, Older
      <4>5. c.parts[l].age <= PageAge + MaxRebuild + c.age
        BY <1>3, <4>3 DEF Stamped, AgeWithin
      <4>6. AgedPart(c.parts[l]).age \in Nat
        BY <4>1, ValueTypes, ConstantFacts DEF Part, Ages
      <4> QED BY <4>1, <4>2, <4>3, <4>4, <4>5, <4>6, ConstantFacts
    <3> QED BY <2>1, <3>1, <3>2 DEF Stamped, AgeWithin
  <2>2. CASE ~(c.age + 1 < CatalogTTL)
    BY <1>1, <2>2 DEF AgedCatalog
  <2> QED BY <2>1, <2>2
<1>4. ASSUME NEW ps \in Parts, AgeWithin(ps, PageAge + MaxRebuild)
      PROVE  Stamped([age |-> 0, parts |-> ps])
  <2>1. PageAge + MaxRebuild + 0 = PageAge + MaxRebuild /\ 0 < CatalogTTL
    BY ConstantFacts
  <2> QED BY <1>4, <2>1 DEF Stamped
<1> QED BY <1>1, <1>2, <1>3, <1>4

LEMMA AgeStep == TypeOK /\ AgeInv /\ [Next]_vars => AgeInv'
<1> SUFFICES ASSUME TypeOK, AgeInv, [Next]_vars PROVE AgeInv'
  OBVIOUS
<1>t. TypeOK'
  BY TypeStep
<1>e. \A l \in Listings : Nothing[l].has = FALSE
  BY DEF Nothing, Missing
<1>m. \A p \in Procs : mem[p] \in Catalog /\ spent[p] \in Nat /\ spent[p] <= MaxRebuild
                      /\ draft[p] \in Parts
  BY ConstantFacts DEF TypeOK
<1>1. CASE Tick
  <2>1. \A p \in Procs : Stamped(mem'[p])
    BY <1>1, <1>m, StampedFacts DEF Tick, AgeInv
  <2>2. file'.kind = "whole" => Stamped(file'.cat)
    <3>1. SUFFICES ASSUME file'.kind = "whole" PROVE Stamped(file'.cat)
      OBVIOUS
    <3>2. file.kind = "whole" /\ file'.cat = AgedCatalog(file.cat) /\ file.cat \in Catalog
      BY <1>1, <3>1 DEF Tick, TypeOK
    <3> QED BY <3>2, StampedFacts DEF AgeInv
  <2>3. OnlyFetchesDraft'
    <3>1. AgedParts(Nothing) = Nothing
      BY DEF AgedParts, AgedPart, Nothing, Missing
    <3> QED BY <1>1, <3>1 DEF Tick, AgeInv, OnlyFetchesDraft
  <2>4. DraftsInTime'
    <3>1. SUFFICES ASSUME NEW p \in Procs, NEW l \in Listings, draft'[p][l].has
          PROVE  draft'[p][l].age <= PageAge + spent'[p]
      BY DEF DraftsInTime, AgeWithin
    <3>2. draft'[p][l] = AgedPart(draft[p][l]) /\ draft[p][l] \in Part
      BY <1>1 DEF Tick, AgedParts, TypeOK, Parts
    <3>3. draft[p][l].has /\ draft[p][l].age \in Nat /\ draft'[p][l].age \in Nat
      BY <3>1, <3>2, ValueTypes, ConstantFacts DEF AgedPart, Part, Ages
    <3>4. draft'[p][l].age <= draft[p][l].age + 1
      BY <3>2, <3>3, ConstantFacts DEF AgedPart, Part, Ages, Older
    <3>5. pc[p] # "idle"
      BY <1>e, <3>3 DEF AgeInv, OnlyFetchesDraft
    <3>6. spent'[p] = spent[p] + 1
      BY <1>1, <3>5 DEF Tick
    <3>7. draft[p][l].age <= PageAge + spent[p]
      BY <3>3 DEF AgeInv, DraftsInTime, AgeWithin
    <3> QED BY <1>m, <3>3, <3>4, <3>6, <3>7, ConstantFacts
  <2> QED BY <2>1, <2>2, <2>3, <2>4 DEF AgeInv
<1>2. CASE PortalChanges
  BY <1>2 DEF PortalChanges, AgeInv, OnlyFetchesDraft, DraftsInTime
<1>3. ASSUME NEW p \in Procs, Search(p) PROVE AgeInv'
  <2> DEFINE cat == IF file.kind = "absent" THEN mem[p]
                    ELSE IF file.kind = "whole" THEN Loaded(file.cat)
                    ELSE [mem[p] EXCEPT !.parts = Nothing]
  <2>1. Stamped(cat)
    BY <1>m, StampedFacts DEF Loaded, AgeInv
  <2>2. /\ pc[p] = "idle" /\ UNCHANGED <<file, draft>>
        /\ mem' = mem \/ mem' = [mem EXCEPT ![p] = cat]
        /\ \A q \in Procs : spent'[q] = spent[q] \/ (q = p /\ spent'[q] = 0)
        /\ \A q \in Procs : q # p => pc'[q] = pc[q]
    BY <1>3 DEF Search, End, TypeOK
  <2> HIDE DEF cat
  <2>3. \A q \in Procs : Stamped(mem'[q])
    BY <2>1, <2>2 DEF AgeInv, TypeOK
  <2>4. draft[p] = Nothing
    BY <2>2 DEF AgeInv, OnlyFetchesDraft
  <2>5. OnlyFetchesDraft' /\ DraftsInTime'
    BY <1>e, <2>2, <2>4 DEF AgeInv, OnlyFetchesDraft, DraftsInTime, AgeWithin
  <2> QED BY <2>2, <2>3, <2>5 DEF AgeInv
<1>4. ASSUME NEW p \in Procs, NEW a, ListingFails(p, a) PROVE AgeInv'
  <2>1. /\ UNCHANGED <<mem, file>>
        /\ draft' = [draft EXCEPT ![p] = Nothing]
        /\ pc' = [pc EXCEPT ![p] = "idle"]
        /\ spent' = [spent EXCEPT ![p] = 0]
    BY <1>4 DEF ListingFails, End, Clear
  <2> QED BY <1>e, <2>1 DEF AgeInv, OnlyFetchesDraft, DraftsInTime, AgeWithin, TypeOK
<1>5. ASSUME NEW p \in Procs, NEW a, ListingDone(p, a) PROVE AgeInv'
  <2> DEFINE l == next[p]
             part == IF Got(p, a).page = "good" THEN
                       [has |-> TRUE, age |-> Got(p, a).age + Got(p, a).late]
                     ELSE Missing
             parts == [draft[p] EXCEPT ![l] = part]
  <2>0. l \in Listings /\ Got(p, a) \in HttpEntry /\ pc[p] = "fetch"
    BY <1>5, GotType DEF TypeOK, ListingDone
  <2>1. part.has => part.age <= PageAge /\ part.age \in Nat
    BY GotType DEF Missing
  <2>2. parts \in Parts
    <3>1. part \in Part
      <4>1. Got(p, a).age + Got(p, a).late \in Ages
        BY GotType, ConstantFacts DEF Ages
      <4> QED BY <4>1, ValueTypes DEF Part
    <3> QED BY <1>m, <2>0, <3>1 DEF Parts
  <2>3. AgeWithin(parts, PageAge + spent[p])
    <3> SUFFICES ASSUME NEW k \in Listings, parts[k].has
                 PROVE  parts[k].age <= PageAge + spent[p]
      BY DEF AgeWithin
    <3>1. CASE k = l
      <4>1. parts[k] = part
        BY <1>m, <3>1 DEF Parts
      <4> HIDE DEF part, parts
      <4> QED BY <1>m, <2>1, <4>1, ConstantFacts
    <3>2. CASE k # l
      <4>1. parts[k] = draft[p][k]
        BY <1>m, <3>2 DEF Parts
      <4> HIDE DEF part, parts
      <4> QED BY <4>1 DEF AgeInv, DraftsInTime, AgeWithin
    <3> QED BY <3>1, <3>2
  <2>4. CASE More(l)
    <3>1. /\ draft' = [draft EXCEPT ![p] = parts]
          /\ UNCHANGED <<pc, mem, file, spent>>
      BY <1>5, <2>4 DEF ListingDone
    <3> HIDE DEF parts
    <3> QED BY <2>0, <2>3, <3>1 DEF AgeInv, OnlyFetchesDraft, DraftsInTime, TypeOK
  <2>5. CASE ~More(l)
    <3>1. /\ mem' = [mem EXCEPT ![p] = [age |-> 0, parts |-> parts]]
          /\ pc' = [pc EXCEPT ![p] = "open"]
          /\ draft' = [draft EXCEPT ![p] = Nothing]
          /\ UNCHANGED <<file, spent>>
      BY <1>5, <2>5 DEF ListingDone, Clear
    <3> HIDE DEF parts
    <3>2. AgeWithin(parts, PageAge + MaxRebuild)
      <4> SUFFICES ASSUME NEW k \in Listings, parts[k].has
                   PROVE  parts[k].age <= PageAge + MaxRebuild
        BY DEF AgeWithin
      <4>1. parts[k].age <= PageAge + spent[p]
        BY <2>3 DEF AgeWithin
      <4>2. parts[k].age \in Nat
        BY <2>2, ConstantFacts DEF Parts, Part, Ages
      <4> QED BY <1>m, <4>1, <4>2, ConstantFacts
    <3>3. Stamped([age |-> 0, parts |-> parts])
      BY <2>2, <3>2, StampedFacts
    <3>4. \A q \in Procs : Stamped(mem'[q])
      BY <3>1, <3>3 DEF AgeInv, TypeOK
    <3>5. OnlyFetchesDraft' /\ DraftsInTime'
      BY <1>e, <3>1 DEF AgeInv, OnlyFetchesDraft, DraftsInTime, AgeWithin, TypeOK
    <3> QED BY <3>1, <3>4, <3>5 DEF AgeInv
  <2> QED BY <2>4, <2>5
<1>6. ASSUME NEW p \in Procs, Open(p) PROVE AgeInv'
  <2>1. /\ pc[p] = "open" /\ pc' = [pc EXCEPT ![p] = "write"] /\ file'.kind # "whole"
        /\ UNCHANGED <<mem, draft, spent>>
    BY <1>6 DEF Open, NoFile
  <2> QED BY <2>1 DEF AgeInv, OnlyFetchesDraft, DraftsInTime, TypeOK
<1>7. ASSUME NEW p \in Procs, Write(p) PROVE AgeInv'
  <2>1. /\ pc[p] = "write" /\ pc' = [pc EXCEPT ![p] = "idle"]
        /\ spent' = [spent EXCEPT ![p] = 0]
        /\ file' = [kind |-> "whole", cat |-> mem[p]] \/ file'.kind # "whole"
        /\ UNCHANGED <<mem, draft>>
    BY <1>7 DEF Write, End, NoFile
  <2>2. draft[p] = Nothing
    BY <2>1 DEF AgeInv, OnlyFetchesDraft
  <2>3. OnlyFetchesDraft' /\ DraftsInTime'
    BY <1>e, <2>1, <2>2 DEF AgeInv, OnlyFetchesDraft, DraftsInTime, AgeWithin, TypeOK
  <2> QED BY <2>1, <2>3 DEF AgeInv
<1>8. ASSUME NEW p \in Procs, Restart(p) \/ Crash(p) PROVE AgeInv'
  <2>1. /\ UNCHANGED file
        /\ mem' = [mem EXCEPT ![p] = NeverLoaded]
        /\ draft' = [draft EXCEPT ![p] = Nothing]
        /\ pc' = [pc EXCEPT ![p] = "idle"]
        /\ spent' = [spent EXCEPT ![p] = 0]
    BY <1>8 DEF Restart, Crash, Leave, End, Clear
  <2>2. \A q \in Procs : Stamped(mem'[q])
    BY <2>1, StampedFacts DEF AgeInv, TypeOK
  <2>3. OnlyFetchesDraft' /\ DraftsInTime'
    BY <1>e, <2>1 DEF AgeInv, OnlyFetchesDraft, DraftsInTime, AgeWithin, TypeOK
  <2> QED BY <2>1, <2>2, <2>3 DEF AgeInv
<1>9. CASE UNCHANGED vars
  BY <1>9 DEF vars, AgeInv, OnlyFetchesDraft, DraftsInTime
<1> QED
  BY <1>1, <1>2, <1>3, <1>4, <1>5, <1>6, <1>7, <1>8, <1>9 DEF Next, Rebuild

LEMMA AgeBounds == TypeOK /\ AgeInv => ServedNotTooOld
<1> SUFFICES ASSUME TypeOK, AgeInv, NEW p \in Procs, NEW l \in Listings, mem[p].parts[l].has
             PROVE  mem[p].parts[l].age <= OldestServed
  BY DEF ServedNotTooOld
<1>1. mem[p] \in Catalog /\ Stamped(mem[p])
  BY DEF TypeOK, AgeInv
<1>2. mem[p].age \in Nat /\ mem[p].parts[l].age \in Nat
  BY <1>1, ConstantFacts DEF Catalog, Parts, Part, Ages
<1>3. mem[p].age < CatalogTTL
  BY <1>1 DEF Stamped, Nonempty
<1>4. mem[p].parts[l].age <= PageAge + MaxRebuild + mem[p].age
  BY <1>1 DEF Stamped, AgeWithin
<1> QED BY <1>2, <1>3, <1>4, ConstantFacts

(* What a search is answered from is at most CatalogTTL, HttpTTL and the     *)
(* time of two rebuilds old (web_catalog.py:62, :82 and http_client.py:84).   *)
THEOREM ServedInTime == Spec => []ServedNotTooOld
<1>1. TypeOK /\ AgeInv /\ [Next]_vars => TypeOK' /\ AgeInv'
  BY TypeStep, AgeStep
<1> QED BY TypeInit, AgeInit, <1>1, AgeBounds, PTL DEF Spec
------------------------------------------------------------------------------
(* Why rebuilds are CatalogTTL apart and processes agree.  While rebuilds do *)
(* not overlap (calm > 0) there is one at most.  The newest catalog, if it   *)
(* was stamped since, is on its way to the file or in it, so that everyone   *)
(* finds it there and nobody starts a rebuild until it is too old; and a     *)
(* catalog that is younger than calm can only be that one.                   *)
SoleRebuild == calm > 0 => \A p, q \in Busy : p = q

NoneNewer ==
  /\ \A p \in Procs : rebuilt <= mem[p].age
  /\ file.kind = "whole" => rebuilt <= file.cat.age

NewestKept == rebuilt < calm =>
  \/ \E p \in Procs : pc[p] = "open" /\ mem[p].age = rebuilt
  \/ \E p \in Procs : pc[p] = "write" /\ mem[p].age = rebuilt /\ file.kind = "empty"
  \/ Busy = {} /\ file.kind = "whole" /\ file.cat.age = rebuilt

Recent(c) == Nonempty(c) /\ c.age < calm
OneCatalog ==
  /\ \A p, q \in Procs : Recent(mem[p]) /\ Recent(mem[q]) => mem[p] = mem[q]
  /\ \A p \in Procs : file.kind = "whole" /\ Recent(file.cat) /\ Recent(mem[p]) =>
       mem[p] = file.cat

CalmInv == SoleRebuild /\ NoneNewer /\ NewestKept /\ OneCatalog

LEMMA CalmInit == Init => CalmInv
<1> SUFFICES ASSUME Init PROVE CalmInv
  OBVIOUS
<1>1. SoleRebuild
  BY DEF Init, SoleRebuild, Busy
<1>2. NoneNewer /\ NewestKept
  BY ConstantFacts DEF Init, NoneNewer, NewestKept, NeverLoaded, NoFile
<1>3. OneCatalog
  BY DEF Init, OneCatalog, NoFile
<1> QED BY <1>1, <1>2, <1>3 DEF CalmInv

(* How a catalog and the two clocks age.                                     *)
LEMMA CatalogAges ==
  ASSUME NEW c \in Catalog
  PROVE  /\ c.age \in 0..CatalogTTL
         /\ AgedCatalog(c).age = IF c.age + 1 < CatalogTTL THEN c.age + 1 ELSE CatalogTTL
         /\ Nonempty(AgedCatalog(c)) => Nonempty(c)
<1>1. c.age \in 0..CatalogTTL
  BY DEF Catalog
<1>2. AgedCatalog(c).age = IF c.age + 1 < CatalogTTL THEN c.age + 1 ELSE CatalogTTL
  BY DEF AgedCatalog, NeverLoaded
<1>3. ASSUME Nonempty(AgedCatalog(c)) PROVE Nonempty(c)
  <2>1. PICK l \in Listings : AgedCatalog(c).parts[l].has
    BY <1>3 DEF Nonempty
  <2>2. AgedCatalog(c).parts = AgedParts(c.parts)
    BY <2>1 DEF AgedCatalog, NeverLoaded, Nothing, Missing
  <2>3. AgedPart(c.parts[l]).has /\ c.parts[l] \in Part
    BY <2>1, <2>2 DEF AgedParts, Catalog, Parts
  <2>4. c.parts[l].has
    BY <2>3 DEF AgedPart, Part
  <2> QED BY <2>4 DEF Nonempty
<1> QED BY <1>1, <1>2, <1>3

LEMMA CalmStep == TypeOK /\ CalmInv /\ [Next]_vars => CalmInv'
<1> SUFFICES ASSUME TypeOK, CalmInv, [Next]_vars PROVE CalmInv'
  OBVIOUS
<1>m. \A p \in Procs : mem[p] \in Catalog /\ mem[p].age \in 0..CatalogTTL
  BY DEF TypeOK, Catalog
<1>f. file.cat \in Catalog /\ file.cat.age \in 0..CatalogTTL
  BY DEF TypeOK, Catalog
<1>c. rebuilt \in 0..CatalogTTL /\ calm \in 0..CatalogTTL /\ CatalogTTL \in Nat /\ CatalogTTL > 0
  BY ConstantFacts DEF TypeOK
<1>1. CASE Tick
  <2>1. /\ pc' = pc /\ Busy' = Busy
        /\ \A p \in Procs : mem'[p] = AgedCatalog(mem[p])
        /\ rebuilt' = Since(rebuilt)
        /\ file.kind = "whole" => file'.cat = AgedCatalog(file.cat)
        /\ file'.kind = file.kind
    BY <1>1 DEF Tick, Busy, TypeOK
  <2>2. rebuilt' \in 0..CatalogTTL /\ (rebuilt' < CatalogTTL => rebuilt' = rebuilt + 1)
    BY <1>c, <2>1 DEF Since
  <2>3. \/ calm' = 0
        \/ calm' = Since(calm) /\ \A p, q \in Busy : p = q
    BY <1>1 DEF Tick
  <2>4. SoleRebuild'
    BY <2>1, <2>3 DEF SoleRebuild
  <2>5. NoneNewer'
    BY <1>c, <1>m, <1>f, <2>1, <2>2, CatalogAges DEF CalmInv, NoneNewer, Since
  <2>6. calm' \in 0..CatalogTTL /\ calm' <= calm + 1
    BY <1>c, <2>3 DEF Since
  <2>7. NewestKept'
    <3>1. SUFFICES ASSUME rebuilt' < calm' PROVE NewestKept'
      BY DEF NewestKept
    <3>2. rebuilt' = rebuilt + 1 /\ rebuilt < calm /\ rebuilt + 1 < CatalogTTL
      BY <1>c, <2>2, <2>6, <3>1
    <3>3. \A c \in Catalog : c.age = rebuilt => AgedCatalog(c).age = rebuilt'
      BY <3>2, CatalogAges
    <3> QED BY <1>m, <1>f, <2>1, <3>2, <3>3 DEF CalmInv, NewestKept
  <2>8. \A c \in Catalog : Nonempty(AgedCatalog(c)) /\ AgedCatalog(c).age < calm' => Recent(c)
    <3>1. SUFFICES ASSUME NEW c \in Catalog, Nonempty(AgedCatalog(c)), AgedCatalog(c).age < calm'
                   PROVE  Recent(c)
      OBVIOUS
    <3>2. c.age \in Nat /\ AgedCatalog(c).age = c.age + 1
      BY <1>c, <2>6, <3>1, CatalogAges
    <3> QED BY <1>c, <2>6, <3>1, <3>2, CatalogAges DEF Recent
  <2>9. OneCatalog'
    BY <1>m, <1>f, <2>1, <2>8 DEF CalmInv, OneCatalog, Recent
  <2> QED BY <2>4, <2>5, <2>7, <2>9 DEF CalmInv
<1>2. CASE PortalChanges
  BY <1>2 DEF PortalChanges, CalmInv, SoleRebuild, NoneNewer, NewestKept, OneCatalog, Recent, Busy
<1>3. ASSUME NEW p \in Procs, Search(p) PROVE CalmInv'
  <2> DEFINE cat == IF file.kind = "absent" THEN mem[p]
                    ELSE IF file.kind = "whole" THEN file.cat
                    ELSE [mem[p] EXCEPT !.parts = Nothing]
  <2>1. /\ pc[p] = "idle" /\ UNCHANGED <<file, rebuilt>>
        /\ mem' = mem \/ mem' = [mem EXCEPT ![p] = cat]
        /\ calm' = IF pc'[p] = "fetch" /\ Busy # {} THEN 0 ELSE calm
        /\ pc' = pc \/ (/\ pc' = [pc EXCEPT ![p] = "fetch"]
                       /\ ~(file.kind = "whole" /\ Usable(file.cat)))
    BY <1>3 DEF Search, End, Loaded, TypeOK
  <2>2. \/ cat = mem[p] \/ (file.kind = "whole" /\ cat = file.cat)
        \/ cat.parts = Nothing /\ cat.age = mem[p].age
    BY <1>m DEF Catalog
  <2> HIDE DEF cat
  <2>3. \A q \in Procs : \/ mem'[q] = mem[q]
                         \/ file.kind = "whole" /\ mem'[q] = file.cat /\ q = p
                         \/ ~Nonempty(mem'[q]) /\ mem'[q].age = mem[q].age /\ q = p
    BY <2>1, <2>2 DEF TypeOK, Nonempty, Nothing, Missing
  <2>4. calm' = 0 \/ calm' = calm
    BY <2>1
  <2>5. NoneNewer'
    BY <2>1, <2>3 DEF CalmInv, NoneNewer
  <2>6. OneCatalog'
    <3>1. \A c : Nonempty(c) /\ c.age < calm' /\ c.age \in 0..CatalogTTL => Recent(c)
      BY <1>c, <2>4 DEF Recent
    <3> QED BY <1>m, <1>f, <2>1, <2>3, <3>1 DEF CalmInv, OneCatalog, Recent
  <2>7. SoleRebuild' /\ NewestKept'
    <3>1. CASE pc' = pc
      <4>1. Busy' = Busy /\ calm' = calm
        BY <2>1, <3>1 DEF Busy
      <4>2. SoleRebuild'
        BY <4>1 DEF CalmInv, SoleRebuild
      <4>3. NewestKept'
        BY <2>1, <2>3, <3>1, <4>1 DEF CalmInv, NewestKept
      <4> QED BY <4>2, <4>3
    <3>2. CASE pc' # pc
      <4>1. pc' = [pc EXCEPT ![p] = "fetch"] /\ ~(file.kind = "whole" /\ Usable(file.cat))
        BY <2>1, <3>2
      <4>2. CASE Busy # {}
        <5>1. calm' = 0
          BY <2>1, <4>1, <4>2 DEF TypeOK
        <5> QED BY <1>c, <2>1, <5>1 DEF SoleRebuild, NewestKept
      <4>3. CASE Busy = {}
        <5>1. calm' = calm /\ Busy' = {p}
          BY <2>1, <4>1, <4>3 DEF Busy, TypeOK
        <5>2. ~(rebuilt < calm)
          BY <1>c, <1>f, <4>1, <4>3 DEF CalmInv, NewestKept, Usable, Busy
        <5> QED BY <2>1, <5>1, <5>2 DEF SoleRebuild, NewestKept
      <4> QED BY <4>2, <4>3
    <3> QED BY <3>1, <3>2
  <2> QED BY <2>5, <2>6, <2>7 DEF CalmInv
<1>4. ASSUME NEW p \in Procs, NEW a, ListingFails(p, a) PROVE CalmInv'
  <2>1. /\ UNCHANGED <<mem, file, rebuilt, calm>>
        /\ pc[p] = "fetch" /\ pc' = [pc EXCEPT ![p] = "idle"]
    BY <1>4 DEF ListingFails, End
  <2>2. Busy' \subseteq Busy /\ (Busy = {} => Busy' = {})
    BY <2>1 DEF Busy, TypeOK
  <2>3. SoleRebuild' /\ NoneNewer' /\ OneCatalog'
    BY <2>1, <2>2 DEF CalmInv, SoleRebuild, NoneNewer, OneCatalog, Recent
  <2>4. NewestKept'
    BY <2>1, <2>2 DEF CalmInv, NewestKept, TypeOK
  <2> QED BY <2>3, <2>4 DEF CalmInv
<1>5. ASSUME NEW p \in Procs, NEW a, ListingDone(p, a) PROVE CalmInv'
  <2>1. pc[p] = "fetch" /\ UNCHANGED <<file, calm>>
    BY <1>5 DEF ListingDone
  <2>2. CASE More(next[p])
    BY <1>5, <2>2 DEF ListingDone, CalmInv, SoleRebuild, NoneNewer, NewestKept, OneCatalog, Recent,
       Busy
  <2>3. CASE ~More(next[p])
    <3>1. PICK parts : /\ mem' = [mem EXCEPT ![p] = [age |-> 0, parts |-> parts]]
                       /\ pc' = [pc EXCEPT ![p] = "open"]
                       /\ rebuilt' = 0
      BY <1>5, <2>3 DEF ListingDone
    <3>2. /\ Busy' = Busy /\ p \in Busy
          /\ mem'[p].age = 0 /\ \A q \in Procs : q # p => mem'[q] = mem[q]
      BY <2>1, <3>1 DEF Busy, TypeOK
    <3>3. SoleRebuild' /\ NoneNewer'
      BY <1>m, <1>f, <2>1, <3>1, <3>2 DEF CalmInv, SoleRebuild, NoneNewer
    <3>4. NewestKept'
      BY <3>1, <3>2 DEF NewestKept, TypeOK
    <3>5. calm = 0 \/ calm <= rebuilt
      <4>1. SUFFICES ASSUME calm > 0, rebuilt < calm PROVE FALSE
        BY <1>c
      <4>2. \A q \in Procs : pc[q] # "idle" => q = p
        BY <3>2, <4>1 DEF CalmInv, SoleRebuild, Busy
      <4> QED BY <2>1, <3>2, <4>1, <4>2 DEF CalmInv, NewestKept
    <3>6. /\ \A q \in Procs : ~Recent(mem[q])
          /\ file.kind = "whole" => ~Recent(file.cat)
      BY <1>c, <1>m, <1>f, <3>5 DEF CalmInv, NoneNewer, Recent
    <3>7. OneCatalog'
      BY <2>1, <3>2, <3>6 DEF OneCatalog, Recent
    <3> QED BY <3>3, <3>4, <3>7 DEF CalmInv
  <2> QED BY <2>2, <2>3
<1>6. ASSUME NEW p \in Procs, Open(p) PROVE CalmInv'
  <2>1. /\ UNCHANGED <<mem, rebuilt, calm>>
        /\ pc[p] = "open" /\ pc' = [pc EXCEPT ![p] = "write"]
        /\ file'.kind = "empty"
    BY <1>6 DEF Open, NoFile
  <2>2. Busy' = Busy /\ p \in Busy
    BY <2>1 DEF Busy, TypeOK
  <2>3. SoleRebuild' /\ NoneNewer' /\ OneCatalog'
    BY <2>1, <2>2 DEF CalmInv, SoleRebuild, NoneNewer, OneCatalog, Recent
  <2>4. NewestKept'
    <3>1. SUFFICES ASSUME rebuilt < calm PROVE mem[p].age = rebuilt
      BY <2>1 DEF NewestKept, TypeOK
    <3>2. \A q \in Procs : pc[q] # "idle" => q = p
      BY <1>c, <2>2, <3>1 DEF CalmInv, SoleRebuild, Busy
    <3> QED BY <2>1, <2>2, <3>1, <3>2 DEF CalmInv, NewestKept
  <2> QED BY <2>3, <2>4 DEF CalmInv
<1>7. ASSUME NEW p \in Procs, Write(p) PROVE CalmInv'
  <2>1. /\ UNCHANGED <<mem, rebuilt, calm>>
        /\ pc[p] = "write" /\ pc' = [pc EXCEPT ![p] = "idle"]
        /\ file' = [kind |-> "whole", cat |-> mem[p]] \/ file'.kind # "whole"
        /\ file.kind = "empty" => file' = [kind |-> "whole", cat |-> mem[p]]
    BY <1>7 DEF Write, End, NoFile
  <2>2. Busy' = Busy \ {p} /\ p \in Busy
    BY <2>1 DEF Busy, TypeOK
  <2>3. SoleRebuild'
    BY <2>1, <2>2 DEF CalmInv, SoleRebuild
  <2>4. NoneNewer' /\ OneCatalog'
    BY <2>1 DEF CalmInv, NoneNewer, OneCatalog, Recent
  <2>5. NewestKept'
    <3>1. SUFFICES ASSUME rebuilt < calm
                   PROVE  Busy' = {} /\ file'.kind = "whole" /\ file'.cat.age = rebuilt
      BY <2>1 DEF NewestKept
    <3>2. \A q \in Busy : q = p
      BY <1>c, <2>2, <3>1 DEF CalmInv, SoleRebuild
    <3>3. mem[p].age = rebuilt /\ file.kind = "empty"
      BY <2>1, <2>2, <3>1, <3>2 DEF CalmInv, NewestKept, Busy
    <3> QED BY <2>1, <2>2, <3>2, <3>3
  <2> QED BY <2>3, <2>4, <2>5 DEF CalmInv
<1>8. ASSUME NEW p \in Procs, Restart(p) \/ Crash(p) PROVE CalmInv'
  <2>1. /\ UNCHANGED <<file, rebuilt>>
        /\ mem' = [mem EXCEPT ![p] = NeverLoaded]
        /\ pc' = [pc EXCEPT ![p] = "idle"]
        /\ calm' = 0 \/ (calm' = calm /\ pc[p] = "idle")
    BY <1>8 DEF Restart, Crash, Leave, End
  <2>2. Busy' \subseteq Busy
    BY <2>1 DEF Busy, TypeOK
  <2>3. /\ mem'[p].age = CatalogTTL /\ ~Nonempty(mem'[p])
        /\ \A q \in Procs : q # p => mem'[q] = mem[q]
    BY <2>1 DEF TypeOK, NeverLoaded, Nonempty, Nothing, Missing
  <2>4. SoleRebuild' /\ NoneNewer'
    BY <1>c, <2>1, <2>2, <2>3 DEF CalmInv, SoleRebuild, NoneNewer
  <2>5. NewestKept'
    <3>1. CASE calm' = 0
      BY <1>c, <2>1, <3>1 DEF NewestKept
    <3>2. CASE calm' = calm /\ pc[p] = "idle"
      <4>1. pc' = pc
        BY <2>1, <3>2 DEF TypeOK
      <4>2. Busy' = Busy
        BY <4>1 DEF Busy
      <4> QED BY <2>1, <2>3, <3>2, <4>1, <4>2 DEF CalmInv, NewestKept
    <3> QED BY <2>1, <3>1, <3>2
  <2>6. OneCatalog'
    <3>1. \A c : Nonempty(c) /\ c.age < calm' /\ c.age \in 0..CatalogTTL => Recent(c)
      BY <1>c, <2>1 DEF Recent
    <3> QED BY <1>m, <1>f, <2>1, <2>3, <3>1 DEF CalmInv, OneCatalog, Recent
  <2> QED BY <2>4, <2>5, <2>6 DEF CalmInv
<1>9. CASE UNCHANGED vars
  BY <1>9 DEF vars, CalmInv, SoleRebuild, NoneNewer, NewestKept, OneCatalog, Recent, Busy
<1> QED
  BY <1>1, <1>2, <1>3, <1>4, <1>5, <1>6, <1>7, <1>8, <1>9 DEF Next, Rebuild

LEMMA CalmHolds == Spec => [](TypeOK /\ CalmInv)
<1>1. TypeOK /\ CalmInv /\ [Next]_vars => TypeOK' /\ CalmInv'
  BY TypeStep, CalmStep
<1> QED BY TypeInit, CalmInit, <1>1, PTL DEF Spec

(* Unless rebuilds overlapped or one was cut off within CatalogTTL, none     *)
(* starts within CatalogTTL of a completed one (web_catalog.py:61-87).       *)
THEOREM RebuildsAreSpaced == Spec => []RebuildsSpaced
<1>1. ASSUME TypeOK, CalmInv PROVE RebuildsSpaced
  <2>1. SUFFICES ASSUME calm = CatalogTTL, NEW p \in Procs, pc[p] = "fetch", rebuilt # CatalogTTL
                 PROVE  FALSE
    BY DEF RebuildsSpaced
  <2>2. rebuilt < calm /\ calm > 0
    BY <1>1, <2>1, ConstantFacts DEF TypeOK
  <2>3. \A q \in Procs : pc[q] # "idle" => q = p
    BY <1>1, <2>1, <2>2 DEF CalmInv, SoleRebuild, Busy
  <2> QED BY <1>1, <2>1, <2>2, <2>3 DEF CalmInv, NewestKept, Busy
<1> QED BY <1>1, CalmHolds, PTL

(* With the same exception, all processes that hold a catalog hold the same  *)
(* one (web_catalog.py:55 and :79).                                          *)
THEOREM CatalogsAgree == Spec => []ProcessesAgree
<1>1. CalmInv => ProcessesAgree
  BY DEF CalmInv, OneCatalog, Recent, Held, ProcessesAgree
<1> QED BY <1>1, CalmHolds, PTL
==============================================================================
