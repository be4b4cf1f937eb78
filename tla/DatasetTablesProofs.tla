-------------------------- MODULE DatasetTablesProofs --------------------------
(***************************************************************************)
(* Theorems about DatasetTables, for any processes, URLs, TTL, length of a *)
(* call and number of versions: its types, and the age of a table.         *)
(***************************************************************************)
EXTENDS DatasetTables, TLAPS

(* Why no table is older than MaxLag.  A page is only good for as long as    *)
(* the file it points to was the current one at most so long ago:            *)
(* whatever is at that URL was replaced, if at all, after the page was asked *)
(* for.  From there each link of the chain adds its own delay:               *)
(*   the page on its way to the cache       at most the call so far          *)
(*   the page in the cache                  MaxCall and its age              *)
(*   a call that follows the page           HttpTTL, MaxCall, the call so far *)
(*   the file it brings to the cache        the same                         *)
(*   the file in the cache                  HttpTTL, 2 * MaxCall and its age *)
LinkIsCurrent == link \in Files => stock[link].lag = 0

PageOnItsWay == \A p \in Procs :
  pc[p] = "store" /\ at[p] = Page /\ got[p].file \in Files =>
    stock[got[p].file].lag <= 1 + spent[p]

PageInCache == http[Page].doc.file \in Files =>
  stock[http[Page].doc.file].lag <= 1 + MaxCall + http[Page].age

FileAskedFor == \A p \in Procs : at[p] \in Files =>
  stock[at[p]].lag <= 1 + HttpTTL + MaxCall + spent[p]

FileOnItsWay == \A p \in Procs : pc[p] = "store" /\ at[p] \in Files =>
  got[p].lag <= 1 + HttpTTL + MaxCall + spent[p]

FileInCache == \A f \in Files :
  http[f].doc.lag <= 1 + HttpTTL + 2 * MaxCall + http[f].age

IdleAtPage == \A p \in Procs : pc[p] = "idle" => at[p] = Page

LagInv ==
  /\ IdleAtPage
  /\ LinkIsCurrent /\ PageOnItsWay /\ PageInCache
  /\ FileAskedFor /\ FileOnItsWay /\ FileInCache
  /\ VersionLagBounded

------------------------------------------------------------------------------
(* What the steps are made of.                                               *)

LEMMA ConstantFacts ==
  /\ HttpTTL \in Nat /\ MaxCall \in Nat /\ MaxVersions \in Nat /\ AgeCap \in Nat
  /\ MaxLag \in Nat /\ MaxLag < AgeCap
  /\ Page \notin Files /\ NoFile \notin Files /\ Page # NoFile
BY TablesAssumption DEF MaxLag, Page, NoFile

LEMMA ContentTypes ==
  /\ Nothing \in Content /\ CurrentVersion \in Content /\ Absent \in Entry
  /\ \A f \in Files \cup {NoFile} : PageTo(f) \in Content
  /\ \A c \in Content : Replaced(c) \in Content /\ AgedContent(c) \in Content
  /\ \A e \in Entry : AgedEntry(e) \in Entry
  /\ \A e \in Entry : [e EXCEPT !.doc = Replaced(@)] \in Entry
<1>0. AgeCap \in Nat /\ AgeCap > 0 /\ HttpTTL \in Nat
  BY ConstantFacts
<1>1. Nothing \in Content /\ CurrentVersion \in Content
      /\ \A f \in Files \cup {NoFile} : PageTo(f) \in Content
  BY <1>0 DEF Nothing, CurrentVersion, PageTo, Content, Ages
<1>2. Absent \in Entry
  BY <1>0, <1>1 DEF Absent, Entry
<1>3. ASSUME NEW c \in Content PROVE Replaced(c) \in Content /\ AgedContent(c) \in Content
  BY <1>0 DEF Replaced, AgedContent, Older, Content, Ages
<1>4. ASSUME NEW e \in Entry PROVE AgedEntry(e) \in Entry
  BY <1>0, <1>2, <1>3 DEF AgedEntry, Entry
<1>5. ASSUME NEW e \in Entry PROVE [e EXCEPT !.doc = Replaced(@)] \in Entry
  <2>1. e.doc \in Content
    BY DEF Entry
  <2> QED BY <2>1, <1>3 DEF Entry
<1> QED BY <1>1, <1>2, <1>3, <1>4, <1>5

(* How replacing and ageing change the lag of a document.                    *)
LEMMA Lags ==
  /\ \A c \in Content : Replaced(c).lag = c.lag \/ (c.lag = 0 /\ Replaced(c).lag = 1)
  /\ \A c \in Content : AgedContent(c).lag <= c.lag + 1
  /\ \A c \in Content : c.lag = 0 => AgedContent(c).lag = 0
  /\ \A c \in Content : Replaced(c).file = c.file /\ AgedContent(c).file = c.file
  /\ Nothing.lag = 0 /\ Nothing.file = NoFile /\ CurrentVersion.lag = 0
BY ConstantFacts DEF Replaced, AgedContent, Older, Content, Ages, Nothing, CurrentVersion

LEMMA EndType ==
  ASSUME TypeOK, NEW p \in Procs, NEW a \in Answer, End(p, a)
  PROVE  /\ pc' \in [Procs -> {"idle", "ask", "store"}]
         /\ at' \in [Procs -> Documents]
         /\ got' \in [Procs -> Content]
         /\ spent' \in [Procs -> 0..MaxCall]
         /\ answer' \in Answer
<1>1. 0 \in 0..MaxCall /\ Page \in Documents /\ Nothing \in Content
  BY ConstantFacts, ContentTypes DEF Documents
<1> QED BY <1>1 DEF End, TypeOK

LEMMA SaidType == \A kind \in Kinds : Said(kind) \in Answer
<1>1. 0 \in Ages /\ "none" \in Kinds \ {"local", "raised"}
  BY ConstantFacts DEF Ages, Kinds
<1>2. \A kind \in Kinds :
        (IF kind \in Silent THEN "none" ELSE kind) \in Kinds \ {"local", "raised"}
  BY <1>1 DEF Silent
<1> QED BY <1>1, <1>2 DEF Said, Answer

LEMMA OutcomeKinds == Outcomes \subseteq Kinds
BY DEF Outcomes, Delivered, Readings, Formats, Exports, Typed, HeaderNames, Kinds

LEMMA ReceivedType ==
  ASSUME TypeOK, NEW p \in Procs, NEW doc \in Content, Received(p, doc)
  PROVE  /\ pc' \in [Procs -> {"idle", "ask", "store"}]
         /\ at' \in [Procs -> Documents]
         /\ got' \in [Procs -> Content]
         /\ spent' \in [Procs -> 0..MaxCall]
         /\ answer' \in Answer
<1>1. CASE at[p] = Page /\ Linked(doc.file)
  <2>1. doc.file \in Documents
    BY <1>1 DEF Content, Linked, Documents
  <2>2. Nothing \in Content /\ Said("none") \in Answer
    BY ContentTypes, SaidType DEF Kinds
  <2> QED BY <1>1, <2>1, <2>2 DEF Received, NoAnswer, TypeOK
<1>2. CASE at[p] = Page /\ ~Linked(doc.file)
  BY <1>2, EndType, SaidType DEF Received, Kinds
<1>3. CASE at[p] # Page
  <2>1. PICK kind \in Outcomes :
          End(p, IF kind = "table" THEN [kind |-> "table", lag |-> doc.lag] ELSE Said(kind))
    BY <1>3 DEF Received
  <2>2. [kind |-> "table", lag |-> doc.lag] \in Answer
    BY DEF Answer, Kinds, Content
  <2> QED BY <2>1, <2>2, EndType, SaidType, OutcomeKinds
<1> QED BY <1>1, <1>2, <1>3

(* What an answer in hand does to the calls: only its own goes on, to the    *)
(* file its page points to or to the end.                                    *)
LEMMA ReceivedShape ==
  ASSUME TypeOK, NEW p \in Procs, NEW doc \in Content, Received(p, doc)
  PROVE  /\ \A q \in Procs \ {p} :
              pc'[q] = pc[q] /\ at'[q] = at[q] /\ got'[q] = got[q] /\ spent'[q] = spent[q]
         /\ pc'[p] # "store" /\ (pc'[p] = "idle" => at'[p] = Page)
         /\ at'[p] = Page \/ (at[p] = Page /\ at'[p] = doc.file /\ spent'[p] = spent[p])
         /\ answer'.lag = 0 \/ (at[p] \in Files /\ answer'.lag = doc.lag)
<1>1. CASE at[p] = Page /\ Linked(doc.file)
  BY <1>1 DEF Received, NoAnswer, Said, TypeOK
<1>2. CASE at[p] = Page /\ ~Linked(doc.file)
  BY <1>2 DEF Received, End, Said, TypeOK
<1>3. CASE at[p] # Page
  <2>1. PICK kind \in Outcomes :
          End(p, IF kind = "table" THEN [kind |-> "table", lag |-> doc.lag] ELSE Said(kind))
    BY <1>3 DEF Received
  <2>2. at[p] \in Files
    BY <1>3 DEF TypeOK, Documents
  <2> QED BY <2>1, <2>2 DEF End, Said, TypeOK
<1> QED BY <1>1, <1>2, <1>3
------------------------------------------------------------------------------
LEMMA TypeInit == Init => TypeOK
<1> SUFFICES ASSUME Init PROVE TypeOK
  OBVIOUS
<1>1. link \in Files
  BY TablesAssumption DEF Init
<1>2. answer \in Answer
  BY SaidType DEF Init, Kinds
<1> QED
  BY <1>1, <1>2, ConstantFacts, ContentTypes DEF Init, TypeOK, Documents

LEMMA TypeStep == TypeOK /\ [Next]_vars => TypeOK'
<1> SUFFICES ASSUME TypeOK, [Next]_vars PROVE TypeOK'
  OBVIOUS
<1>0. Said("none") \in Answer
  BY SaidType DEF Kinds
<1>1. CASE Tick
  <2>1. spent' \in [Procs -> 0..MaxCall]
    BY <1>1, ConstantFacts DEF Tick, TypeOK
  <2>2. /\ stock' \in [Files -> Content]
        /\ http' \in [Documents -> Entry]
        /\ got' \in [Procs -> Content]
    BY <1>1, ContentTypes DEF Tick, TypeOK
  <2> QED BY <1>0, <1>1, <2>1, <2>2 DEF Tick, NoAnswer, TypeOK
<1>2. ASSUME NEW p \in Procs, NEW prefix \in Prefixes, Call(p, prefix) PROVE TypeOK'
  <2>1. PICK to \in Route(prefix) :
          IF to = "remote"
          THEN /\ pc' = [pc EXCEPT ![p] = "ask"]
               /\ NoAnswer
               /\ UNCHANGED <<at, got, spent>>
          ELSE End(p, Said(to))
    BY <1>2 DEF Call
  <2>2. to \in Kinds \cup {"remote"}
    BY DEF Route, LocalLookup, Prefixes, Kinds
  <2>3. CASE to = "remote"
    BY <1>0, <1>2, <2>1, <2>3 DEF Call, NoAnswer, portal, TypeOK
  <2>4. CASE to # "remote"
    <3>1. Said(to) \in Answer
      BY <2>2, <2>4, SaidType
    <3> QED BY <1>2, <2>1, <2>4, <3>1, EndType DEF Call, portal, TypeOK
  <2> QED BY <2>3, <2>4
<1>3. ASSUME NEW p \in Procs, Hit(p) PROVE TypeOK'
  <2>1. http[at[p]].doc \in Content
    BY DEF TypeOK, Entry
  <2> QED BY <1>3, <2>1, ReceivedType DEF Hit, portal, TypeOK
<1>4. ASSUME NEW p \in Procs, Ask(p) PROVE TypeOK'
  <2>1. Served(at[p]) \subseteq Content
    BY ContentTypes, TablesAssumption DEF Served, TypeOK, Documents
  <2>2. PICK doc \in Served(at[p]) : got' = [got EXCEPT ![p] = doc]
    BY <1>4 DEF Ask
  <2> QED BY <1>0, <1>4, <2>1, <2>2 DEF Ask, NoAnswer, portal, TypeOK
<1>5. ASSUME NEW p \in Procs, Fail(p) PROVE TypeOK'
  BY <1>5, EndType, SaidType DEF Fail, portal, TypeOK, Kinds
<1>6. ASSUME NEW p \in Procs, Store(p) PROVE TypeOK'
  <2>1. [doc |-> got[p], age |-> 0] \in Entry
    BY ConstantFacts DEF TypeOK, Entry
  <2>2. http' \in [Documents -> Entry]
    BY <1>6, <2>1 DEF Store, TypeOK
  <2>3. got[p] \in Content
    BY DEF TypeOK
  <2> QED BY <1>6, <2>2, <2>3, ReceivedType DEF Store, portal, TypeOK
<1>7. ASSUME NEW f \in Files, NEW kept \in BOOLEAN, Publish(f, kept) PROVE TypeOK'
  <2>1. stock' \in [Files -> Content]
    BY <1>7, ContentTypes DEF Publish, TypeOK
  <2>2. http' \in [Documents -> Entry]
    BY <1>7, ContentTypes DEF Publish, TypeOK
  <2>3. got' \in [Procs -> Content]
    BY <1>7, ContentTypes DEF Publish, TypeOK
  <2>4. versions' \in 0..MaxVersions
    BY <1>7, ConstantFacts DEF Publish, TypeOK
  <2> QED BY <1>0, <1>7, <2>1, <2>2, <2>3, <2>4 DEF Publish, NoAnswer, TypeOK
<1>8. ASSUME NEW f \in Files \cup {NoFile}, Relink(f) PROVE TypeOK'
  BY <1>0, <1>8 DEF Relink, NoAnswer, TypeOK
<1>9. CASE UNCHANGED vars
  BY <1>9 DEF vars, portal, TypeOK
<1> QED
  BY <1>1, <1>2, <1>3, <1>4, <1>5, <1>6, <1>7, <1>8, <1>9 DEF Next, GoOn

(* Every variable of the table calls, the cache and the portal keeps its     *)
(* type: no call gets stuck at a document that has no entry and no page      *)
(* without a link is followed (download_adapter.py:36).                      *)
THEOREM TypeCorrect == Spec => []TypeOK
BY TypeInit, TypeStep, PTL DEF Spec
------------------------------------------------------------------------------
LEMMA LagInit == Init => LagInv
BY TablesAssumption, ConstantFacts DEF Init, LagInv, IdleAtPage, LinkIsCurrent, PageOnItsWay,
   PageInCache, FileAskedFor, FileOnItsWay, FileInCache, VersionLagBounded, Absent, Nothing,
   CurrentVersion, Said, Documents

(* A call that ends, or goes on to a file which was the current one late     *)
(* enough, leaves what the calls carry within its bounds.                    *)
LEMMA CallMoves ==
  ASSUME TypeOK, LagInv, TypeOK', NEW p \in Procs, UNCHANGED portal,
         \A q \in Procs \ {p} :
           pc'[q] = pc[q] /\ at'[q] = at[q] /\ got'[q] = got[q] /\ spent'[q] = spent[q],
         pc'[p] # "store", pc'[p] = "idle" => at'[p] = Page,
         at'[p] \in Files => stock[at'[p]].lag <= 1 + HttpTTL + MaxCall + spent'[p]
  PROVE  IdleAtPage' /\ LinkIsCurrent' /\ PageOnItsWay' /\ FileAskedFor' /\ FileOnItsWay'
<1>1. link' = link /\ stock' = stock
  BY DEF portal
<1>2. IdleAtPage' /\ LinkIsCurrent'
  BY <1>1 DEF LagInv, IdleAtPage, LinkIsCurrent
<1>3. PageOnItsWay' /\ FileOnItsWay'
  BY <1>1 DEF LagInv, PageOnItsWay, FileOnItsWay
<1>4. FileAskedFor'
  BY <1>1 DEF LagInv, FileAskedFor
<1> QED BY <1>2, <1>3, <1>4

LEMMA LagStep == TypeOK /\ LagInv /\ [Next]_vars => LagInv'
<1> SUFFICES ASSUME TypeOK, LagInv, [Next]_vars PROVE LagInv'
  OBVIOUS
<1>t. TypeOK'
  BY TypeStep
<1>c. HttpTTL \in Nat /\ MaxCall \in Nat /\ MaxLag = 1 + 2 * HttpTTL + 2 * MaxCall
  BY ConstantFacts DEF MaxLag
<1>n. /\ \A f \in Files : stock[f] \in Content /\ stock[f].lag \in Nat
      /\ \A p \in Procs : got[p] \in Content /\ got[p].lag \in Nat
      /\ \A p \in Procs : spent[p] \in Nat /\ spent[p] <= MaxCall
      /\ \A d \in Documents : /\ http[d].doc \in Content /\ http[d].doc.lag \in Nat
                              /\ http[d].age \in Nat /\ http[d].age <= HttpTTL
      /\ Page \in Documents /\ Files \subseteq Documents /\ Page \notin Files
      /\ NoFile \notin Files
  BY ConstantFacts DEF TypeOK, Content, Entry, Ages, Documents
<1>1. CASE Tick
  <2>1. \A f \in Files : stock'[f].lag <= stock[f].lag + 1
                        /\ (stock[f].lag = 0 => stock'[f].lag = 0)
    BY <1>1, <1>n, Lags DEF Tick
  <2>2. \A p \in Procs : got'[p].lag <= got[p].lag + 1 /\ got'[p].file = got[p].file
    BY <1>1, <1>n, Lags DEF Tick
  <2>3. \A p \in Procs : pc[p] # "idle" => spent'[p] = spent[p] + 1
    BY <1>1 DEF Tick
  <2>4. \A d \in Documents : \/ http'[d] = Absent
                            \/ /\ http'[d].doc = AgedContent(http[d].doc)
                               /\ http'[d].age = http[d].age + 1
    BY <1>1 DEF Tick, AgedEntry
  <2>5. pc' = pc /\ at' = at /\ link' = link /\ answer'.lag = 0
    BY <1>1 DEF Tick, NoAnswer, Said
  <2>n. /\ \A f \in Files : stock'[f].lag \in Nat
        /\ \A p \in Procs : got'[p].lag \in Nat
    BY <1>t, ConstantFacts DEF TypeOK, Content, Ages
  <2>6. IdleAtPage' /\ LinkIsCurrent'
    BY <2>1, <2>5 DEF LagInv, IdleAtPage, LinkIsCurrent
  <2>7. PageOnItsWay'
    BY <1>n, <2>n, <2>1, <2>2, <2>3, <2>5 DEF LagInv, PageOnItsWay
  <2>8. PageInCache'
    <3>1. SUFFICES ASSUME http'[Page].doc.file \in Files
          PROVE  stock'[http'[Page].doc.file].lag <= 1 + MaxCall + http'[Page].age
      BY DEF PageInCache
    <3>2. http'[Page] # Absent
      BY <1>n, <3>1, Lags DEF Absent
    <3>3. http'[Page].doc.file = http[Page].doc.file /\ http'[Page].age = http[Page].age + 1
      BY <1>n, <2>4, <3>2, Lags
    <3> QED BY <1>c, <1>n, <2>n, <2>1, <3>1, <3>3 DEF LagInv, PageInCache
  <2>9. FileAskedFor'
    <3>1. SUFFICES ASSUME NEW p \in Procs, at[p] \in Files
          PROVE  stock'[at[p]].lag <= 1 + HttpTTL + MaxCall + spent'[p]
      BY <2>5 DEF FileAskedFor
    <3>2. spent'[p] = spent[p] + 1
      BY <1>n, <2>3, <3>1 DEF LagInv, IdleAtPage
    <3> QED BY <1>c, <1>n, <2>n, <2>1, <3>1, <3>2 DEF LagInv, FileAskedFor
  <2>10. FileOnItsWay'
    BY <1>c, <1>n, <2>n, <2>2, <2>3, <2>5 DEF LagInv, FileOnItsWay
  <2>11. FileInCache'
    <3>1. SUFFICES ASSUME NEW f \in Files
          PROVE  http'[f].doc.lag <= 1 + HttpTTL + 2 * MaxCall + http'[f].age
      BY DEF FileInCache
    <3>2. CASE http'[f] = Absent
      BY <1>c, <3>2, Lags DEF Absent
    <3>3. CASE http'[f] # Absent
      <4>1. http'[f].doc.lag <= http[f].doc.lag + 1 /\ http'[f].age = http[f].age + 1
        BY <1>n, <2>4, <3>3, Lags
      <4>2. http'[f].doc.lag \in Nat
        BY <1>n, <1>t, ConstantFacts DEF TypeOK, Entry, Content, Ages
      <4> QED BY <1>c, <1>n, <4>1, <4>2 DEF LagInv, FileInCache
    <3> QED BY <3>2, <3>3
  <2> QED BY <1>c, <2>5, <2>6, <2>7, <2>8, <2>9, <2>10, <2>11 DEF LagInv, VersionLagBounded
<1>2. ASSUME NEW p \in Procs, NEW prefix \in Prefixes, Call(p, prefix) PROVE LagInv'
  <2>1. PICK to \in Route(prefix) :
          IF to = "remote"
          THEN /\ pc' = [pc EXCEPT ![p] = "ask"]
               /\ NoAnswer
               /\ UNCHANGED <<at, got, spent>>
          ELSE End(p, Said(to))
    BY <1>2 DEF Call
  <2>2. at[p] = Page
    BY <1>2 DEF Call, LagInv, IdleAtPage
  <2>3. /\ \A q \in Procs \ {p} :
             pc'[q] = pc[q] /\ at'[q] = at[q] /\ got'[q] = got[q] /\ spent'[q] = spent[q]
        /\ pc'[p] # "store" /\ at'[p] = Page /\ answer'.lag = 0
    BY <2>1, <2>2 DEF End, NoAnswer, Said, TypeOK
  <2>4. IdleAtPage' /\ LinkIsCurrent' /\ PageOnItsWay' /\ FileAskedFor' /\ FileOnItsWay'
    BY <1>2, <1>n, <1>t, <2>3, CallMoves DEF Call
  <2> QED BY <1>2, <1>c, <2>3, <2>4 DEF Call, portal, LagInv, PageInCache, FileInCache,
             VersionLagBounded
<1>3. ASSUME NEW p \in Procs, Hit(p) PROVE LagInv'
  <2> DEFINE doc == http[at[p]].doc
  <2>1. at[p] \in Documents /\ doc \in Content
    BY <1>n DEF TypeOK
  <2>2. Received(p, doc) /\ UNCHANGED portal /\ http' = http /\ stock' = stock
    BY <1>3 DEF Hit, portal
  <2> HIDE DEF doc
  <2>3. spent'[p] \in Nat
    BY <1>t, <1>c DEF TypeOK
  <2>4. at'[p] \in Files => stock[at'[p]].lag <= 1 + HttpTTL + MaxCall + spent'[p]
    <3>1. SUFFICES ASSUME at'[p] \in Files
          PROVE  stock[at'[p]].lag <= 1 + HttpTTL + MaxCall + spent'[p]
      OBVIOUS
    <3>2. at[p] = Page /\ at'[p] = doc.file
      BY <1>n, <2>1, <2>2, <3>1, ReceivedShape
    <3>3. stock[at'[p]].lag <= 1 + MaxCall + http[Page].age
      BY <3>1, <3>2 DEF doc, LagInv, PageInCache
    <3> QED BY <1>c, <1>n, <2>3, <3>1, <3>3
  <2>5. IdleAtPage' /\ LinkIsCurrent' /\ PageOnItsWay' /\ FileAskedFor' /\ FileOnItsWay'
    BY <1>t, <2>1, <2>2, <2>4, ReceivedShape, CallMoves
  <2>6. VersionLagBounded'
    <3>1. answer'.lag = 0 \/ (at[p] \in Files /\ answer'.lag = http[at[p]].doc.lag)
      BY <2>1, <2>2, ReceivedShape DEF doc
    <3> QED BY <1>c, <1>n, <3>1 DEF LagInv, FileInCache, VersionLagBounded
  <2> QED BY <2>2, <2>5, <2>6 DEF LagInv, PageInCache, FileInCache
<1>4. ASSUME NEW p \in Procs, Ask(p) PROVE LagInv'
  <2>0. PICK doc \in Served(at[p]) : got' = [got EXCEPT ![p] = doc]
    BY <1>4 DEF Ask
  <2>1. /\ pc' = [pc EXCEPT ![p] = "store"] /\ got' = [got EXCEPT ![p] = doc]
        /\ answer'.lag = 0
        /\ UNCHANGED <<link, stock, http, at, spent>>
    BY <1>4, <2>0 DEF Ask, NoAnswer, Said, portal
  <2>2. at[p] = Page /\ doc.file \in Files => stock[doc.file].lag = 0
    BY <1>n, <2>0, Lags DEF Served, PageTo, LagInv, LinkIsCurrent
  <2>3. at[p] \in Files => doc.lag = 0 \/ doc.lag = stock[at[p]].lag
    BY <1>n, <2>0, Lags DEF Served
  <2>4. PageOnItsWay'
    BY <1>n, <2>1, <2>2 DEF LagInv, PageOnItsWay, TypeOK
  <2>5. FileOnItsWay'
    BY <1>c, <1>n, <2>1, <2>3 DEF LagInv, FileOnItsWay, FileAskedFor, TypeOK
  <2>6. IdleAtPage'
    BY <2>1 DEF LagInv, IdleAtPage, TypeOK
  <2> QED
    BY <1>c, <2>1, <2>4, <2>5, <2>6 DEF LagInv, LinkIsCurrent, PageInCache, FileAskedFor,
       FileInCache, VersionLagBounded
<1>5. ASSUME NEW p \in Procs, Fail(p) PROVE LagInv'
  <2>1. /\ \A q \in Procs \ {p} :
             pc'[q] = pc[q] /\ at'[q] = at[q] /\ got'[q] = got[q] /\ spent'[q] = spent[q]
        /\ pc'[p] # "store" /\ at'[p] = Page /\ answer'.lag = 0
    BY <1>5 DEF Fail, End, Said, TypeOK
  <2>2. IdleAtPage' /\ LinkIsCurrent' /\ PageOnItsWay' /\ FileAskedFor' /\ FileOnItsWay'
    BY <1>5, <1>n, <1>t, <2>1, CallMoves DEF Fail
  <2> QED BY <1>5, <1>c, <2>1, <2>2 DEF Fail, portal, LagInv, PageInCache, FileInCache,
             VersionLagBounded
<1>6. ASSUME NEW p \in Procs, Store(p) PROVE LagInv'
  <2>1. /\ Received(p, got[p]) /\ UNCHANGED portal /\ stock' = stock
        /\ pc[p] = "store"
        /\ http' = [http EXCEPT ![at[p]] = [doc |-> got[p], age |-> 0]]
        /\ at[p] \in Documents
    BY <1>6 DEF Store, portal, TypeOK
  <2>2. spent'[p] \in Nat
    BY <1>t, <1>c DEF TypeOK
  <2>3. at'[p] \in Files => stock[at'[p]].lag <= 1 + HttpTTL + MaxCall + spent'[p]
    <3>1. SUFFICES ASSUME at'[p] \in Files
          PROVE  stock[at'[p]].lag <= 1 + HttpTTL + MaxCall + spent'[p]
      OBVIOUS
    <3>2. at[p] = Page /\ at'[p] = got[p].file /\ spent'[p] = spent[p]
      BY <1>n, <2>1, <3>1, ReceivedShape
    <3>3. stock[at'[p]].lag <= 1 + spent[p]
      BY <2>1, <3>1, <3>2 DEF LagInv, PageOnItsWay
    <3> QED BY <1>c, <1>n, <3>1, <3>2, <3>3
  <2>4. IdleAtPage' /\ LinkIsCurrent' /\ PageOnItsWay' /\ FileAskedFor' /\ FileOnItsWay'
    BY <1>n, <1>t, <2>1, <2>3, ReceivedShape, CallMoves
  <2>5. PageInCache'
    <3>1. CASE at[p] = Page
      <4>1. http'[Page].doc = got[p] /\ http'[Page].age = 0
        BY <1>n, <2>1, <3>1 DEF TypeOK
      <4> QED BY <1>c, <1>n, <2>1, <3>1, <4>1 DEF LagInv, PageOnItsWay, PageInCache
    <3>2. CASE at[p] # Page
      BY <1>n, <2>1, <3>2 DEF LagInv, PageInCache, TypeOK
    <3> QED BY <3>1, <3>2
  <2>6. FileInCache'
    <3>1. SUFFICES ASSUME NEW f \in Files
          PROVE  http'[f].doc.lag <= 1 + HttpTTL + 2 * MaxCall + http'[f].age
      BY DEF FileInCache
    <3>2. CASE at[p] = f
      <4>1. http'[f].doc = got[p] /\ http'[f].age = 0
        BY <1>n, <2>1, <3>2 DEF TypeOK
      <4> QED BY <1>c, <1>n, <2>1, <3>2, <4>1 DEF LagInv, FileOnItsWay
    <3>3. CASE at[p] # f
      <4>1. http'[f] = http[f]
        BY <1>n, <2>1, <3>3 DEF TypeOK
      <4> QED BY <4>1 DEF LagInv, FileInCache
    <3> QED BY <3>2, <3>3
  <2>7. VersionLagBounded'
    <3>1. answer'.lag = 0 \/ (at[p] \in Files /\ answer'.lag = got[p].lag)
      BY <1>n, <2>1, ReceivedShape
    <3> QED BY <1>c, <1>n, <2>1, <3>1 DEF LagInv, FileOnItsWay, VersionLagBounded
  <2> QED BY <2>4, <2>5, <2>6, <2>7 DEF LagInv
<1>7. ASSUME NEW f \in Files, NEW kept \in BOOLEAN, Publish(f, kept) PROVE LagInv'
  <2>1. /\ link' = f /\ stock'[f].lag = 0
        /\ UNCHANGED <<pc, at, spent>> /\ answer'.lag = 0
    BY <1>7, Lags DEF Publish, NoAnswer, Said, TypeOK
  <2>2. \A g \in Files : stock'[g].lag = stock[g].lag \/ stock'[g].lag \in {0, 1}
    BY <1>7, <1>n, Lags DEF Publish
  <2>3. \A p \in Procs : /\ at[p] = Page => got'[p] = got[p]
                         /\ got'[p].lag = got[p].lag \/ got'[p].lag = 1
    BY <1>7, <1>n, Lags DEF Publish
  <2>4. /\ http'[Page] = http[Page]
        /\ \A g \in Files : /\ http'[g].age = http[g].age
                            /\ \/ http'[g].doc.lag = http[g].doc.lag
                               \/ http'[g].doc.lag = 1
    <3>1. http'[Page] = http[Page]
      BY <1>7, <1>n DEF Publish
    <3>2. ASSUME NEW g \in Files
          PROVE  /\ http'[g].age = http[g].age
                 /\ http'[g].doc = Replaced(http[g].doc)
      <4>1. http'[g] = [http[g] EXCEPT !.doc = Replaced(@)]
        BY <1>7, <1>n DEF Publish
      <4>2. http[g] \in Entry
        BY <1>n DEF TypeOK
      <4> QED BY <4>1, <4>2 DEF Entry
    <3> QED BY <1>n, <3>1, <3>2, Lags
  <2>5. IdleAtPage' /\ LinkIsCurrent'
    BY <2>1 DEF LagInv, IdleAtPage, LinkIsCurrent
  <2>6. PageOnItsWay' /\ FileOnItsWay'
    BY <1>c, <1>n, <2>1, <2>2, <2>3 DEF LagInv, PageOnItsWay, FileOnItsWay
  <2>7. PageInCache' /\ FileInCache'
    BY <1>c, <1>n, <2>2, <2>4 DEF LagInv, PageInCache, FileInCache
  <2>8. FileAskedFor'
    BY <1>c, <1>n, <2>1, <2>2 DEF LagInv, FileAskedFor
  <2> QED BY <1>c, <2>1, <2>5, <2>6, <2>7, <2>8 DEF LagInv, VersionLagBounded
<1>8. ASSUME NEW f \in Files \cup {NoFile}, Relink(f) PROVE LagInv'
  <2>1. f \in Files => stock[f].lag = 0
    BY <1>8, <1>n, TablesAssumption, Lags DEF Relink
  <2> QED
    BY <1>8, <1>c, <2>1 DEF Relink, NoAnswer, Said, LagInv, IdleAtPage, LinkIsCurrent,
       PageOnItsWay, PageInCache, FileAskedFor, FileOnItsWay, FileInCache, VersionLagBounded
<1>9. CASE UNCHANGED vars
  BY <1>9 DEF vars, portal, LagInv, IdleAtPage, LinkIsCurrent, PageOnItsWay, PageInCache,
     FileAskedFor, FileOnItsWay, FileInCache, VersionLagBounded
<1> QED
  BY <1>1, <1>2, <1>3, <1>4, <1>5, <1>6, <1>7, <1>8, <1>9 DEF Next, GoOn

(* accessed_at (download_adapter.py:66) is off by a bounded time: the        *)
(* version in a table was replaced at most 2 * HttpTTL + 2 * MaxCall before. *)
THEOREM VersionLagHolds == Spec => []VersionLagBounded
<1>1. TypeOK /\ LagInv /\ [Next]_vars => TypeOK' /\ LagInv'
  BY TypeStep, LagStep
<1>2. LagInv => VersionLagBounded
  BY DEF LagInv
<1> QED BY TypeInit, LagInit, <1>1, <1>2, PTL DEF Spec
==============================================================================
