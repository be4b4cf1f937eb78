-------------------------- MODULE ServiceCatalogProofs --------------------------
(***************************************************************************)
(* Lemmas about ServiceCatalog, for any directory, ids and edits: its      *)
(* types, and what a load that nobody disturbs makes of the directory.     *)
(* They are put together in AgentChatProofs, for the server in its use.    *)
(***************************************************************************)
EXTENDS ServiceCatalog, FiniteSetTheorems, TLAPS

CatalogStep ==
  \/ ServerStep \/ Replied \/ Restart
  \/ \E what \in Calls : Call(what)
  \/ \E n \in Names : EditFile(n)
  \/ UNCHANGED catalogVars

--------------------------------------------------------------------------------
LEMMA CatalogTypeInit == CatalogInit => CatalogTypeOK
<1> SUFFICES ASSUME CatalogInit PROVE CatalogTypeOK
  OBVIOUS
<1>1. 0 \in 0..MaxEdits /\ (CHOOSE i \in Ids : TRUE) \in Ids
  BY CatalogFilesAssumption
<1>2. File("absent") \in Contents
  BY <1>1 DEF File, Contents, Services, NotAService
<1>3. \A i \in Ids : Holding([id |-> i, version |-> 0]) \in Contents
  BY <1>1 DEF Holding, Contents, Services
<1>4. disk \in [Names -> Contents]
  BY <1>2, <1>3 DEF CatalogInit
<1>5. <<>> \in Seq(Services)
  OBVIOUS
<1> QED BY <1>1, <1>4, <1>5 DEF CatalogInit, CatalogTypeOK, Calls, Replies

LEMMA PutType ==
  ASSUME NEW s \in Services, NEW services \in Seq(Services)
  PROVE  Put(s, services) \in Seq(Services)
<1>1. CASE \E k \in DOMAIN services : services[k].id = s.id
  <2>1. Put(s, services) = [k \in 1..Len(services) |->
                              IF services[k].id = s.id THEN s ELSE services[k]]
    BY <1>1 DEF Put
  <2>2. \A k \in 1..Len(services) : services[k] \in Services
    OBVIOUS
  <2> QED BY <2>1, <2>2
<1>2. CASE ~\E k \in DOMAIN services : services[k].id = s.id
  BY <1>2 DEF Put
<1> QED BY <1>1, <1>2

LEMMA CatalogTypeStep == CatalogTypeOK /\ CatalogStep => CatalogTypeOK'
<1> SUFFICES ASSUME CatalogTypeOK, CatalogStep PROVE CatalogTypeOK'
  OBVIOUS
<1> USE DEF CatalogTypeOK
<1>0. <<>> \in Seq(Services) /\ {} \subseteq Names
  OBVIOUS
<1>1. CASE UNCHANGED catalogVars
  BY <1>1 DEF catalogVars, server
<1>2. ASSUME NEW what \in Calls, Call(what) PROVE CatalogTypeOK'
  BY <1>2 DEF Call
<1>3. CASE ListFiles
  BY <1>3 DEF ListFiles
<1>4. ASSUME NEW n \in Names, ReadFile(n) PROVE CatalogTypeOK'
  <2>1. disk[n].service \in Services
    BY DEF Contents
  <2>2. draft' \in Seq(Services) /\ todo' \subseteq Names
    BY <1>4, <2>1, PutType DEF ReadFile
  <2> QED BY <1>4, <2>2 DEF ReadFile
<1>5. ASSUME NEW n \in Names, LoadFails(n) PROVE CatalogTypeOK'
  BY <1>0, <1>5 DEF LoadFails, GivenUp, Dropped, Replies
<1>6. CASE Loaded
  BY <1>0, <1>6 DEF Loaded
<1>7. CASE Handle
  <2>1. reply' \in Replies
    BY <1>7 DEF Handle, Lookup, Replies
  <2>2. \A k \in DOMAIN repo : repo[k].id \in Ids
    <3>1. \A k \in DOMAIN repo : repo[k] \in Services
      OBVIOUS
    <3> QED BY <3>1 DEF Services
  <2>3. listed' \subseteq Ids
    BY <1>7, <2>2 DEF Handle
  <2> QED BY <1>7, <2>1, <2>3 DEF Handle
<1>8. CASE Replied
  BY <1>8 DEF Replied, Replies, Calls
<1>9. ASSUME NEW n \in Names, EditFile(n) PROVE CatalogTypeOK'
  <2>1. edits + 1 \in 0..MaxEdits /\ 0 \in 0..MaxEdits /\ (CHOOSE i \in Ids : TRUE) \in Ids
    BY <1>9, CatalogFilesAssumption DEF EditFile
  <2>2. \A kind \in NotAService : File(kind) \in Contents
    BY <2>1 DEF File, Contents, Services
  <2>3. \A i \in Ids : Holding([id |-> i, version |-> edits + 1]) \in Contents
    BY <2>1 DEF Holding, Contents, Services
  <2>4. PICK f \in {File(kind) : kind \in NotAService} \cup
                  {Holding([id |-> i, version |-> edits + 1]) : i \in Ids} :
          disk' = [disk EXCEPT ![n] = f]
    BY <1>9 DEF EditFile
  <2>5. f \in Contents
    BY <2>2, <2>3
  <2>6. disk' \in [Names -> Contents]
    BY <2>4, <2>5
  <2> QED BY <1>9, <2>1, <2>6 DEF EditFile, KeepLoaded
<1>10. CASE Restart
  BY <1>0, <1>10 DEF Restart
<1> QED
  BY <1>1, <1>2, <1>3, <1>4, <1>5, <1>6, <1>7, <1>8, <1>9, <1>10 DEF CatalogStep, ServerStep

--------------------------------------------------------------------------------
(* What the names of a set stand for.  Holders: those that hold a service i. *)
(* Gathered: the services are those of names, each with its last file's      *)
(* content, in the order of the first files.                                 *)
Holders(files, i, names) ==
  {n \in names : files[n].kind = "service" /\ files[n].service.id = i}
Held(files, names) == {i \in Ids : Holders(files, i, names) # {}}

EachIsTheLast(files, names, services) == \A k \in DOMAIN services :
  \E a, b \in Holders(files, services[k].id, names) :
    /\ files[b].service = services[k]
    /\ \A m \in Holders(files, services[k].id, names) : a <= m /\ m <= b
InOrder(files, names, services) == \A j, k \in DOMAIN services : j < k =>
  \E a \in Holders(files, services[j].id, names) :
    \A m \in Holders(files, services[k].id, names) : a < m
AllAreThere(files, names, services) ==
  /\ \A i \in Held(files, names) : \E k \in DOMAIN services : services[k].id = i
  /\ IsFiniteSet(Held(files, names)) /\ Cardinality(Held(files, names)) = Len(services)
Gathered(files, names, services) ==
  /\ EachIsTheLast(files, names, services)
  /\ InOrder(files, names, services)
  /\ AllAreThere(files, names, services)

LEMMA NoneGathered == \A files : Gathered(files, {}, <<>>)
<1> TAKE files
<1>1. Held(files, {}) = {}
  BY DEF Held, Holders
<1> QED BY <1>1, FS_EmptySet DEF Gathered, EachIsTheLast, InOrder, AllAreThere

(* One more file, after all those before it: its service takes the place of  *)
(* the one with its id, or comes last.                                       *)
LEMMA OneMoreGathered ==
  ASSUME NEW files \in [Names -> Contents], NEW names \in SUBSET Names, NEW n \in Names,
         files[n].kind = "service", \A m \in names : m < n,
         NEW services \in Seq(Services), Gathered(files, names, services)
  PROVE  Gathered(files, names \cup {n}, Put(files[n].service, services))
<1> DEFINE s == files[n].service
           more == names \cup {n}
           put == Put(s, services)
<1>0. /\ s \in Services /\ s.id \in Ids /\ n \in Nat /\ n \notin names
      /\ \A m \in names : m \in Nat /\ m < n
      /\ \A k \in DOMAIN services : services[k] \in Services /\ services[k].id \in Ids
      /\ DOMAIN services = 1..Len(services) /\ Len(services) \in Nat
  <2>1. s \in Services
    BY DEF Contents
  <2>2. \A k \in DOMAIN services : services[k] \in Services
    OBVIOUS
  <2>3. \A x \in Services : x.id \in Ids
    BY DEF Services
  <2>4. n \in Nat /\ \A m \in names : m \in Nat /\ m < n
    BY CatalogFilesAssumption DEF Names
  <2>5. n \notin names
    BY <2>4
  <2>6. DOMAIN services = 1..Len(services) /\ Len(services) \in Nat
    OBVIOUS
  <2> QED BY <2>1, <2>2, <2>3, <2>4, <2>5, <2>6
<1>1. Holders(files, s.id, more) = Holders(files, s.id, names) \cup {n}
  BY DEF Holders
<1>2. \A i : i # s.id => Holders(files, i, more) = Holders(files, i, names)
  BY DEF Holders
<1>3. Held(files, more) = Held(files, names) \cup {s.id}
  <2>1. s.id \in Held(files, more)
    BY <1>0, <1>1 DEF Held
  <2>2. \A i \in Ids : i # s.id => (i \in Held(files, more) <=> i \in Held(files, names))
    BY <1>2 DEF Held
  <2> QED BY <1>0, <2>1, <2>2 DEF Held
<1>4. IsFiniteSet(Held(files, more)) /\
      Cardinality(Held(files, more)) =
        IF s.id \in Held(files, names) THEN Len(services) ELSE Len(services) + 1
  <2>1. IsFiniteSet(Held(files, names)) /\ Cardinality(Held(files, names)) = Len(services)
    BY DEF Gathered, AllAreThere
  <2> DEFINE held == Held(files, names)
  <2> HIDE DEF s, more, put, held
  <2>2. \A x : /\ IsFiniteSet(held \cup {x})
               /\ Cardinality(held \cup {x}) =
                    IF x \in held THEN Cardinality(held) ELSE Cardinality(held) + 1
    BY <2>1, FS_AddElement DEF held
  <2> QED BY <1>3, <2>1, <2>2 DEF held
<1>5. \A i : Holders(files, i, names) \subseteq names
  BY DEF Holders
<1>6. \A k \in DOMAIN services : services[k].id \in Held(files, names)
  BY <1>0 DEF Gathered, EachIsTheLast, Held
<1>7. CASE \E k \in DOMAIN services : services[k].id = s.id
  <2>1. /\ put = [k \in 1..Len(services) |-> IF services[k].id = s.id THEN s ELSE services[k]]
        /\ DOMAIN put = DOMAIN services /\ Len(put) = Len(services)
    <3>1. put = [k \in DOMAIN services |-> IF services[k].id = s.id THEN s ELSE services[k]]
      BY <1>7 DEF Put
    <3> HIDE DEF s, put
    <3>2. DOMAIN put = 1..Len(services)
      BY <1>0, <3>1
    <3> QED BY <1>0, <3>1, <3>2
  <2>2. \A k \in DOMAIN services :
          /\ put[k] = IF services[k].id = s.id THEN s ELSE services[k]
          /\ put[k].id = services[k].id
    BY <1>0, <2>1
  <2> HIDE DEF s, more, put
  <2>3. ASSUME NEW k \in DOMAIN put
        PROVE  \E a, b \in Holders(files, put[k].id, more) :
                 /\ files[b].service = put[k]
                 /\ \A m \in Holders(files, put[k].id, more) : a <= m /\ m <= b
    <3>1. PICK a, b \in Holders(files, services[k].id, names) :
            /\ files[b].service = services[k]
            /\ \A m \in Holders(files, services[k].id, names) : a <= m /\ m <= b
      BY <2>1 DEF Gathered, EachIsTheLast
    <3>2. CASE services[k].id = s.id
      <4>1. put[k] = s /\ put[k].id = s.id
        BY <2>1, <2>2, <3>2
      <4>2. /\ a \in Holders(files, s.id, more) /\ n \in Holders(files, s.id, more)
            /\ \A m \in Holders(files, s.id, more) : a <= m /\ m <= n
        <5>1. a \in names /\ a < n /\ a \in Nat
          BY <1>0, <1>5
        <5>2. \A m \in Holders(files, s.id, names) : a <= m /\ m <= n
          <6>1. Holders(files, s.id, names) \subseteq names
            BY <1>5
          <6>2. \A m \in Holders(files, s.id, names) : a <= m
            BY <3>1, <3>2
          <6>3. \A m \in names : m <= n
            BY <1>0
          <6> QED BY <6>1, <6>2, <6>3
        <5>3. a \in Holders(files, s.id, names)
          BY <3>2
        <5> QED BY <1>0, <1>1, <5>1, <5>2, <5>3
      <4>3. files[n].service = s
        BY DEF s
      <4> QED BY <4>1, <4>2, <4>3
    <3>3. CASE services[k].id # s.id
      <4>1. put[k] = services[k]
            /\ Holders(files, put[k].id, more) = Holders(files, services[k].id, names)
        BY <1>2, <2>1, <2>2, <3>3
      <4> QED BY <3>1, <4>1
    <3> QED BY <3>2, <3>3
  <2>4. ASSUME NEW j \in DOMAIN put, NEW k \in DOMAIN put, j < k
        PROVE  \E a \in Holders(files, put[j].id, more) :
                 \A m \in Holders(files, put[k].id, more) : a < m
    <3>1. PICK a \in Holders(files, services[j].id, names) :
            \A m \in Holders(files, services[k].id, names) : a < m
      BY <2>1, <2>4 DEF Gathered, InOrder
    <3>2. a \in names /\ a < n /\ a \in Holders(files, put[j].id, more)
      BY <1>0, <1>1, <1>2, <1>5, <2>1, <2>2, <3>1
    <3>3. \A m \in Holders(files, put[k].id, more) : a < m
      BY <1>1, <1>2, <2>1, <2>2, <3>1, <3>2
    <3> QED BY <3>2, <3>3
  <2>5. AllAreThere(files, more, put)
    <3>1. s.id \in Held(files, names)
      BY <1>6, <1>7
    <3>2. \A i \in Held(files, names) : \E k \in DOMAIN put : put[k].id = i
      BY <2>1, <2>2 DEF Gathered, AllAreThere
    <3> QED BY <1>3, <1>4, <2>1, <3>1, <3>2 DEF AllAreThere
  <2> QED BY <2>3, <2>4, <2>5 DEF Gathered, EachIsTheLast, InOrder, more, put, s
<1>8. CASE ~\E k \in DOMAIN services : services[k].id = s.id
  <2>1. /\ put = Append(services, s) /\ Len(put) = Len(services) + 1
        /\ DOMAIN put = DOMAIN services \cup {Len(services) + 1}
    BY <1>0, <1>8 DEF Put
  <2>2. /\ \A k \in DOMAIN services : put[k] = services[k] /\ k < Len(services) + 1
        /\ put[Len(services) + 1] = s
    BY <1>0, <2>1
  <2>3. s.id \notin Held(files, names) /\ Holders(files, s.id, names) = {}
    BY <1>0, <1>8 DEF Gathered, AllAreThere, Held
  <2> HIDE DEF s, more, put
  <2>4. ASSUME NEW k \in DOMAIN put
        PROVE  \E a, b \in Holders(files, put[k].id, more) :
                 /\ files[b].service = put[k]
                 /\ \A m \in Holders(files, put[k].id, more) : a <= m /\ m <= b
    <3>1. CASE k \in DOMAIN services
      <4>1. PICK a, b \in Holders(files, services[k].id, names) :
              /\ files[b].service = services[k]
              /\ \A m \in Holders(files, services[k].id, names) : a <= m /\ m <= b
        BY <3>1 DEF Gathered, EachIsTheLast
      <4>2. services[k].id # s.id
        BY <1>8, <3>1
      <4>3. Holders(files, put[k].id, more) = Holders(files, services[k].id, names)
        BY <1>2, <2>2, <3>1, <4>2
      <4> QED BY <2>2, <3>1, <4>1, <4>3
    <3>2. CASE k = Len(services) + 1
      <4>1. Holders(files, put[k].id, more) = {n} /\ files[n].service = put[k]
        <5>1. files[n].service = s
          BY DEF s
        <5> QED BY <1>1, <2>2, <2>3, <3>2, <5>1
      <4> QED BY <1>0, <4>1
    <3> QED BY <2>1, <3>1, <3>2
  <2>5. ASSUME NEW j \in DOMAIN put, NEW k \in DOMAIN put, j < k
        PROVE  \E a \in Holders(files, put[j].id, more) :
                 \A m \in Holders(files, put[k].id, more) : a < m
    <3>1. j \in DOMAIN services /\ put[j] = services[j] /\ services[j].id # s.id
      BY <1>0, <1>8, <2>1, <2>2, <2>5
    <3>2. Holders(files, put[j].id, more) = Holders(files, services[j].id, names)
      BY <1>2, <3>1
    <3>3. CASE k \in DOMAIN services
      <4>1. PICK a \in Holders(files, services[j].id, names) :
              \A m \in Holders(files, services[k].id, names) : a < m
        BY <2>5, <3>1, <3>3 DEF Gathered, InOrder
      <4>2. services[k].id # s.id /\ put[k] = services[k]
        BY <1>8, <2>2, <3>3
      <4>3. Holders(files, put[k].id, more) = Holders(files, services[k].id, names)
        BY <1>2, <4>2
      <4> QED BY <3>2, <4>1, <4>3
    <3>4. CASE k = Len(services) + 1
      <4>1. PICK a \in Holders(files, services[j].id, names) : TRUE
        BY <3>1 DEF Gathered, EachIsTheLast
      <4>2. Holders(files, put[k].id, more) = {n} /\ a < n
        BY <1>0, <1>1, <1>5, <2>2, <2>3, <3>4, <4>1
      <4> QED BY <3>2, <4>1, <4>2
    <3> QED BY <2>1, <3>3, <3>4
  <2>6. AllAreThere(files, more, put)
    <3>1. \A i \in Held(files, names) : \E k \in DOMAIN put : put[k].id = i
      BY <2>1, <2>2 DEF Gathered, AllAreThere
    <3>2. \E k \in DOMAIN put : put[k].id = s.id
      BY <2>1, <2>2
    <3> QED BY <1>3, <1>4, <2>1, <2>3, <3>1, <3>2 DEF AllAreThere
  <2> QED BY <2>4, <2>5, <2>6 DEF Gathered, EachIsTheLast, InOrder, more, put, s
<1> QED BY <1>7, <1>8

LEMMA FirstAndLast ==
  ASSUME NEW S \in SUBSET Nat, NEW a \in S, NEW b \in S, \A m \in S : a <= m /\ m <= b
  PROVE  First(S) = a /\ Last(S) = b
<1>1. \A n \in S : (\A m \in S : n <= m) => n = a
  OBVIOUS
<1>2. \A n \in S : (\A m \in S : m <= n) => n = b
  OBVIOUS
<1>3. First(S) = a
  BY <1>1 DEF First
<1>4. Last(S) = b
  BY <1>2 DEF Last
<1> QED BY <1>3, <1>4

Present(files) == {n \in Names : files[n].kind # "absent"}

\* What was gathered from all the names there are is the directory.
LEMMA GatheredIsTheDirectory ==
  ASSUME CatalogTypeOK, NEW services \in Seq(Services),
         Gathered(disk, Present(disk), services)
  PROVE  IsTheDirectory(services)
<1> DEFINE present == {i \in Ids : FilesOf(i) # {}}
<1>1. \A i : Holders(disk, i, Present(disk)) = FilesOf(i)
  BY DEF Holders, Present, FilesOf
<1>2. Held(disk, Present(disk)) = present
  BY <1>1 DEF Held
<1>3. \A i : FilesOf(i) \in SUBSET Nat
  BY CatalogFilesAssumption DEF FilesOf, Names
<1>4. \A k \in DOMAIN services : services[k].id \in Ids
  <2>1. \A k \in DOMAIN services : services[k] \in Services
    OBVIOUS
  <2> QED BY <2>1 DEF Services
<1> HIDE DEF present
<1>5. ASSUME NEW k \in DOMAIN services
      PROVE  /\ services[k].id \in present
             /\ disk[Last(FilesOf(services[k].id))].service = services[k]
             /\ First(FilesOf(services[k].id)) \in FilesOf(services[k].id)
             /\ \A m \in FilesOf(services[k].id) : First(FilesOf(services[k].id)) <= m
  <2>1. PICK a, b \in FilesOf(services[k].id) :
          /\ disk[b].service = services[k]
          /\ \A m \in FilesOf(services[k].id) : a <= m /\ m <= b
    BY <1>1 DEF Gathered, EachIsTheLast
  <2>2. First(FilesOf(services[k].id)) = a /\ Last(FilesOf(services[k].id)) = b
    <3> DEFINE S == FilesOf(services[k].id)
    <3>1. S \in SUBSET Nat /\ a \in S /\ b \in S /\ \A m \in S : a <= m /\ m <= b
      BY <1>3, <2>1
    <3> HIDE DEF S
    <3>2. First(S) = a /\ Last(S) = b
      BY <3>1, FirstAndLast
    <3> QED BY <3>2 DEF S
  <2>3. services[k].id \in present
    BY <1>4 DEF present
  <2> QED BY <2>1, <2>2, <2>3
<1>6. {services[k] : k \in DOMAIN services} = {disk[Last(FilesOf(i))].service : i \in present}
  <2>1. \A i \in present : \E k \in DOMAIN services : services[k].id = i
    BY <1>2 DEF Gathered, AllAreThere
  <2>2. ASSUME NEW i \in present
        PROVE  \E k \in DOMAIN services : disk[Last(FilesOf(i))].service = services[k]
    BY <1>5, <2>1
  <2>3. ASSUME NEW k \in DOMAIN services
        PROVE  \E i \in present : disk[Last(FilesOf(i))].service = services[k]
    BY <1>5
  <2> QED BY <2>2, <2>3
<1>7. Len(services) = Cardinality(present)
  BY <1>2 DEF Gathered, AllAreThere
<1>8. ASSUME NEW j \in DOMAIN services, NEW k \in DOMAIN services, j < k
      PROVE  First(FilesOf(services[j].id)) < First(FilesOf(services[k].id))
  <2>1. PICK a \in FilesOf(services[j].id) : \A m \in FilesOf(services[k].id) : a < m
    <3>1. PICK a \in Holders(disk, services[j].id, Present(disk)) :
            \A m \in Holders(disk, services[k].id, Present(disk)) : a < m
      BY <1>8 DEF Gathered, InOrder
    <3>2. a \in FilesOf(services[j].id) /\ \A m \in FilesOf(services[k].id) : a < m
      BY <1>1, <3>1
    <3> QED BY <3>2
  <2>2. First(FilesOf(services[j].id)) <= a /\ a < First(FilesOf(services[k].id))
    BY <1>5, <2>1
  <2>3. a \in Nat /\ First(FilesOf(services[j].id)) \in Nat /\ First(FilesOf(services[k].id)) \in Nat
    BY <1>3, <1>5
  <2> QED BY <2>2, <2>3
<1> QED BY <1>6, <1>7, <1>8 DEF IsTheDirectory, present

--------------------------------------------------------------------------------
(* A load that nobody disturbs has gathered the names it has opened, all of  *)
(* them before those it still has to open; what it leaves is the directory.  *)
LoadInv ==
  /\ pc # "read" => draft = <<>>
  /\ pc \in {"list", "read"} => ~loaded
  /\ pc = "read" /\ steady =>
       /\ todo \subseteq Present(disk)
       /\ \A n \in Present(disk) \ todo, m \in todo : n < m
       /\ Gathered(disk, Present(disk) \ todo, draft)
  /\ loaded /\ steady => Gathered(disk, Present(disk), repo)

LEMMA LoadInit == CatalogInit => LoadInv
BY DEF CatalogInit, LoadInv

LEMMA LoadStep == CatalogTypeOK /\ LoadInv /\ CatalogStep => LoadInv'
<1> SUFFICES ASSUME CatalogTypeOK, LoadInv, CatalogStep PROVE LoadInv'
  OBVIOUS
<1> USE DEF LoadInv
<1>1. CASE UNCHANGED catalogVars
  BY <1>1 DEF catalogVars, server
<1>2. ASSUME NEW what \in Calls, Call(what) PROVE LoadInv'
  BY <1>2 DEF Call
<1>3. CASE ListFiles
  <2>1. /\ pc = "list" /\ pc' = "read" /\ todo' = Present(disk)
        /\ UNCHANGED <<disk, draft, loaded, repo>> /\ ~loaded /\ draft = <<>>
    BY <1>3 DEF ListFiles, Present
  <2>2. Present(disk') \ todo' = {} /\ todo' = Present(disk')
    BY <2>1
  <2>3. Gathered(disk', Present(disk') \ todo', draft')
    BY <2>1, <2>2, NoneGathered
  <2> QED BY <2>1, <2>2, <2>3
<1>4. ASSUME NEW n \in Names, ReadFile(n) PROVE LoadInv'
  <2>1. /\ pc = "read" /\ n \in todo /\ disk[n].kind = "service"
        /\ draft' = Put(disk[n].service, draft) /\ todo' = todo \ {n}
        /\ \A m \in todo : n <= m
        /\ UNCHANGED <<disk, pc, loaded, repo, steady>>
    BY <1>4 DEF ReadFile, Due, Parsed
  <2>2. ASSUME steady
        PROVE  /\ todo' \subseteq Present(disk)
               /\ \A k \in Present(disk) \ todo', m \in todo' : k < m
               /\ Gathered(disk, Present(disk) \ todo', draft')
    <3> DEFINE opened == Present(disk) \ todo
    <3>1. /\ todo \subseteq Present(disk) /\ \A k \in opened, m \in todo : k < m
          /\ Gathered(disk, opened, draft)
      BY <2>1, <2>2
    <3>2. Present(disk) \ todo' = opened \cup {n}
      BY <2>1, <3>1
    <3>3. opened \in SUBSET Names /\ disk \in [Names -> Contents] /\ draft \in Seq(Services)
      BY DEF Present, CatalogTypeOK
    <3>4. \A m \in todo' : m \in Nat /\ n \in Nat /\ n < m
      BY <2>1, CatalogFilesAssumption DEF CatalogTypeOK, Names
    <3>5. \A k \in opened : k < n
      BY <2>1, <3>1
    <3> HIDE DEF opened
    <3>6. Gathered(disk, opened \cup {n}, draft')
      BY <2>1, <3>1, <3>3, <3>5, OneMoreGathered
    <3>7. \A k \in opened \cup {n}, m \in todo' : k < m
      BY <2>1, <3>1, <3>4
    <3> QED BY <2>1, <3>1, <3>2, <3>6, <3>7
  <2> QED BY <2>1, <2>2
<1>5. ASSUME NEW n \in Names, LoadFails(n) PROVE LoadInv'
  BY <1>5 DEF LoadFails, Due, GivenUp, Dropped
<1>6. CASE Loaded
  <2>1. Present(disk) \ {} = Present(disk)
    OBVIOUS
  <2> QED BY <1>6, <2>1 DEF Loaded
<1>7. CASE Handle
  BY <1>7 DEF Handle
<1>8. CASE Replied
  BY <1>8 DEF Replied
<1>9. ASSUME NEW n \in Names, EditFile(n) PROVE LoadInv'
  BY <1>9 DEF EditFile, KeepLoaded
<1>10. CASE Restart
  BY <1>10 DEF Restart
<1> QED
  BY <1>1, <1>2, <1>3, <1>4, <1>5, <1>6, <1>7, <1>8, <1>9, <1>10 DEF CatalogStep, ServerStep

LEMMA LoadInvIsEnough == CatalogTypeOK /\ LoadInv => LoadedIsTheDirectory
BY GatheredIsTheDirectory DEF CatalogTypeOK, LoadInv, LoadedIsTheDirectory
================================================================================
