---------------------------- MODULE AgentChatProofs ----------------------------
(***************************************************************************)
(* Theorems about AgentChat, for any catalog directory, ids and edits: its *)
(* types, what a services process loads and goes on knowing, and that an   *)
(* answer of the agent reports the calls of its own turn.                  *)
(***************************************************************************)
EXTENDS AgentChat, ServiceCatalogProofs

(* A process has listed nothing before its load is over, and a load runs     *)
(* only in a process that has none: the services it holds are not replaced   *)
(* once an id of theirs has been returned.                                   *)
LoadedOnce ==
  /\ pc \in {"list", "read"} => ~loaded
  /\ pc = "handle" => loaded
  /\ ~loaded => listed = {}
ListedAreHeld == \A i \in listed : \E k \in DOMAIN repo : repo[k].id = i
UnknownWasMissed == reply = "unknown" => pc = "replied" /\ ~Found(asked)
ListedInv == LoadedOnce /\ ListedAreHeld /\ UnknownWasMissed

(* What the agent plans, executes and collects within a turn.                *)
CallsTyped ==
  /\ planned \in Seq(AgentTools) /\ plan \in Seq(AgentTools)
  /\ results \in Seq(AgentTools)
ResultsReturned == results = done
NothingBefore == turn \in {"off", "prompt"} => results = <<>>
InTurn ==
  /\ turn \in {"execute", "wait"} => planned = results \o plan
  /\ turn = "wait" => plan # <<>>
AnswerOfTurn ==
  IF turn = "answer"
  THEN /\ planned = results /\ answer.parts = results
       /\ answer.kind = IF results = <<>> THEN "apology" ELSE "results"
  ELSE answer = NoAnswer
TurnInv == CallsTyped /\ ResultsReturned /\ NothingBefore /\ InTurn /\ AnswerOfTurn

--------------------------------------------------------------------------------
LEMMA ListedStep == ListedInv /\ [Next]_vars => ListedInv'
<1> SUFFICES ASSUME ListedInv, [Next]_vars PROVE ListedInv'
  OBVIOUS
<1> USE DEF ListedInv, LoadedOnce, ListedAreHeld, UnknownWasMissed
<1>1. ASSUME UNCHANGED catalogVars PROVE ListedInv'
  BY <1>1 DEF catalogVars, server, Found
<1>2. ASSUME NEW what, Call(what) PROVE ListedInv'
  BY <1>2 DEF Call
<1>3. ASSUME ListFiles PROVE ListedInv'
  BY <1>3 DEF ListFiles
<1>4. ASSUME NEW n \in Names, ReadFile(n) PROVE ListedInv'
  BY <1>4 DEF ReadFile, Due
<1>5. ASSUME NEW n \in Names, LoadFails(n) PROVE ListedInv'
  BY <1>5 DEF LoadFails, Due, GivenUp
<1>6. ASSUME Loaded PROVE ListedInv'
  BY <1>6 DEF Loaded
<1>7. ASSUME Handle PROVE ListedInv'
  <2>1. /\ pc = "handle" /\ pc' = "replied" /\ loaded
        /\ UNCHANGED <<loaded, repo, asked>>
        /\ reply' = "raised" \/ reply' = Lookup(asked)
    BY <1>7 DEF Handle
  <2>2. listed' = {repo[k].id : k \in DOMAIN repo} \/ listed' = listed
    BY <1>7 DEF Handle
  <2>3. ListedAreHeld'
    BY <2>1, <2>2
  <2>4. UnknownWasMissed'
    BY <2>1 DEF Lookup, Found
  <2> QED BY <2>1, <2>3, <2>4
<1>8. ASSUME Replied PROVE ListedInv'
  BY <1>8 DEF Replied
<1>9. ASSUME NEW n \in Names, EditFile(n) PROVE ListedInv'
  BY <1>9 DEF EditFile, KeepLoaded, Found
<1>10. ASSUME Restart PROVE ListedInv'
  BY <1>10 DEF Restart
<1> QED
  <2> HIDE DEF ListedInv
  <2>1. CASE User \/ SearchDatasets \/ Answer \/ UNCHANGED vars
    BY <1>1, <2>1 DEF User, SearchDatasets, Answer, vars
  <2>2. CASE ListServices \/ OtherCall
    BY <1>2, <2>2 DEF ListServices, OtherCall
  <2>3. CASE ServicesListed \/ OtherReplied
    BY <1>8, <2>3 DEF ServicesListed, OtherReplied
  <2>4. CASE Server
    BY <1>3, <1>4, <1>5, <1>6, <1>7, <2>4 DEF Server, ServerStep
  <2>5. CASE Surroundings
    BY <1>9, <1>10, <2>5 DEF Surroundings
  <2> QED BY <2>1, <2>2, <2>3, <2>4, <2>5 DEF Next

(* What a process of the services server has listed it goes on knowing, for  *)
(* any number of files, edits, failed loads and callers: no later call to it *)
(* for such an id ends in KeyError (_build_dependencies, server.py:23).      *)
THEOREM KnownOnceListed == Spec => []ListedStaysKnown
<1>1. Init => ListedInv
  BY DEF Init, CatalogInit, ListedInv, LoadedOnce, ListedAreHeld, UnknownWasMissed
<1>2. ListedInv => ListedStaysKnown
  BY DEF ListedInv, ListedAreHeld, UnknownWasMissed, ListedStaysKnown, Found
<1> QED BY <1>1, <1>2, ListedStep, PTL DEF Spec

--------------------------------------------------------------------------------
LEMMA PlannedType == \A about, available : Planned(about, available) \in Seq(AgentTools)
<1> SUFFICES ASSUME NEW about, NEW available PROVE Planned(about, available) \in Seq(AgentTools)
  OBVIOUS
<1>1. \A q, r \in Seq(AgentTools) : q \o r \in Seq(AgentTools)
  OBVIOUS
<1>2. \A t \in AgentTools : <<t>> \in Seq(AgentTools)
  OBVIOUS
<1>3. <<>> \in Seq(AgentTools)
  OBVIOUS
<1>4. "search_dataset" \in AgentTools /\ "list_services" \in AgentTools
  BY DEF AgentTools
<1> DEFINE q == IF "data" \in about /\ "search_dataset" \in available
                THEN <<"search_dataset">> ELSE <<>>
           r == IF "services" \in about /\ "list_services" \in available
                THEN <<"list_services">> ELSE <<>>
<1>5. q \in Seq(AgentTools) /\ r \in Seq(AgentTools)
  BY <1>2, <1>3, <1>4
<1>6. Planned(about, available) = q \o r
  BY DEF Planned
<1> HIDE DEF q, r
<1> QED BY <1>1, <1>5, <1>6

\* Executing the first call of a plan moves it from the plan to the results.
LEMMA MovedOver ==
  ASSUME NEW r \in Seq(AgentTools), NEW q \in Seq(AgentTools), q # <<>>
  PROVE  /\ Tail(q) \in Seq(AgentTools) /\ Append(r, Head(q)) \in Seq(AgentTools)
         /\ r \o q = Append(r, Head(q)) \o Tail(q)
<1>1. Head(q) \in AgentTools /\ Tail(q) \in Seq(AgentTools)
  OBVIOUS
<1>2. Append(r, Head(q)) \in Seq(AgentTools)
  BY <1>1
<1>3. r \o q = Append(r, Head(q)) \o Tail(q)
  OBVIOUS
<1> QED BY <1>1, <1>2, <1>3

LEMMA InvokedStep ==
  ASSUME TurnInv, turn \in {"execute", "wait"}, plan # <<>>, NEW ok, Invoked(ok)
  PROVE  TurnInv'
<1> USE DEF TurnInv, CallsTyped, ResultsReturned, NothingBefore, InTurn, AnswerOfTurn
<1>1. CASE ok
  <2>1. /\ turn' = "execute" /\ plan' = Tail(plan)
        /\ results' = Append(results, Head(plan)) /\ done' = Append(done, Head(plan))
        /\ UNCHANGED <<planned, answer>>
    BY <1>1 DEF Invoked
  <2>2. planned' = results' \o plan' /\ results' \in Seq(AgentTools) /\ plan' \in Seq(AgentTools)
    BY <2>1, MovedOver
  <2> QED BY <2>1, <2>2
<1>2. CASE ~ok
  BY <1>2 DEF Invoked, Die
<1> QED BY <1>1, <1>2

LEMMA TurnStep == TurnInv /\ [Next]_vars => TurnInv'
<1> SUFFICES ASSUME TurnInv, [Next]_vars PROVE TurnInv'
  OBVIOUS
<1> USE DEF TurnInv, CallsTyped, ResultsReturned, NothingBefore, InTurn, AnswerOfTurn
<1>1. ASSUME NEW available, StartChat(available) PROVE TurnInv'
  BY <1>1 DEF StartChat
<1>2. ASSUME NEW about, Input(about) PROVE TurnInv'
  <2>1. planned' \in Seq(AgentTools) /\ plan' = planned' /\ turn' = "execute" /\ results = <<>>
        /\ UNCHANGED <<results, answer, done>> /\ turn = "prompt"
    BY <1>2, PlannedType DEF Input
  <2>2. planned' = <<>> \o plan'
    BY <2>1
  <2> QED BY <2>1, <2>2
<1>3. ASSUME Leave PROVE TurnInv'
  BY <1>3 DEF Leave
<1>4. ASSUME SearchDatasets PROVE TurnInv'
  <2> PICK ok \in BOOLEAN : Invoked(ok)
    BY <1>4 DEF SearchDatasets
  <2> QED BY <1>4, InvokedStep DEF SearchDatasets
<1>5. ASSUME ListServices PROVE TurnInv'
  BY <1>5 DEF ListServices
<1>6. ASSUME ServicesListed PROVE TurnInv'
  BY <1>6, InvokedStep DEF ServicesListed
<1>7. ASSUME Synthesize PROVE TurnInv'
  <2>1. results \o plan = results
    BY <1>7 DEF Synthesize
  <2> QED BY <1>7, <2>1 DEF Synthesize
<1>8. ASSUME Show PROVE TurnInv'
  BY <1>8 DEF Show
<1>9. ASSUME UNCHANGED agent PROVE TurnInv'
  BY <1>9 DEF agent
<1> QED
  <2> HIDE DEF TurnInv
  <2>1. CASE User
    BY <1>1, <1>2, <1>3, <2>1 DEF User
  <2>2. CASE Answer
    BY <1>7, <1>8, <2>2 DEF Answer
  <2>3. CASE OtherCall \/ OtherReplied \/ Server \/ Surroundings \/ UNCHANGED vars
    BY <1>9, <2>3 DEF OtherCall, OtherReplied, Server, Surroundings, vars
  <2> QED BY <1>4, <1>5, <1>6, <2>1, <2>2, <2>3 DEF Next

(* An answer reports the calls of its own turn, all that the input called    *)
(* for and in that order, whatever failed in the turns before and whoever    *)
(* else calls the server meanwhile (executor.py:19, synthesizer.py:16).      *)
THEOREM AnswersItsInput == Spec => []AnswersTheInput
<1>1. Init => TurnInv
  BY DEF Init, TurnInv, CallsTyped, ResultsReturned, NothingBefore, InTurn, AnswerOfTurn
<1>2. TurnInv => AnswersTheInput
  BY DEF TurnInv, ResultsReturned, AnswerOfTurn, AnswersTheInput, NoAnswer
<1> QED BY <1>1, <1>2, TurnStep, PTL DEF Spec

--------------------------------------------------------------------------------
LEMMA StepOfCatalog == [Next]_vars => CatalogStep
<1>1. CASE User \/ SearchDatasets \/ Answer \/ UNCHANGED vars
  BY <1>1 DEF User, SearchDatasets, Answer, vars, CatalogStep
<1>2. CASE ListServices \/ OtherCall
  BY <1>2 DEF ListServices, OtherCall, CatalogStep, Calls
<1>3. CASE ServicesListed \/ OtherReplied
  BY <1>3 DEF ServicesListed, OtherReplied, CatalogStep
<1>4. CASE Server \/ Surroundings
  BY <1>4 DEF Server, Surroundings, CatalogStep
<1> QED BY <1>1, <1>2, <1>3, <1>4 DEF Next

\* The types TurnInv does not give.
AgentTyped ==
  /\ turn \in {"off", "prompt", "execute", "wait", "answer"}
  /\ tools \subseteq AgentTools
  /\ answer \in [kind : Answers, parts : Seq(AgentTools)]
  /\ died \in BOOLEAN

LEMMA NoAnswerType == NoAnswer \in [kind : Answers, parts : Seq(AgentTools)]
BY DEF NoAnswer, Answers

LEMMA AgentTypeStep == AgentTyped /\ TurnInv /\ [Next]_vars => AgentTyped'
<1> SUFFICES ASSUME AgentTyped, TurnInv, [Next]_vars PROVE AgentTyped'
  OBVIOUS
<1> USE DEF AgentTyped
<1>1. CASE User
  BY <1>1 DEF User, StartChat, Input, Leave
<1>2. ASSUME NEW ok, Invoked(ok) PROVE AgentTyped'
  BY <1>2 DEF Invoked, Die
<1>3. CASE ListServices
  BY <1>3 DEF ListServices
<1>4. CASE Synthesize
  <2>1. answer' \in [kind : Answers, parts : Seq(AgentTools)]
    BY <1>4 DEF Synthesize, TurnInv, CallsTyped, Answers
  <2> QED BY <1>4, <2>1 DEF Synthesize
<1>5. CASE Show
  BY <1>5, NoAnswerType DEF Show
<1>6. CASE UNCHANGED agent
  BY <1>6 DEF agent
<1>7. CASE SearchDatasets \/ ServicesListed
  BY <1>2, <1>7 DEF SearchDatasets, ServicesListed
<1> QED
  BY <1>1, <1>3, <1>4, <1>5, <1>6, <1>7 DEF Next, Answer, OtherCall, OtherReplied, Server,
     Surroundings, vars

(* Every variable of the services server and of the agent keeps its type,    *)
(* whatever is in the directory and whatever the users and clients do.       *)
THEOREM TypeCorrect == Spec => []TypeOK
<1>1. Init => CatalogTypeOK /\ TurnInv
  BY CatalogTypeInit
     DEF Init, TurnInv, CallsTyped, ResultsReturned, NothingBefore, InTurn, AnswerOfTurn
<1>2. Init => AgentTyped
  BY NoAnswerType DEF Init, AgentTyped
<1>3. CatalogTypeOK /\ AgentTyped /\ TurnInv => TypeOK
  BY DEF TypeOK, AgentTyped, TurnInv, CallsTyped, ResultsReturned
<1>4. CatalogTypeOK /\ [Next]_vars => CatalogTypeOK'
  BY StepOfCatalog, CatalogTypeStep
<1> QED BY <1>1, <1>2, <1>3, <1>4, AgentTypeStep, TurnStep, PTL DEF Spec

(* A catalog that was loaded while nobody edited a file is the directory's   *)
(* content - of each id the last file's, in the order of the first - for any *)
(* number of files, whatever loads failed before (YamlServiceRepository,     *)
(* yaml_repository.py:25).                                                   *)
THEOREM LoadsTheDirectory == Spec => []LoadedIsTheDirectory
<1>1. Init => CatalogTypeOK /\ LoadInv
  BY CatalogTypeInit, LoadInit DEF Init
<1>2. CatalogTypeOK /\ LoadInv /\ [Next]_vars => CatalogTypeOK' /\ LoadInv'
  BY StepOfCatalog, CatalogTypeStep, LoadStep
<1> QED BY <1>1, <1>2, LoadInvIsEnough, PTL DEF Spec
================================================================================
