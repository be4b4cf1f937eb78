------------------------------- MODULE AgentChat -------------------------------
(***************************************************************************)
(* The agent's chat (agent_app): read an input, plan calls by keywords,    *)
(* execute them one after the other, synthesize the answer from their      *)
(* results, and so on until the user leaves.  Composed with the services   *)
(* server of ServiceCatalog, which other clients call as well; the search  *)
(* of the opendata server (SearchDataset) is one step that may raise.      *)
(*                                                                         *)
(* A tool that raises ends the turn, the chat and its process: nothing     *)
(* between BaseTool.ainvoke and asyncio.run catches it.                    *)
(***************************************************************************)
EXTENDS ServiceCatalog

VARIABLES
  turn,     \* where the chat is
  tools,    \* the tools the chat found on the servers it was started with
  planned,  \* planned_calls
  plan,     \* those not executed yet
  results,  \* tools of tool_results
  answer,   \* the answer about to be shown
  died,     \* the last chat ended in an exception
  done      \* history: calls that returned since the last input

agent == <<turn, tools, planned, plan, results, answer, died, done>>
vars == <<catalogVars, agent>>

AgentTools == {"search_dataset", "list_services"}
Topics == {"data", "services"}  \* population, dakar; service, allocation, carte
Answers == {"none", "apology", "results"}
NoAnswer == [kind |-> "none", parts |-> <<>>]

Init ==
  /\ CatalogInit
  /\ turn = "off" /\ tools = {}
  /\ planned = <<>> /\ plan = <<>> /\ results = <<>> /\ done = <<>>
  /\ answer = NoAnswer
  /\ died = FALSE

------------------------------------------------------------------------------
(* sencivic chat --servers: the tools are loaded once, from those servers.   *)
StartChat(available) ==
  /\ turn = "off"
  /\ turn' = "prompt"
  /\ tools' = available
  /\ died' = FALSE
  /\ UNCHANGED <<planned, plan, results, answer, done>>

Leave ==
  /\ turn = "prompt"
  /\ turn' = "off" /\ tools' = {}
  /\ UNCHANGED <<planned, plan, results, answer, died, done>>

(* The planner: a call per topic of the input whose tool is there, the       *)
(* search first.  As it plans only tools that are there, the executor never  *)
(* has one to skip.                                                          *)
Planned(about, available) ==
  (IF "data" \in about /\ "search_dataset" \in available THEN <<"search_dataset">> ELSE <<>>)
  \o (IF "services" \in about /\ "list_services" \in available THEN <<"list_services">> ELSE <<>>)

Input(about) ==
  /\ turn = "prompt"
  /\ turn' = "execute"
  /\ planned' = Planned(about, tools)
  /\ plan' = planned'
  /\ UNCHANGED <<tools, results, answer, died, done>>

\* mutant: a tool that raises is passed over
Continue ==
  /\ turn' = "execute" /\ plan' = Tail(plan)
  /\ UNCHANGED <<tools, planned, results, done, died>>
Die ==
  /\ turn' = "off" /\ died' = TRUE
  /\ tools' = {}
  /\ planned' = <<>> /\ plan' = <<>> /\ results' = <<>> /\ done' = <<>>

\* tool.ainvoke returned or raised.
Invoked(ok) ==
  /\ IF ok
     THEN /\ turn' = "execute"
          /\ plan' = Tail(plan)
          /\ results' = Append(results, Head(plan))
          /\ done' = Append(done, Head(plan))
          /\ UNCHANGED <<tools, planned, died>>
     ELSE Die
  /\ UNCHANGED answer

SearchDatasets ==
  /\ turn = "execute" /\ plan # <<>> /\ Head(plan) = "search_dataset"
  /\ \E ok \in BOOLEAN : Invoked(ok)
  /\ UNCHANGED catalogVars

ListServices ==
  /\ turn = "execute" /\ plan # <<>> /\ Head(plan) = "list_services"
  /\ Call(All)
  /\ turn' = "wait"
  /\ UNCHANGED <<tools, planned, plan, results, answer, died, done>>

ServicesListed ==
  /\ turn = "wait"
  /\ Replied
  /\ Invoked(reply = "ok")

\* The synthesizer: a line per result, or a text that no tool was found.
Synthesize ==
  /\ turn = "execute" /\ plan = <<>>
  /\ turn' = "answer"
  /\ answer' = IF results = <<>> THEN [kind |-> "apology", parts |-> <<>>]
               ELSE [kind |-> "results", parts |-> results]
  /\ UNCHANGED <<tools, planned, plan, results, died, done>>

(* The answer is shown; the next input starts from a state of its own.       *)
Show ==
  /\ turn = "answer"
  /\ turn' = "prompt"
  /\ answer' = NoAnswer
  /\ planned' = <<>> /\ results' = <<>> /\ done' = <<>>
  /\ UNCHANGED <<tools, plan, died>>

(* Another client, such as sencivic call, calls the services server.         *)
OtherCall ==
  /\ \E what \in Calls : Call(what)
  /\ UNCHANGED agent
OtherReplied ==
  /\ turn # "wait"
  /\ Replied
  /\ UNCHANGED agent

Server == ServerStep /\ UNCHANGED agent
Surroundings ==
  /\ Restart \/ \E n \in Names : EditFile(n)
  /\ UNCHANGED agent
User ==
  /\ \/ \E available \in SUBSET AgentTools : StartChat(available)
     \/ \E about \in SUBSET Topics : Input(about)
     \/ Leave
  /\ UNCHANGED catalogVars
Answer == (Synthesize \/ Show) /\ UNCHANGED catalogVars

Next ==
  \/ User \/ SearchDatasets \/ ListServices \/ ServicesListed \/ Answer
  \/ OtherCall \/ OtherReplied \/ Server
  \/ Surroundings

(* The server goes on with a call and takes calls in the order they come;    *)
(* the agent goes on with a turn.  Nobody has to type, edit or restart.      *)
Spec ==
  /\ Init /\ [][Next]_vars
  /\ WF_vars(Server) /\ WF_vars(OtherReplied)
  /\ SF_vars(ListServices)
  /\ WF_vars(SearchDatasets) /\ WF_vars(ServicesListed) /\ WF_vars(Answer)

------------------------------------------------------------------------------
TypeOK ==
  /\ CatalogTypeOK
  /\ turn \in {"off", "prompt", "execute", "wait", "answer"}
  /\ tools \subseteq AgentTools
  /\ {planned, plan, results, done} \subseteq Seq(AgentTools)
  /\ answer \in [kind : Answers, parts : Seq(AgentTools)]
  /\ died \in BOOLEAN

(* An answer reports the calls of its own turn, all that the input called    *)
(* for and in that order, each of which returned since that input; it is the *)
(* apology only when the input called for none (executor.py:19,              *)
(* synthesizer.py:16).                                                       *)
AnswersTheInput == answer.kind # "none" =>
  /\ answer.parts = planned
  /\ answer.parts = done
  /\ answer.kind = "apology" <=> done = <<>>

(* Every turn ends, in an answer or with the chat, whatever is in the        *)
(* catalog directory, however often it is edited and whoever else calls.     *)
TurnsEnd == turn \in {"execute", "wait"} ~> turn \in {"answer", "off"}

(* A malformed catalog file does its damage only while it is there: once     *)
(* nobody edits the files any more and they are well-formed, and neither the *)
(* gates nor the search raise, from some point on no chat dies (a load that  *)
(* raised is not cached, server.py:23).  Edits have to end: a file that is   *)
(* never malformed can be gone between a load's glob and its open, and its   *)
(* removal and return can meet every load.                                   *)
WellFormed == \A n \in Names : disk[n].kind # "malformed"
Edited == edits' # edits
GatesFail == reply # "raised" /\ reply' = "raised"
SearchFails == turn = "execute" /\ turn' = "off"
ChatsSurvive ==
  <>[]WellFormed /\ <>[][~Edited /\ ~GatesFail /\ ~SearchFails]_vars
    => <>[][~died']_died
================================================================================
