------------------------------- MODULE TrustAudit -------------------------------
(***************************************************************************)
(* The two gates of a tool call and their audit logs: the agent's          *)
(* trust_safety_interceptor (mcp_trust/client_interceptors.py) and the     *)
(* server's with_trust_safety (mcp_trust/server_middleware.py), each of    *)
(* which writes to a file of its own through JsonlAuditLogger              *)
(* (mcp_trust/audit.py).  Every call has an agent and a server; the        *)
(* agents, and the servers, share a file.  Appends are atomic, but os.write *)
(* may write a part of a record only: its result is not looked at.         *)
(***************************************************************************)
EXTENDS Integers, Sequences, FiniteSets

CONSTANTS
  Calls,       \* the tool calls
  MaxShort,    \* bound: short writes in a behaviour
  MaxCrashes   \* bound: crashes of a process in a behaviour

ASSUME AuditAssumption == {MaxShort, MaxCrashes} \subseteq Nat

VARIABLES
  suspicious,  \* [Calls -> BOOLEAN]: the heuristics match the arguments
  exposed,     \* [Calls -> BOOLEAN]: the agent's request has them as .params
  log,         \* [Files -> Seq(Records)]: the audit files, as they were appended to
  pc,          \* [Calls -> Steps]: the step of a call that comes next
  reply,       \* [Calls -> Replies]: how the server's part of a call ended
  ran,         \* [Calls -> BOOLEAN]: the handler ran to its end
  agent,       \* [Calls -> Agents]: the agent that waits for the call
  shorts, crashes

vars == <<suspicious, exposed, log, pc, reply, ran, agent, shorts, crashes>>

Files == {"agent", "server"}
Decisions == {"blocked", "allowed", "completed"}
Record == [call : Calls, decision : Decisions, part : {"whole", "head"}]
Steps == {"intercept", "check", "handle", "record", "reply", "over"}

Init ==
  /\ suspicious \in [Calls -> BOOLEAN]
  /\ exposed \in [Calls -> BOOLEAN]
  /\ log = [f \in Files |-> <<>>]
  /\ pc = [c \in Calls |-> "intercept"]
  /\ reply = [c \in Calls |-> "none"]
  /\ ran = [c \in Calls |-> FALSE]
  /\ agent = [c \in Calls |-> "waiting"]
  /\ shorts = 0
  /\ crashes = 0

Goto(c, step) == pc' = [pc EXCEPT ![c] = step]
EndAs(c, how) == agent' = [agent EXCEPT ![c] = how]
Reply(c, how) == reply' = [reply EXCEPT ![c] = how] /\ Goto(c, "reply")

------------------------------------------------------------------------------
(* JsonlAuditLogger.log: the record is appended, or its head is, or the file *)
(* cannot be opened or written and the exception goes to the caller.         *)
\* mutant: the line is not ended
AppendedUnended(f, c, decision, part) ==
  log' = [log EXCEPT ![f] = Append(@, [call |-> c, decision |-> decision, part |-> "head"])]
Appended(f, c, decision, part) ==
  log' = [log EXCEPT ![f] = Append(@, [call |-> c, decision |-> decision, part |-> part])]
Logs(f, c, decision) ==
  \/ Appended(f, c, decision, "whole") /\ UNCHANGED shorts
  \/ /\ shorts < MaxShort /\ shorts' = shorts + 1
     /\ Appended(f, c, decision, "head")
LogRaises == UNCHANGED <<log, shorts>>

Inputs == <<suspicious, exposed>>

(* trust_safety_interceptor up to the call of the handler.                   *)
Refuses(c) == suspicious[c] /\ exposed[c]
InterceptorBlocks(c) ==
  /\ pc[c] = "intercept" /\ Refuses(c)
  /\ Logs("agent", c, "blocked") \/ LogRaises
  /\ Goto(c, "over") /\ EndAs(c, "raised")
  /\ UNCHANGED <<Inputs, reply, ran, crashes>>

\* mutant: the call is sent without its record
SentAnyway(c) ==
  /\ Logs("agent", c, "allowed") \/ LogRaises
  /\ Goto(c, "check") /\ UNCHANGED agent
Sent(c) ==
  \/ Logs("agent", c, "allowed") /\ Goto(c, "check") /\ UNCHANGED agent
  \/ LogRaises /\ Goto(c, "over") /\ EndAs(c, "raised")

InterceptorAllows(c) ==
  /\ pc[c] = "intercept" /\ ~Refuses(c)
  /\ Sent(c)
  /\ UNCHANGED <<Inputs, reply, ran, crashes>>

(* with_trust_safety.  No tool is in NETWORKED_TOOLS, so that its URL check  *)
(* is never made.  Whether the record can be written or not, a blocked call  *)
(* raises; an allowed one goes on only if it can.                            *)
MiddlewareBlocks(c) ==
  /\ pc[c] = "check" /\ suspicious[c]
  /\ Logs("server", c, "blocked") \/ LogRaises
  /\ Reply(c, "error")
  /\ UNCHANGED <<Inputs, ran, agent, crashes>>

\* mutant: the handler is called without its record
AllowedAnyway(c) ==
  /\ Logs("server", c, "allowed") \/ LogRaises
  /\ Goto(c, "handle")
  /\ UNCHANGED reply
Allowed(c) ==
  \/ Logs("server", c, "allowed") /\ Goto(c, "handle") /\ UNCHANGED reply
  \/ LogRaises /\ Reply(c, "error")

MiddlewareAllows(c) ==
  /\ pc[c] = "check" /\ ~suspicious[c]
  /\ Allowed(c)
  /\ UNCHANGED <<Inputs, ran, agent, crashes>>

(* The tool's handler; all of them end (HttpOutbound says why fetches do).   *)
HandlerReturns(c) ==
  /\ pc[c] = "handle"
  /\ ran' = [ran EXCEPT ![c] = TRUE]
  /\ Goto(c, "record")
  /\ UNCHANGED <<Inputs, log, reply, agent, shorts, crashes>>

HandlerRaises(c) ==
  /\ pc[c] = "handle"
  /\ Reply(c, "error")
  /\ UNCHANGED <<Inputs, log, ran, agent, shorts, crashes>>

\* mutants: a second record that cannot be written is done without; it says ok
CompletedAnyway(c) == (Logs("server", c, "completed") \/ LogRaises) /\ Reply(c, "result")
CompletedAsOk(c) ==
  \/ Logs("server", c, "ok") /\ Reply(c, "result")
  \/ LogRaises /\ Reply(c, "error")
Completed(c) ==
  \/ Logs("server", c, "completed") /\ Reply(c, "result")
  \/ LogRaises /\ Reply(c, "error")

\* The second record; when it cannot be written the result is lost.
MiddlewareCompletes(c) ==
  /\ pc[c] = "record"
  /\ Completed(c)
  /\ UNCHANGED <<Inputs, ran, agent, crashes>>

(* The interceptor gets a result, or a server's error: as an exception, or   *)
(* as a result that says so.  An agent that is gone gets nothing.            *)
InterceptorRaises(c) ==
  /\ pc[c] = "reply" /\ reply[c] = "error"
  /\ agent[c] = "waiting"
  /\ Goto(c, "over") /\ EndAs(c, "raised")
  /\ UNCHANGED <<Inputs, log, reply, ran, shorts, crashes>>

InterceptorCompletes(c) ==
  /\ pc[c] = "reply"
  /\ agent[c] = "waiting"
  /\ \/ Logs("agent", c, "completed") /\ EndAs(c, "returned")
     \/ LogRaises /\ EndAs(c, "raised")
  /\ Goto(c, "over")
  /\ UNCHANGED <<Inputs, reply, ran, crashes>>

ErrorIsKept(c) ==   \* mutant: an error waits for an agent that is gone
  /\ pc[c] = "reply" /\ agent[c] = "gone" /\ reply[c] = "result"
  /\ Goto(c, "over")
  /\ UNCHANGED <<Inputs, log, reply, ran, agent, shorts, crashes>>
ReplyIsLost(c) ==
  /\ pc[c] = "reply" /\ agent[c] = "gone"
  /\ Goto(c, "over")
  /\ UNCHANGED <<Inputs, log, reply, ran, agent, shorts, crashes>>

(* A process dies between two steps.  A server without its agent still ends  *)
(* the call it is in.                                                        *)
ServerCrash(c) ==
  /\ pc[c] \in {"check", "handle", "record"}
  /\ crashes < MaxCrashes /\ crashes' = crashes + 1
  /\ Reply(c, "error")
  /\ UNCHANGED <<Inputs, log, ran, agent, shorts>>

AgentCrash(c) ==
  /\ agent[c] = "waiting"
  /\ crashes < MaxCrashes /\ crashes' = crashes + 1
  /\ EndAs(c, "gone")
  /\ IF pc[c] = "intercept" THEN Goto(c, "over") ELSE UNCHANGED pc
  /\ UNCHANGED <<Inputs, log, reply, ran, shorts>>

Interceptor(c) ==
  \/ InterceptorBlocks(c) \/ InterceptorAllows(c)
  \/ InterceptorRaises(c) \/ InterceptorCompletes(c) \/ ReplyIsLost(c)
Middleware(c) ==
  \/ MiddlewareBlocks(c) \/ MiddlewareAllows(c)
  \/ HandlerReturns(c) \/ HandlerRaises(c) \/ MiddlewareCompletes(c)

Next == \E c \in Calls :
  Interceptor(c) \/ Middleware(c) \/ ServerCrash(c) \/ AgentCrash(c)

Spec == Init /\ [][Next]_vars
FairSpec == Spec /\ \A c \in Calls : WF_vars(Interceptor(c) \/ Middleware(c))

------------------------------------------------------------------------------
TypeOK ==
  /\ suspicious \in [Calls -> BOOLEAN]
  /\ exposed \in [Calls -> BOOLEAN]
  /\ log \in [Files -> Seq(Record)]
  /\ pc \in [Calls -> Steps]
  /\ reply \in [Calls -> {"none", "error", "result"}]
  /\ ran \in [Calls -> BOOLEAN]
  /\ agent \in [Calls -> {"waiting", "raised", "returned", "gone"}]
  /\ shorts \in 0..MaxShort
  /\ crashes \in 0..MaxCrashes

(* The decisions on file for a call, torn records included.                  *)
OnFile(f, c) == {d \in Decisions :
  \E i \in DOMAIN log[f] : log[f][i].call = c /\ log[f][i].decision = d}

HandlerTrail == INSTANCE AuditTrail WITH
  trail <- [c \in Calls |-> OnFile("server", c)]

InterceptorTrail == INSTANCE AuditTrail WITH
  trail <- [c \in Calls |-> OnFile("agent", c)],
  ran <- [c \in Calls |-> reply[c] # "none"]

(* However the two processes of a call and those of other calls interleave,  *)
(* fail to append or die, the servers' file keeps the trail of the handlers: *)
(* none runs before its "allowed" record (server_middleware.py:74-84).       *)
HandlersLeaveATrail == HandlerTrail!TrailSpec

(* The same of the agents' file, for the servers' part of the calls          *)
(* (client_interceptors.py:54-71).                                           *)
InterceptorsLeaveATrail == InterceptorTrail!TrailSpec

(* A result is given to nobody before it is accounted for in both files: the *)
(* middleware gives it up when it cannot write its second record, and so     *)
(* does the interceptor.                                                     *)
ResultsAccountedFor == \A c \in Calls :
  agent[c] = "returned" /\ reply[c] = "result" =>
    ran[c] /\ \A f \in Files : OnFile(f, c) = {"allowed", "completed"}

(* Whatever fails, every call is over in the end: no gate waits for a record *)
(* or for the other process.                                                 *)
CallsEnd == <>(\A c \in Calls : pc[c] = "over")

(* A torn record spoils its line, and with it the record appended next.      *)
Readable(f, i) == log[f][i].part = "whole" /\ (i > 1 => log[f][i - 1].part = "whole")

(* As each record goes to its file in one append that ends its line, a short *)
(* write costs a reader two records at most, of whichever processes; all the *)
(* others can be read (audit.py:24, "Best-effort atomic append").            *)
LossBounded ==
  Cardinality(UNION {{<<f, i>> : i \in {n \in DOMAIN log[f] : ~Readable(f, n)}} :
                       f \in Files}) <= 2 * shorts
==============================================================================
