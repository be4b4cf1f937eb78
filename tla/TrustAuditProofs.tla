---------------------------- MODULE TrustAuditProofs ----------------------------
(***************************************************************************)
(* Proofs about TrustAudit, for any set of calls and any bounds: types, and *)
(* that both audit files keep the trail AuditTrail asks for.               *)
(***************************************************************************)
EXTENDS TrustAudit, SequenceTheorems, FiniteSetTheorems, TLAPS

Parts == {"whole", "head"}
Trail(f) == [c \in Calls |-> OnFile(f, c)]

(* A record appended for a call adds its decision to what is on file for the *)
(* call, and changes nothing else.                                           *)
LEMMA AppendedOnFile ==
  ASSUME TypeOK, NEW f \in Files, NEW c \in Calls, NEW d \in Decisions, NEW part \in Parts,
         Appended(f, c, d, part)
  PROVE  /\ log' \in [Files -> Seq(Record)]
         /\ OnFile(f, c)' = OnFile(f, c) \cup {d}
         /\ \A g \in Files, e \in Calls : g # f \/ e # c => OnFile(g, e)' = OnFile(g, e)
<1> DEFINE r == [call |-> c, decision |-> d, part |-> part]
<1>1. r \in Record /\ log[f] \in Seq(Record)  BY DEF TypeOK, Record, Parts
<1>2. log' = [log EXCEPT ![f] = Append(log[f], r)]  BY DEF Appended
<1>3. log'[f] = Append(log[f], r)  BY <1>2 DEF TypeOK
<1>4. \A g \in Files : g # f => log'[g] = log[g]  BY <1>2 DEF TypeOK
<1>5. log' \in [Files -> Seq(Record)]
  <2>1. Append(log[f], r) \in Seq(Record)  BY <1>1, AppendProperties
  <2>2. QED  BY <2>1, <1>2 DEF TypeOK
<1>6. /\ Len(log'[f]) = Len(log[f]) + 1
      /\ Len(log[f]) \in Nat
      /\ DOMAIN log[f] = 1..Len(log[f])
      /\ DOMAIN log'[f] = 1..(Len(log[f]) + 1)
      /\ \A i \in 1..Len(log[f]) : log'[f][i] = log[f][i]
      /\ log'[f][Len(log[f]) + 1] = r
  <2>1. Append(log[f], r) \in Seq(Record)  BY <1>1, AppendProperties
  <2>2. QED  BY <2>1, <1>1, <1>3, AppendProperties, LenProperties
<1> HIDE DEF r
<1>7. r.call = c /\ r.decision = d  BY DEF r
<1>8. ASSUME NEW e \in Calls, NEW x \in Decisions
      PROVE  x \in OnFile(f, e)' <=> x \in OnFile(f, e) \/ (e = c /\ x = d)
  <2>1. x \in OnFile(f, e) <=>
          \E i \in 1..Len(log[f]) : log[f][i].call = e /\ log[f][i].decision = x
    BY <1>6 DEF OnFile
  <2>2. x \in OnFile(f, e)' <=>
          \E i \in 1..(Len(log[f]) + 1) : log'[f][i].call = e /\ log'[f][i].decision = x
    BY <1>6 DEF OnFile
  <2>3. \A i \in 1..(Len(log[f]) + 1) : i \in 1..Len(log[f]) \/ i = Len(log[f]) + 1
    BY <1>6
  <2>4. 1..Len(log[f]) \subseteq 1..(Len(log[f]) + 1) /\ Len(log[f]) + 1 \in 1..(Len(log[f]) + 1)
    BY <1>6
  <2>5. QED  BY <2>1, <2>2, <2>3, <2>4, <1>6, <1>7
<1>9. \A g \in Files, e \in Calls : OnFile(g, e) \subseteq Decisions /\ OnFile(g, e)' \subseteq Decisions
  BY DEF OnFile
<1>10. OnFile(f, c)' = OnFile(f, c) \cup {d}
  BY <1>8, <1>9
<1>11. ASSUME NEW g \in Files, NEW e \in Calls, g # f \/ e # c
       PROVE  OnFile(g, e)' = OnFile(g, e)
  <2>1. CASE g # f  BY <2>1, <1>4 DEF OnFile
  <2>2. CASE g = f
    <3>1. e # c  BY <2>2, <1>11
    <3>2. QED  BY <2>2, <3>1, <1>8, <1>9
  <2>3. QED  BY <2>1, <2>2
<1>12. QED  BY <1>5, <1>10, <1>11

(* The log is left alone: so is what is on file.                             *)
LEMMA SameOnFile ==
  ASSUME UNCHANGED log
  PROVE  \A g \in Files, e \in Calls : OnFile(g, e)' = OnFile(g, e)
BY DEF OnFile

(* What a call of JsonlAuditLogger.log that does not raise does.             *)
LEMMA LogsOnFile ==
  ASSUME TypeOK, NEW f \in Files, NEW c \in Calls, NEW d \in Decisions, Logs(f, c, d)
  PROVE  /\ log' \in [Files -> Seq(Record)]
         /\ shorts' \in 0..MaxShort
         /\ OnFile(f, c)' = OnFile(f, c) \cup {d}
         /\ \A g \in Files, e \in Calls : g # f \/ e # c => OnFile(g, e)' = OnFile(g, e)
<1>1. \E part \in Parts : Appended(f, c, d, part)  BY DEF Logs, Parts
<1>2. shorts' \in 0..MaxShort
  <2>1. shorts \in 0..MaxShort /\ MaxShort \in Nat  BY AuditAssumption DEF TypeOK
  <2>2. QED  BY <2>1 DEF Logs
<1>3. QED  BY <1>1, <1>2, AppendedOnFile

-----------------------------------------------------------------------------
(* Every step keeps the types.                                               *)
LEMMA NextTypeOK == TypeOK /\ [Next]_vars => TypeOK'
<1> SUFFICES ASSUME TypeOK, [Next]_vars PROVE TypeOK'  OBVIOUS
<1>1. CASE UNCHANGED vars  BY <1>1 DEF vars, TypeOK
<1>2. ASSUME NEW c \in Calls, Interceptor(c) \/ Middleware(c) \/ ServerCrash(c) \/ AgentCrash(c)
      PROVE  TypeOK'
  <2> USE DEF Inputs, Goto, EndAs, Reply, LogRaises, Steps
  <2>0. /\ "agent" \in Files /\ "server" \in Files
        /\ {"blocked", "allowed", "completed"} \subseteq Decisions
    BY DEF Files, Decisions
  <2>1. log' \in [Files -> Seq(Record)] /\ shorts' \in 0..MaxShort
    <3>1. \/ \E f \in Files, d \in Decisions : Logs(f, c, d)
          \/ UNCHANGED <<log, shorts>>
      BY <1>2, <2>0 DEF Interceptor, InterceptorBlocks, InterceptorAllows, Sent, InterceptorRaises,
           InterceptorCompletes, ReplyIsLost, Middleware, MiddlewareBlocks, MiddlewareAllows,
           Allowed, HandlerReturns, HandlerRaises, MiddlewareCompletes, Completed, ServerCrash, AgentCrash
    <3>2. QED  BY <3>1, LogsOnFile DEF TypeOK
  <2>2. /\ suspicious' \in [Calls -> BOOLEAN] /\ exposed' \in [Calls -> BOOLEAN]
        /\ ran' \in [Calls -> BOOLEAN]
    BY <1>2 DEF TypeOK, Interceptor, InterceptorBlocks, InterceptorAllows, InterceptorRaises,
           InterceptorCompletes, ReplyIsLost, Middleware, MiddlewareBlocks, MiddlewareAllows,
           HandlerReturns, HandlerRaises, MiddlewareCompletes, ServerCrash, AgentCrash
  <2>3. pc' \in [Calls -> Steps]
    BY <1>2 DEF TypeOK, Interceptor, InterceptorBlocks, InterceptorAllows, Sent, InterceptorRaises,
           InterceptorCompletes, ReplyIsLost, Middleware, MiddlewareBlocks, MiddlewareAllows,
           Allowed, HandlerReturns, HandlerRaises, MiddlewareCompletes, Completed, ServerCrash, AgentCrash
  <2>4. /\ reply' \in [Calls -> {"none", "error", "result"}]
        /\ agent' \in [Calls -> {"waiting", "raised", "returned", "gone"}]
    BY <1>2 DEF TypeOK, Interceptor, InterceptorBlocks, InterceptorAllows, Sent, InterceptorRaises,
           InterceptorCompletes, ReplyIsLost, Middleware, MiddlewareBlocks, MiddlewareAllows,
           Allowed, HandlerReturns, HandlerRaises, MiddlewareCompletes, Completed, ServerCrash, AgentCrash
  <2>5. crashes' \in 0..MaxCrashes
    <3>1. crashes \in 0..MaxCrashes /\ MaxCrashes \in Nat  BY AuditAssumption DEF TypeOK
    <3>2. crashes' = crashes \/ (crashes < MaxCrashes /\ crashes' = crashes + 1)
      BY <1>2 DEF Interceptor, InterceptorBlocks, InterceptorAllows, InterceptorRaises,
           InterceptorCompletes, ReplyIsLost, Middleware, MiddlewareBlocks, MiddlewareAllows,
           HandlerReturns, HandlerRaises, MiddlewareCompletes, ServerCrash, AgentCrash
    <3>3. QED  BY <3>1, <3>2
  <2>6. QED  BY <2>1, <2>2, <2>3, <2>4, <2>5 DEF TypeOK
<1>3. QED  BY <1>1, <1>2 DEF Next

(* Every variable keeps its type, whatever the interleaving and the failures. *)
THEOREM TypeCorrect == Spec => []TypeOK
<1>1. Init => TypeOK
  BY AuditAssumption DEF Init, TypeOK, Files, Steps, Record
<1>2. QED  BY <1>1, NextTypeOK, PTL DEF Spec

-----------------------------------------------------------------------------
(* Where a call is tells what is on file for it, which is what makes each    *)
(* step of a gate a step of its trail.                                       *)
CallMatched(c) ==
  /\ pc[c] \in {"intercept", "check"} => OnFile("server", c) = {} /\ ran[c] = FALSE
  /\ pc[c] = "handle" => OnFile("server", c) = {"allowed"} /\ ran[c] = FALSE
  /\ pc[c] = "record" => OnFile("server", c) = {"allowed"} /\ ran[c] = TRUE
  /\ pc[c] = "intercept" => OnFile("agent", c) = {}
  /\ pc[c] \in {"check", "handle", "record", "reply"} => OnFile("agent", c) = {"allowed"}
  /\ pc[c] \in {"intercept", "check", "handle", "record"} => reply[c] = "none"
  /\ pc[c] = "reply" => reply[c] # "none"
Matched == \A c \in Calls : CallMatched(c)

\* What a step of one call leaves of the others.
OthersAlone(c) == \A e \in Calls \ {c} :
  /\ pc'[e] = pc[e] /\ reply'[e] = reply[e] /\ ran'[e] = ran[e]
  /\ \A g \in Files : OnFile(g, e)' = OnFile(g, e)

(* A step of a call is one of its own only.                                  *)
LEMMA StepOfOneCall ==
  ASSUME TypeOK, NEW c \in Calls,
         Interceptor(c) \/ Middleware(c) \/ ServerCrash(c) \/ AgentCrash(c)
  PROVE  OthersAlone(c)
<1>1. \A e \in Calls \ {c} : pc'[e] = pc[e] /\ reply'[e] = reply[e] /\ ran'[e] = ran[e]
  BY DEF TypeOK, Goto, Reply, Interceptor, InterceptorBlocks, InterceptorAllows, Sent,
         InterceptorRaises, InterceptorCompletes, ReplyIsLost, Middleware, MiddlewareBlocks,
         MiddlewareAllows, Allowed, HandlerReturns, HandlerRaises, MiddlewareCompletes,
         Completed, ServerCrash, AgentCrash
<1>2. \A e \in Calls \ {c}, g \in Files : OnFile(g, e)' = OnFile(g, e)
  <2>1. \/ \E f \in Files, d \in Decisions : Logs(f, c, d)
        \/ UNCHANGED log
    BY DEF Files, Decisions, LogRaises, Interceptor, InterceptorBlocks, InterceptorAllows, Sent,
         InterceptorRaises, InterceptorCompletes, ReplyIsLost, Middleware, MiddlewareBlocks,
         MiddlewareAllows, Allowed, HandlerReturns, HandlerRaises, MiddlewareCompletes,
         Completed, ServerCrash, AgentCrash
  <2>2. ASSUME NEW f \in Files, NEW d \in Decisions, Logs(f, c, d)
        PROVE  \A e \in Calls \ {c}, g \in Files : OnFile(g, e)' = OnFile(g, e)
    BY <2>2, LogsOnFile
  <2>3. ASSUME UNCHANGED log
        PROVE  \A e \in Calls \ {c}, g \in Files : OnFile(g, e)' = OnFile(g, e)
    BY <2>3, SameOnFile
  <2>4. QED  BY <2>1, <2>2, <2>3
<1>3. QED  BY <1>1, <1>2 DEF OthersAlone

\* How a step of call c changes its place, reply, run and what is on file.
Moves(c, from, to, said, ranNow) ==
  /\ pc[c] = from /\ pc'[c] = to
  /\ reply'[c] = said /\ ran'[c] = ranNow
Files2(c, onAgent, onServer) ==
  /\ OnFile("agent", c)' = onAgent
  /\ OnFile("server", c)' = onServer

(* The steps of a call, by what they do to its trails.                       *)
StepKinds(c) ==
  LET a == OnFile("agent", c)
      s == OnFile("server", c)
  IN
  \/ Moves(c, "intercept", "over", reply[c], ran[c]) /\ (Files2(c, a \cup {"blocked"}, s) \/ Files2(c, a, s))
  \/ Moves(c, "intercept", "check", reply[c], ran[c]) /\ Files2(c, a \cup {"allowed"}, s)
  \/ /\ Moves(c, "check", "reply", "error", ran[c])
     /\ Files2(c, a, s \cup {"blocked"}) \/ Files2(c, a, s)
  \/ Moves(c, "check", "handle", reply[c], ran[c]) /\ Files2(c, a, s \cup {"allowed"})
  \/ Moves(c, "handle", "record", reply[c], TRUE) /\ Files2(c, a, s)
  \/ Moves(c, "handle", "reply", "error", ran[c]) /\ Files2(c, a, s)
  \/ Moves(c, "record", "reply", "result", ran[c]) /\ Files2(c, a, s \cup {"completed"})
  \/ Moves(c, "record", "reply", "error", ran[c]) /\ Files2(c, a, s)
  \/ /\ Moves(c, "reply", "over", reply[c], ran[c])
     /\ Files2(c, a \cup {"completed"}, s) \/ Files2(c, a, s)
  \/ Moves(c, pc[c], pc[c], reply[c], ran[c]) /\ Files2(c, a, s)

(* Every step of a call is of one of those kinds.                            *)
LEMMA StepIsOfAKind ==
  ASSUME TypeOK, NEW c \in Calls,
         Interceptor(c) \/ Middleware(c) \/ ServerCrash(c) \/ AgentCrash(c)
  PROVE  StepKinds(c)
<1> USE DEF TypeOK, Goto, Reply, Inputs, LogRaises
<1>0. /\ "agent" \in Files /\ "server" \in Files
      /\ "blocked" \in Decisions /\ "allowed" \in Decisions /\ "completed" \in Decisions
  BY DEF Files, Decisions
<1>1. ASSUME NEW d \in Decisions, Logs("agent", c, d)
      PROVE  Files2(c, OnFile("agent", c) \cup {d}, OnFile("server", c))
  BY <1>0, <1>1, LogsOnFile DEF Files2
<1>2. ASSUME NEW d \in Decisions, Logs("server", c, d)
      PROVE  Files2(c, OnFile("agent", c), OnFile("server", c) \cup {d})
  BY <1>0, <1>2, LogsOnFile DEF Files2
<1>3. ASSUME UNCHANGED log
      PROVE  Files2(c, OnFile("agent", c), OnFile("server", c))
  BY <1>0, <1>3, SameOnFile DEF Files2
<1> HIDE DEF TypeOK
<1>t. /\ pc \in [Calls -> Steps] /\ reply \in [Calls -> {"none", "error", "result"}]
      /\ ran \in [Calls -> BOOLEAN]
  BY DEF TypeOK
<1>4. CASE InterceptorBlocks(c)
  BY <1>t, <1>0, <1>1, <1>3, <1>4 DEF InterceptorBlocks, StepKinds, Moves
<1>5. CASE InterceptorAllows(c)
  BY <1>t, <1>0, <1>1, <1>3, <1>5 DEF InterceptorAllows, Sent, StepKinds, Moves
<1>6. CASE InterceptorRaises(c)
  BY <1>t, <1>3, <1>6 DEF InterceptorRaises, StepKinds, Moves
<1>7. CASE InterceptorCompletes(c)
  BY <1>t, <1>0, <1>1, <1>3, <1>7 DEF InterceptorCompletes, StepKinds, Moves
<1>8. CASE ReplyIsLost(c)
  BY <1>t, <1>3, <1>8 DEF ReplyIsLost, StepKinds, Moves
<1>9. CASE MiddlewareBlocks(c)
  BY <1>t, <1>0, <1>2, <1>3, <1>9 DEF MiddlewareBlocks, StepKinds, Moves
<1>10. CASE MiddlewareAllows(c)
  BY <1>t, <1>0, <1>2, <1>3, <1>10 DEF MiddlewareAllows, Allowed, StepKinds, Moves
<1>11. CASE HandlerReturns(c)
  BY <1>t, <1>3, <1>11 DEF HandlerReturns, StepKinds, Moves
<1>12. CASE HandlerRaises(c)
  BY <1>t, <1>3, <1>12 DEF HandlerRaises, StepKinds, Moves
<1>13. CASE MiddlewareCompletes(c)
  BY <1>t, <1>0, <1>2, <1>3, <1>13 DEF MiddlewareCompletes, Completed, StepKinds, Moves
<1>14. CASE ServerCrash(c)
  BY <1>t, <1>3, <1>14 DEF ServerCrash, StepKinds, Moves
<1>15. CASE AgentCrash(c)
  BY <1>t, <1>3, <1>15 DEF AgentCrash, StepKinds, Moves
<1>16. QED
  BY <1>4, <1>5, <1>6, <1>7, <1>8, <1>9, <1>10, <1>11, <1>12, <1>13, <1>14, <1>15
     DEF Interceptor, Middleware

(* The two facts above about a step of Next.                                 *)
LEMMA NextStep ==
  ASSUME TypeOK, Next
  PROVE  \E c \in Calls : StepKinds(c) /\ OthersAlone(c)
BY StepOfOneCall, StepIsOfAKind DEF Next

(* Every step keeps a call and what is on file for it matched.               *)
LEMMA NextMatched == TypeOK /\ Matched /\ [Next]_vars => Matched'
<1> SUFFICES ASSUME TypeOK, Matched, [Next]_vars PROVE Matched'  OBVIOUS
<1>1. CASE UNCHANGED vars
  <2>1. \A g \in Files, e \in Calls : OnFile(g, e)' = OnFile(g, e)
    BY <1>1, SameOnFile DEF vars
  <2>2. QED  BY <1>1, <2>1 DEF vars, Matched, CallMatched, Files
<1>2. CASE Next
  <2>1. PICK c \in Calls : StepKinds(c) /\ OthersAlone(c)  BY <1>2, NextStep
  <2>2. CallMatched(c)'
    BY <2>1 DEF Matched, CallMatched, StepKinds, Moves, Files2
  <2>3. ASSUME NEW e \in Calls, e # c PROVE CallMatched(e)'
    BY <2>1, <2>3 DEF Matched, CallMatched, OthersAlone, Files
  <2>4. QED  BY <2>2, <2>3 DEF Matched
<1>3. QED  BY <1>1, <1>2

(* The files start empty.                                                    *)
LEMMA NothingOnFile ==
  ASSUME Init
  PROVE  \A f \in Files, c \in Calls : OnFile(f, c) = {}
<1>1. \A f \in Files : log[f] = <<>>  BY DEF Init
<1>2. \A f \in Files : DOMAIN log[f] = {}  BY <1>1
<1>3. QED  BY <1>2 DEF OnFile

(* What is on file matches where the call is, in every state.                *)
THEOREM TrailsMatched == Spec => []Matched
<1>1. Init => Matched
  BY NothingOnFile DEF Init, Matched, CallMatched, Files
<1>2. QED  BY <1>1, TypeCorrect, NextMatched, PTL DEF Spec

-----------------------------------------------------------------------------
(* The servers' file keeps the trail of the handlers: the step of a call is  *)
(* a step of AuditTrail, or changes nothing of it.                           *)
THEOREM HandlersTrailed == Spec => HandlersLeaveATrail
<1> USE DEF Trail
<1>1. Init => HandlerTrail!Init
  BY NothingOnFile DEF Init, HandlerTrail!Init, Files
<1>2. ASSUME TypeOK, Matched, [Next]_vars
      PROVE  [HandlerTrail!Next]_<<Trail("server"), ran>>
  <2>1. CASE UNCHANGED vars
    <3>1. \A c \in Calls : OnFile("server", c)' = OnFile("server", c)
      BY <2>1, SameOnFile DEF vars, Files
    <3>2. QED  BY <2>1, <3>1 DEF vars
  <2>2. CASE Next
    <3>1. PICK c \in Calls : StepKinds(c) /\ OthersAlone(c)  BY <1>2, <2>2, NextStep
    <3>2. /\ ran \in [Calls -> BOOLEAN] /\ ran' \in [Calls -> BOOLEAN]
          /\ TypeOK'
      BY <1>2, NextTypeOK DEF TypeOK
    <3>3. \A e \in Calls \ {c} : OnFile("server", e)' = OnFile("server", e) /\ ran'[e] = ran[e]
      BY <3>1 DEF OthersAlone, Files
    <3>4. /\ CallMatched(c)
          /\ \/ /\ OnFile("server", c)' = OnFile("server", c) /\ ran'[c] = ran[c]
             \/ /\ OnFile("server", c) = {} /\ ran'[c] = ran[c]
                /\ OnFile("server", c)' = {"blocked"}
             \/ /\ OnFile("server", c) = {} /\ ran'[c] = ran[c]
                /\ OnFile("server", c)' = {"allowed"}
             \/ /\ OnFile("server", c) = {"allowed"} /\ ran[c] = FALSE /\ ran'[c] = TRUE
                /\ OnFile("server", c)' = {"allowed"}
             \/ /\ OnFile("server", c) = {"allowed"} /\ ran[c] = TRUE /\ ran'[c] = TRUE
                /\ OnFile("server", c)' = {"allowed", "completed"}
      BY <1>2, <3>1 DEF Matched, CallMatched, StepKinds, Moves, Files2
    <3>a. ASSUME NEW x, OnFile("server", c)' = x
          PROVE  Trail("server")' = [Trail("server") EXCEPT ![c] = x]
      BY <3>3, <3>a
    <3>b. ASSUME ran'[c] = ran[c] PROVE ran' = ran
      BY <3>2, <3>3, <3>b
    <3>c. ASSUME OnFile("server", c)' = OnFile("server", c)
          PROVE  Trail("server")' = Trail("server")
      BY <3>3, <3>c
    <3>d. Trail("server")[c] = OnFile("server", c)  OBVIOUS
    <3>5. CASE OnFile("server", c)' = OnFile("server", c) /\ ran'[c] = ran[c]
      BY <3>b, <3>c, <3>5
    <3>6. CASE /\ OnFile("server", c) = {} /\ ran'[c] = ran[c]
               /\ OnFile("server", c)' = {"blocked"}
      BY <3>a, <3>b, <3>d, <3>6 DEF HandlerTrail!Next, HandlerTrail!Block
    <3>7. CASE /\ OnFile("server", c) = {} /\ ran'[c] = ran[c]
               /\ OnFile("server", c)' = {"allowed"}
      BY <3>a, <3>b, <3>d, <3>7 DEF HandlerTrail!Next, HandlerTrail!Allow
    <3>8. CASE /\ OnFile("server", c) = {"allowed"} /\ ran[c] = FALSE /\ ran'[c] = TRUE
               /\ OnFile("server", c)' = {"allowed"}
      BY <3>2, <3>3, <3>8 DEF HandlerTrail!Next, HandlerTrail!Run
    <3>9. CASE /\ OnFile("server", c) = {"allowed"} /\ ran[c] = TRUE /\ ran'[c] = TRUE
               /\ OnFile("server", c)' = {"allowed", "completed"}
      BY <3>a, <3>b, <3>d, <3>9 DEF HandlerTrail!Next, HandlerTrail!Complete
    <3>10. QED  BY <3>4, <3>5, <3>6, <3>7, <3>8, <3>9
  <2>3. QED  BY <1>2, <2>1, <2>2
<1>3. QED
  BY <1>1, <1>2, TypeCorrect, TrailsMatched, PTL
     DEF Spec, HandlersLeaveATrail, HandlerTrail!TrailSpec

(* The agents' file keeps the trail of what the interceptor guards, the      *)
(* servers' part of the calls.                                               *)
THEOREM InterceptorsTrailed == Spec => InterceptorsLeaveATrail
<1> DEFINE replied == [c \in Calls |-> reply[c] # "none"]
<1> USE DEF Trail
<1>1. Init => InterceptorTrail!Init
  BY NothingOnFile DEF Init, InterceptorTrail!Init, Files
<1>2. ASSUME TypeOK, Matched, [Next]_vars
      PROVE  [InterceptorTrail!Next]_<<Trail("agent"), replied>>
  <2>1. CASE UNCHANGED vars
    <3>1. \A c \in Calls : OnFile("agent", c)' = OnFile("agent", c)
      BY <2>1, SameOnFile DEF vars, Files
    <3>2. QED  BY <2>1, <3>1 DEF vars
  <2>2. CASE Next
    <3>1. PICK c \in Calls : StepKinds(c) /\ OthersAlone(c)  BY <1>2, <2>2, NextStep
    <3>2. \A e \in Calls \ {c} : OnFile("agent", e)' = OnFile("agent", e) /\ reply'[e] = reply[e]
      BY <3>1 DEF OthersAlone, Files
    <3>3. \/ OnFile("agent", c)' = OnFile("agent", c) /\ reply'[c] = reply[c]
          \/ /\ OnFile("agent", c) = {} /\ reply'[c] = reply[c]
             /\ OnFile("agent", c)' = {"blocked"}
          \/ /\ OnFile("agent", c) = {} /\ reply'[c] = reply[c]
             /\ OnFile("agent", c)' = {"allowed"}
          \/ /\ OnFile("agent", c) = {"allowed"} /\ reply[c] = "none" /\ reply'[c] # "none"
             /\ OnFile("agent", c)' = {"allowed"}
          \/ /\ OnFile("agent", c) = {"allowed"} /\ reply[c] # "none" /\ reply'[c] = reply[c]
             /\ OnFile("agent", c)' = {"allowed", "completed"}
      BY <1>2, <3>1 DEF Matched, CallMatched, StepKinds, Moves, Files2
    <3>a. ASSUME NEW x, OnFile("agent", c)' = x
          PROVE  Trail("agent")' = [Trail("agent") EXCEPT ![c] = x]
      BY <3>2, <3>a
    <3>b. ASSUME reply'[c] = reply[c] PROVE replied' = replied
      BY <3>2, <3>b
    <3>c. ASSUME OnFile("agent", c)' = OnFile("agent", c)
          PROVE  Trail("agent")' = Trail("agent")
      BY <3>2, <3>c
    <3>d. Trail("agent")[c] = OnFile("agent", c) /\ replied[c] = (reply[c] # "none")
      OBVIOUS
    <3>4. CASE OnFile("agent", c)' = OnFile("agent", c) /\ reply'[c] = reply[c]
      BY <3>b, <3>c, <3>4
    <3>5. CASE /\ OnFile("agent", c) = {} /\ reply'[c] = reply[c]
               /\ OnFile("agent", c)' = {"blocked"}
      BY <3>a, <3>b, <3>d, <3>5 DEF InterceptorTrail!Next, InterceptorTrail!Block
    <3>6. CASE /\ OnFile("agent", c) = {} /\ reply'[c] = reply[c]
               /\ OnFile("agent", c)' = {"allowed"}
      BY <3>a, <3>b, <3>d, <3>6 DEF InterceptorTrail!Next, InterceptorTrail!Allow
    <3>7. CASE /\ OnFile("agent", c) = {"allowed"} /\ reply[c] = "none" /\ reply'[c] # "none"
               /\ OnFile("agent", c)' = {"allowed"}
      <4>1. replied' = [replied EXCEPT ![c] = TRUE]  BY <3>2, <3>7
      <4>2. Trail("agent")' = Trail("agent")  BY <3>c, <3>7
      <4>3. ~replied[c] /\ Trail("agent")[c] = {"allowed"}  BY <3>d, <3>7
      <4>4. QED  BY <4>1, <4>2, <4>3 DEF InterceptorTrail!Next, InterceptorTrail!Run
    <3>8. CASE /\ OnFile("agent", c) = {"allowed"} /\ reply[c] # "none" /\ reply'[c] = reply[c]
               /\ OnFile("agent", c)' = {"allowed", "completed"}
      <4>1. Trail("agent")' = [Trail("agent") EXCEPT ![c] = {"allowed", "completed"}]
        BY <3>a, <3>8
      <4>2. replied' = replied  BY <3>b, <3>8
      <4>3. replied[c] /\ Trail("agent")[c] = {"allowed"}  BY <3>d, <3>8
      <4>4. QED  BY <4>1, <4>2, <4>3 DEF InterceptorTrail!Next, InterceptorTrail!Complete
    <3>9. QED  BY <3>3, <3>4, <3>5, <3>6, <3>7, <3>8
  <2>3. QED  BY <1>2, <2>1, <2>2
<1>3. QED
  BY <1>1, <1>2, TypeCorrect, TrailsMatched, PTL
     DEF Spec, InterceptorsLeaveATrail, InterceptorTrail!TrailSpec
-----------------------------------------------------------------------------
(* A result on its way to the agent is on file with the server; one the      *)
(* agent has given to its caller is on file with both.                       *)
CallAccounted(c) ==
  /\ pc[c] = "reply" /\ reply[c] = "result" =>
       ran[c] /\ OnFile("server", c) = {"allowed", "completed"}
  /\ agent[c] = "returned" => pc[c] = "over"
  /\ agent[c] = "returned" /\ reply[c] = "result" =>
       /\ ran[c] /\ OnFile("server", c) = {"allowed", "completed"}
       /\ OnFile("agent", c) = {"allowed", "completed"}
Accounted == \A c \in Calls : CallAccounted(c)

(* Only an interceptor that has written its second record returns a result.  *)
LEMMA ReturnIsRecorded ==
  ASSUME TypeOK, NEW c \in Calls,
         Interceptor(c) \/ Middleware(c) \/ ServerCrash(c) \/ AgentCrash(c)
  PROVE  /\ \A e \in Calls \ {c} : agent'[e] = agent[e]
         /\ \/ agent'[c] = agent[c] \/ agent'[c] # "returned"
            \/ /\ Moves(c, "reply", "over", reply[c], ran[c])
               /\ Files2(c, OnFile("agent", c) \cup {"completed"}, OnFile("server", c))
<1> USE DEF Goto, Reply, EndAs, Inputs, LogRaises
<1>t. /\ pc \in [Calls -> Steps] /\ agent \in [Calls -> {"waiting", "raised", "returned", "gone"}]
  BY DEF TypeOK
<1>1. CASE InterceptorCompletes(c)
  <2>1. ASSUME Logs("agent", c, "completed")
        PROVE  Files2(c, OnFile("agent", c) \cup {"completed"}, OnFile("server", c))
    BY <2>1, LogsOnFile DEF Files2, Files, Decisions
  <2>2. \A e \in Calls \ {c} : agent'[e] = agent[e]
    BY <1>t, <1>1 DEF InterceptorCompletes
  <2>3. Moves(c, "reply", "over", reply[c], ran[c])
    BY <1>t, <1>1 DEF InterceptorCompletes, Moves
  <2>4. agent'[c] = "raised" \/ Logs("agent", c, "completed")
    BY <1>t, <1>1 DEF InterceptorCompletes
  <2>5. QED  BY <2>1, <2>2, <2>3, <2>4
<1>2. CASE ~InterceptorCompletes(c)
  <2>1. \/ UNCHANGED agent
        \/ agent' = [agent EXCEPT ![c] = "raised"] \/ agent' = [agent EXCEPT ![c] = "gone"]
    BY <1>2 DEF Interceptor, InterceptorBlocks, InterceptorAllows, Sent, InterceptorRaises,
           ReplyIsLost, Middleware, MiddlewareBlocks, MiddlewareAllows, HandlerReturns,
           HandlerRaises, MiddlewareCompletes, ServerCrash, AgentCrash
  <2>2. QED  BY <1>t, <2>1
<1>3. QED  BY <1>1, <1>2

LEMMA NextAccounted == TypeOK /\ Matched /\ Accounted /\ [Next]_vars => Accounted'
<1> SUFFICES ASSUME TypeOK, Matched, Accounted, [Next]_vars PROVE Accounted'  OBVIOUS
<1>1. CASE UNCHANGED vars
  <2>1. \A g \in Files, e \in Calls : OnFile(g, e)' = OnFile(g, e)
    BY <1>1, SameOnFile DEF vars
  <2>2. QED  BY <1>1, <2>1 DEF vars, Accounted, CallAccounted, Files
<1>2. CASE Next
  <2>1. PICK c \in Calls : Interceptor(c) \/ Middleware(c) \/ ServerCrash(c) \/ AgentCrash(c)
    BY <1>2 DEF Next
  <2>2. StepKinds(c) /\ OthersAlone(c)
    BY <2>1, StepOfOneCall, StepIsOfAKind
  <2>3. /\ \A e \in Calls \ {c} : agent'[e] = agent[e]
        /\ \/ agent'[c] = agent[c] \/ agent'[c] # "returned"
           \/ /\ Moves(c, "reply", "over", reply[c], ran[c])
              /\ Files2(c, OnFile("agent", c) \cup {"completed"}, OnFile("server", c))
    BY <2>1, ReturnIsRecorded
  <2>4. CallMatched(c) /\ CallAccounted(c)
    BY DEF Matched, Accounted
  <2>5. CallAccounted(c)'
    <3>1. CASE agent'[c] = "returned" /\ agent[c] # "returned"
      BY <2>3, <2>4, <3>1 DEF CallMatched, CallAccounted, Moves, Files2
    <3>2. CASE agent'[c] = "returned" /\ agent[c] = "returned"
      BY <2>2, <2>4, <3>2 DEF StepKinds, CallAccounted, Moves, Files2
    <3>3. CASE agent'[c] # "returned"
      BY <2>2, <2>4, <3>3 DEF StepKinds, CallMatched, CallAccounted, Moves, Files2
    <3>4. QED  BY <3>1, <3>2, <3>3
  <2>6. ASSUME NEW e \in Calls, e # c PROVE CallAccounted(e)'
    BY <2>2, <2>3, <2>6 DEF Accounted, CallAccounted, OthersAlone, Files
  <2>7. QED  BY <2>5, <2>6 DEF Accounted
<1>3. QED  BY <1>1, <1>2

(* A result that reaches the agent's caller is accounted for in both files,  *)
(* for any number of concurrent calls, failed and short appends and crashes  *)
(* (server_middleware.py:86, client_interceptors.py:65).                     *)
THEOREM ResultsOnFile == Spec => []ResultsAccountedFor
<1>1. Init => Accounted
  BY DEF Init, Accounted, CallAccounted
<1>2. Accounted => ResultsAccountedFor
  BY DEF Accounted, CallAccounted, ResultsAccountedFor, Files
<1>3. QED  BY <1>1, <1>2, TypeCorrect, TrailsMatched, NextAccounted, PTL DEF Spec

-----------------------------------------------------------------------------
(* The records of a file no reader can make out, and whether the next one    *)
(* will be one of them.                                                      *)
Unreadable(f) == {<<f, i>> : i \in {n \in DOMAIN log[f] : ~Readable(f, n)}}
AllUnreadable == UNION {Unreadable(f) : f \in Files}
Torn(f) == Len(log[f]) > 0 /\ log[f][Len(log[f])].part = "head"
Pending(f) == IF Torn(f) THEN 1 ELSE 0

(* Each short write pays for its own record and for the one it will spoil.   *)
LossInv ==
  /\ IsFiniteSet(AllUnreadable)
  /\ Cardinality(AllUnreadable) + Pending("agent") + Pending("server") <= 2 * shorts

(* What one append adds to the records that cannot be read.                  *)
LEMMA AppendedLoss ==
  ASSUME TypeOK, NEW f \in Files, NEW c \in Calls, NEW d \in Decisions, NEW part \in Parts,
         Appended(f, c, d, part)
  PROVE  /\ \A g \in Files : g # f => Pending(g)' = Pending(g)
         /\ part = "whole" /\ ~Torn(f) => AllUnreadable' = AllUnreadable /\ ~Torn(f)'
         /\ \/ AllUnreadable' = AllUnreadable
            \/ \E x : AllUnreadable' = AllUnreadable \cup {x}
         /\ part = "whole" => ~Torn(f)'
<1> DEFINE r == [call |-> c, decision |-> d, part |-> part]
<1>n. PICK n : n = Len(log[f])
  OBVIOUS
<1>1. r \in Record /\ log[f] \in Seq(Record)  BY DEF TypeOK, Record, Parts
<1>2. log' = [log EXCEPT ![f] = Append(log[f], r)]  BY DEF Appended
<1>3. log'[f] = Append(log[f], r) /\ \A g \in Files : g # f => log'[g] = log[g]
  BY <1>2 DEF TypeOK
<1>4. Append(log[f], r) \in Seq(Record)
  BY <1>1, AppendProperties
<1>5. /\ n \in Nat /\ DOMAIN log[f] = 1..n
      /\ Len(log'[f]) = n + 1 /\ DOMAIN log'[f] = 1..(n + 1)
      /\ \A i \in 1..n : log'[f][i] = log[f][i]
      /\ log'[f][n + 1] = r
  BY <1>n, <1>1, <1>3, <1>4, AppendProperties, LenProperties
<1>6. r.part = part
  OBVIOUS
<1> HIDE DEF r
<1>7. \A g \in Files : g # f => Unreadable(g)' = Unreadable(g) /\ Torn(g)' = Torn(g)
  BY <1>3 DEF Unreadable, Readable, Torn
<1>8. \A i \in 1..n : Readable(f, i)' <=> Readable(f, i)
  <2>1. \A i \in 1..n : i > 1 => i - 1 \in 1..n
    BY <1>5
  <2>2. QED  BY <1>5, <2>1 DEF Readable
<1>9. Torn(f)' <=> part = "head"
  BY <1>5, <1>6 DEF Torn
<1>10. Torn(f) <=> n > 0 /\ log[f][n].part = "head"
  BY <1>n DEF Torn
<1>11. Readable(f, n + 1)' <=> part = "whole" /\ ~Torn(f)
  <2>1. n > 0 => n \in 1..n /\ log[f][n].part \in Parts /\ log'[f][n] = log[f][n]
    <3>1. n > 0 => n \in 1..n
      BY <1>5
    <3>2. \A i \in 1..n : log[f][i] \in Record
      BY <1>n, <1>1, ElementOfSeq
    <3>3. \A x \in Record : x.part \in Parts
      BY DEF Record, Parts
    <3>4. QED  BY <3>1, <3>2, <3>3, <1>5
  <2>2. Readable(f, n + 1)' <=>
          log'[f][n + 1].part = "whole" /\ (n + 1 > 1 => log'[f][n + 1 - 1].part = "whole")
    BY <1>5 DEF Readable
  <2>3. n + 1 - 1 = n /\ (n + 1 > 1 <=> n > 0)
    BY <1>5
  <2>4. n > 0 => (log'[f][n].part = "whole" <=> log[f][n].part # "head")
    BY <2>1 DEF Parts
  <2>5. QED  BY <1>5, <1>6, <1>10, <2>2, <2>3, <2>4
<1>12. Unreadable(f)' = Unreadable(f) \cup (IF Readable(f, n + 1)' THEN {} ELSE {<<f, n + 1>>})
  <2>1. \A i : i \in 1..(n + 1) <=> i \in 1..n \/ i = n + 1
    BY <1>5
  <2>2. {i \in DOMAIN log'[f] : ~Readable(f, i)'} =
          {i \in DOMAIN log[f] : ~Readable(f, i)} \cup (IF Readable(f, n + 1)' THEN {} ELSE {n + 1})
    BY <1>5, <1>8, <2>1
  <2>3. QED  BY <2>2 DEF Unreadable
<1>13. AllUnreadable' = AllUnreadable \cup (IF Readable(f, n + 1)' THEN {} ELSE {<<f, n + 1>>})
  BY <1>7, <1>12 DEF AllUnreadable
<1>14. QED  BY <1>7, <1>9, <1>11, <1>13 DEF Parts, Pending

LEMMA LogsLoss ==
  ASSUME TypeOK, LossInv, NEW f \in Files, NEW c \in Calls, NEW d \in Decisions, Logs(f, c, d)
  PROVE  LossInv'
<1>t. shorts \in Nat /\ shorts' \in Nat
  BY LogsOnFile, AuditAssumption DEF TypeOK
<1>p. /\ \A g \in Files : Pending(g) \in 0..1 /\ Pending(g)' \in 0..1
      /\ \A g \in Files : (Pending(g) = 1 <=> Torn(g)) /\ (Pending(g)' = 1 <=> Torn(g)')
  BY DEF Pending
<1>f. Files = {"agent", "server"}
  BY DEF Files
<1>1. PICK part \in Parts :
        /\ Appended(f, c, d, part)
        /\ shorts' = IF part = "head" THEN shorts + 1 ELSE shorts
  BY DEF Logs, Parts
<1>2. /\ \A g \in Files : g # f => Pending(g)' = Pending(g)
      /\ part = "whole" /\ ~Torn(f) => AllUnreadable' = AllUnreadable /\ ~Torn(f)'
      /\ \/ AllUnreadable' = AllUnreadable
         \/ \E x : AllUnreadable' = AllUnreadable \cup {x}
      /\ part = "whole" => ~Torn(f)'
  BY <1>1, AppendedLoss
<1>3. /\ IsFiniteSet(AllUnreadable') /\ Cardinality(AllUnreadable') \in Nat
      /\ Cardinality(AllUnreadable) \in Nat
      /\ Cardinality(AllUnreadable') <= Cardinality(AllUnreadable) + 1
  <2>1. IsFiniteSet(AllUnreadable) /\ Cardinality(AllUnreadable) \in Nat
    BY FS_CardinalityType DEF LossInv
  <2>2. CASE AllUnreadable' = AllUnreadable
    BY <2>1, <2>2
  <2>3. CASE AllUnreadable' # AllUnreadable
    <3>1. PICK x : AllUnreadable' = AllUnreadable \cup {x}
      BY <1>2, <2>3
    <3>2. /\ IsFiniteSet(AllUnreadable \cup {x})
          /\ \/ Cardinality(AllUnreadable \cup {x}) = Cardinality(AllUnreadable)
             \/ Cardinality(AllUnreadable \cup {x}) = Cardinality(AllUnreadable) + 1
      BY <2>1, FS_AddElement
    <3>3. QED  BY <2>1, <3>1, <3>2
  <2>4. QED  BY <2>2, <2>3
<1> DEFINE lost == Cardinality(AllUnreadable)
           lostNow == Cardinality(AllUnreadable')
<1>4. lost \in Nat /\ lostNow \in Nat /\ lostNow <= lost + 1
      /\ (AllUnreadable' = AllUnreadable => lostNow = lost)
      /\ lost + Pending("agent") + Pending("server") <= 2 * shorts
  BY <1>3 DEF LossInv
<1> HIDE DEF lost, lostNow
<1>5. lostNow + Pending("agent")' + Pending("server")' <= 2 * shorts'
  <2>1. CASE part = "head"
    <3>1. shorts' = shorts + 1
      BY <1>1, <2>1
    <3>2. CASE f = "agent"
      BY <1>t, <1>p, <1>f, <1>2, <1>4, <3>1, <3>2
    <3>3. CASE f = "server"
      BY <1>t, <1>p, <1>f, <1>2, <1>4, <3>1, <3>3
    <3>4. QED  BY <1>f, <3>2, <3>3
  <2>2. CASE part = "whole"
    <3>1. shorts' = shorts /\ Pending(f)' = 0
      BY <1>1, <1>p, <1>2, <2>2
    <3>2. lostNow <= lost + Pending(f)
      BY <1>p, <1>2, <1>4, <2>2
    <3>3. CASE f = "agent"
      BY <1>t, <1>p, <1>f, <1>2, <1>4, <3>1, <3>2, <3>3
    <3>4. CASE f = "server"
      BY <1>t, <1>p, <1>f, <1>2, <1>4, <3>1, <3>2, <3>4
    <3>5. QED  BY <1>f, <3>3, <3>4
  <2>3. QED  BY <2>1, <2>2 DEF Parts
<1>6. QED  BY <1>3, <1>5 DEF LossInv, lostNow

LEMMA NextLoss == TypeOK /\ LossInv /\ [Next]_vars => LossInv'
<1> SUFFICES ASSUME TypeOK, LossInv, [Next]_vars PROVE LossInv'  OBVIOUS
<1>1. CASE UNCHANGED <<log, shorts>>
  BY <1>1 DEF LossInv, AllUnreadable, Unreadable, Readable, Pending, Torn
<1>2. CASE ~UNCHANGED <<log, shorts>>
  <2>1. PICK c \in Calls : Interceptor(c) \/ Middleware(c) \/ ServerCrash(c) \/ AgentCrash(c)
    BY <1>2 DEF Next, vars
  <2>2. \E f \in Files, d \in Decisions : Logs(f, c, d)
    BY <1>2, <2>1 DEF Files, Decisions, LogRaises, Reply, Goto, Interceptor, InterceptorBlocks,
         InterceptorAllows, Sent, InterceptorRaises, InterceptorCompletes, ReplyIsLost,
         Middleware, MiddlewareBlocks, MiddlewareAllows, Allowed, HandlerReturns,
         HandlerRaises, MiddlewareCompletes, Completed, ServerCrash, AgentCrash
  <2>3. QED  BY <2>2, LogsLoss
<1>3. QED  BY <1>1, <1>2

(* A short write costs a reader two records at most, whoever else appends to *)
(* the files, for any number of calls, short writes and crashes (audit.py:24). *)
THEOREM LossIsBounded == Spec => []LossBounded
<1>1. Init => LossInv
  <2> SUFFICES ASSUME Init PROVE LossInv  OBVIOUS
  <2>1. \A f \in Files : log[f] = <<>>  BY DEF Init
  <2>2. \A f \in Files : DOMAIN log[f] = {} /\ Len(log[f]) = 0  BY <2>1
  <2>3. \A f \in Files : Unreadable(f) = {} /\ Pending(f) = 0
    BY <2>2 DEF Unreadable, Pending, Torn
  <2>4. AllUnreadable = {}  BY <2>3 DEF AllUnreadable
  <2>5. shorts = 0 /\ "agent" \in Files /\ "server" \in Files  BY DEF Init, Files
  <2>6. QED  BY <2>3, <2>4, <2>5, FS_EmptySet DEF LossInv
<1>2. TypeOK /\ LossInv => LossBounded
  <2> SUFFICES ASSUME TypeOK, LossInv PROVE LossBounded  OBVIOUS
  <2>1. LossBounded <=> Cardinality(AllUnreadable) <= 2 * shorts
    BY DEF LossBounded, AllUnreadable, Unreadable
  <2>2. Cardinality(AllUnreadable) \in Nat /\ shorts \in Nat
    BY FS_CardinalityType, AuditAssumption DEF LossInv, TypeOK
  <2>3. Pending("agent") \in 0..1 /\ Pending("server") \in 0..1  BY DEF Pending
  <2>4. QED  BY <2>1, <2>2, <2>3 DEF LossInv
<1>3. QED  BY <1>1, <1>2, TypeCorrect, NextLoss, PTL DEF Spec
=============================================================================
