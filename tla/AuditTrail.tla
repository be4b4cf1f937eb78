------------------------------- MODULE AuditTrail -------------------------------
(***************************************************************************)
(* What an audit file promises about the calls that go through one gate,   *)
(* whatever becomes of the processes: a call is blocked or allowed, never  *)
(* both; what the gate guards runs only after the call was recorded as     *)
(* allowed; the call is recorded as completed only after that ended.       *)
(***************************************************************************)
CONSTANT Calls

VARIABLES
  trail,  \* [Calls -> Trails]: the decisions on file for a call
  ran     \* [Calls -> BOOLEAN]: what the gate guards ran to its end

Trails == {{}, {"blocked"}, {"allowed"}, {"allowed", "completed"}}

Init ==
  /\ trail = [c \in Calls |-> {}]
  /\ ran = [c \in Calls |-> FALSE]

Block(c) ==
  /\ trail[c] = {}
  /\ trail' = [trail EXCEPT ![c] = {"blocked"}]
  /\ UNCHANGED ran

Allow(c) ==
  /\ trail[c] = {}
  /\ trail' = [trail EXCEPT ![c] = {"allowed"}]
  /\ UNCHANGED ran

Run(c) ==
  /\ trail[c] = {"allowed"} /\ ~ran[c]
  /\ ran' = [ran EXCEPT ![c] = TRUE]
  /\ UNCHANGED trail

Complete(c) ==
  /\ trail[c] = {"allowed"} /\ ran[c]
  /\ trail' = [trail EXCEPT ![c] = {"allowed", "completed"}]
  /\ UNCHANGED ran

Next == \E c \in Calls : Block(c) \/ Allow(c) \/ Run(c) \/ Complete(c)

TrailSpec == Init /\ [][Next]_<<trail, ran>>
==============================================================================
