----------------------------- MODULE HttpOutbound -----------------------------
(***************************************************************************)
(* What HttpClient.fetch does on the network when the cache does not       *)
(* answer (mcp_core/http_client.py): pacing per host, the request, the     *)
(* redirects followed, the body read chunk by chunk under a size cap, and  *)
(* the transport's timeout, which bounds each socket operation.            *)
(*                                                                         *)
(* Several processes (servers, or one stdio server process per tool call)  *)
(* talk to the same hosts; each keeps its own pacing table in memory, so a *)
(* restart loses it.  Origins are free to answer, dribble, redirect, fail  *)
(* or stay silent.                                                         *)
(***************************************************************************)
EXTENDS Integers

CONSTANTS
  Procs, Hosts,
  Interval,    \* ticks between requests to a host; 0 when pacing is off
  AgeCap,      \* ages from AgeCap on are not told apart, nor from "never"
  Timeout,     \* HTTP_TIMEOUT_SECONDS, in ticks
  MaxBytes,    \* HTTP_MAX_BYTES
  ChunkSizes,  \* sizes of the chunks of a body
  MaxHops,     \* the transport's max_redirects
  Addresses,   \* most addresses a host name resolves to
  IdleCap,     \* reads nobody counts are not told apart from IdleCap on
  Horizon      \* elapsed times from Horizon on are not told apart

ASSUME OutboundAssumption ==
  /\ {Interval, AgeCap, MaxBytes, MaxHops, IdleCap, Horizon} \subseteq Nat
  /\ Interval <= AgeCap
  /\ {Timeout, Addresses} \subseteq Nat \ {0}
  /\ ChunkSizes \subseteq Nat \ {0}

VARIABLES
  job,      \* [Procs -> Job]: the fetch a process is in, or its last one
  lastReq,  \* [Procs -> [Hosts -> Ages]]: _host_last_request
  sent,     \* history: ages of the last two paced requests, per process and host
  since     \* history: age of the last request of anybody, per host

vars == <<job, lastReq, sent, since>>

Ages == 0..AgeCap
Older(a) == IF a < AgeCap THEN a + 1 ELSE a
Upto(cap, n) == IF n < cap THEN n + 1 ELSE n

(* The transport looks the host up, connects to one of its addresses after   *)
(* the other, shakes hands, writes the request, reads the head and a         *)
(* redirect's body; the body of the answer is fetch's to read.  A connection *)
(* the pool has kept is the first three in no time.                          *)
Waits == {"connect", "tls", "write", "head", "redirect", "body"}
Outgoing == {"lookup", "connect", "tls", "write"}
Results == {"none", "ok", "timeout", "tooBig", "tooManyRedirects", "failed"}

(* Socket operations of one hop that have an end of their own: a connect per *)
(* address, the handshake, the write, the ends of head and redirect.         *)
HopOps == Addresses + 4

(* hops: redirects followed.  ops: such operations completed in this hop.    *)
(* got: fetch's total.  idle: reads that brought bytes nobody counts, a      *)
(* history.  silent: time in the current socket operation.  elapsed: time in *)
(* all of them so far.                                                       *)
Job == [pc : {"idle", "limit"} \cup Outgoing \cup Waits, host : Hosts,
        hops : 0..MaxHops, ops : 0..HopOps, got : 0..MaxBytes, idle : 0..IdleCap,
        silent : 0..Timeout, elapsed : 0..Horizon, result : Results]
NewJob(pc, h, result) ==
  [pc |-> pc, host |-> h, hops |-> 0, ops |-> 0, got |-> 0, idle |-> 0,
   silent |-> 0, elapsed |-> 0, result |-> result]
NeverSent == [last |-> AgeCap, before |-> AgeCap]

Init ==
  /\ job \in [Procs -> {NewJob("idle", h, "none") : h \in Hosts}]
  /\ lastReq = [p \in Procs |-> [h \in Hosts |-> AgeCap]]
  /\ sent = [p \in Procs |-> [h \in Hosts |-> NeverSent]]
  /\ since = [h \in Hosts |-> AgeCap]

At(p, pc) == job[p].pc = pc
Finish(p, result) == job' = [job EXCEPT ![p] = NewJob("idle", job[p].host, result)]

------------------------------------------------------------------------------
(* fetch misses the cache and enters _rate_limit.                            *)
Fetch(p, h) ==
  /\ At(p, "idle")
  /\ job' = [job EXCEPT ![p] = NewJob("limit", h, "none")]
  /\ UNCHANGED <<lastReq, sent, since>>

(* _rate_limit sleeps until Interval has passed since the last stamp of this *)
(* process for the host, then stamps.  With pacing off it returns at once.   *)
\* mutant: only the first request to a host is stamped
StampedOnce(p, h) ==
  [lastReq EXCEPT ![p][h] = IF @ = AgeCap THEN 0 ELSE @]
Stamped(p, h) == [lastReq EXCEPT ![p][h] = 0]

Pace(p) ==
  LET h == job[p].host IN
  /\ At(p, "limit")
  /\ lastReq[p][h] >= Interval
  /\ lastReq' = IF Interval > 0 THEN Stamped(p, h) ELSE lastReq
  /\ job' = [job EXCEPT ![p].pc = "lookup"]
  /\ UNCHANGED <<sent, since>>

(* The resolver answers; the transport has no timeout for it.                *)
Resolve(p) ==
  /\ At(p, "lookup")
  /\ job' = [job EXCEPT ![p].pc = "connect"]
  /\ UNCHANGED <<lastReq, sent, since>>

(* An operation is over and the next begins, with the whole timeout again.   *)
Completed(p, pc) == job' = [job EXCEPT ![p].pc = pc, ![p].ops = @ + 1, ![p].silent = 0]

(* An address that refuses, or does not answer in time, gives way to the     *)
(* next one.                                                                 *)
NextAddress(p) ==
  /\ At(p, "connect")
  /\ job[p].ops + 1 < Addresses
  /\ Completed(p, "connect")
  /\ UNCHANGED <<lastReq, sent, since>>

(* The connection is there; the handshake is over (or the scheme is http).   *)
Connected(p) ==
  /\ \/ At(p, "connect") /\ Completed(p, "tls")
     \/ At(p, "tls") /\ Completed(p, "write")
  /\ UNCHANGED <<lastReq, sent, since>>

(* The request is out; only the first of a fetch was paced.                  *)
Send(p) ==
  LET h == job[p].host IN
  /\ At(p, "write")
  /\ Completed(p, "head")
  /\ sent' = IF job[p].hops > 0 THEN sent ELSE
       [sent EXCEPT ![p][h] = [last |-> 0, before |-> @.last]]
  /\ since' = [since EXCEPT ![h] = 0]
  /\ UNCHANGED lastReq

(* The head is complete: fetch iterates over the body, except that the       *)
(* transport reads the body of a redirect itself.                            *)
HeadDone(p, next) ==
  /\ At(p, "head")
  /\ Completed(p, next)
  /\ UNCHANGED <<lastReq, sent, since>>

(* Reads that nobody counts: a piece of a head, interim responses (1xx)      *)
(* included; a piece of a redirect's body; a piece of the body that decodes  *)
(* to nothing (`if not chunk: continue`).  Each starts a new timeout.        *)
Uncounted(p) ==
  /\ job[p].pc \in {"head", "redirect", "body"}
  /\ job' = [job EXCEPT ![p].idle = Upto(IdleCap, @), ![p].silent = 0]
  /\ UNCHANGED <<lastReq, sent, since>>

(* A chunk of the body.  fetch adds it up and gives up above the cap.        *)
AddLast(total, n) == n       \* mutant: total is the last chunk's length
Add(total, n) == total + n

Chunk(p, n) ==
  LET total == Add(job[p].got, n) IN
  /\ At(p, "body")
  /\ IF total > MaxBytes
     THEN Finish(p, "tooBig")
     ELSE job' = [job EXCEPT ![p].got = total, ![p].silent = 0]
  /\ UNCHANGED <<lastReq, sent, since>>

BodyDone(p) ==
  /\ At(p, "body")
  /\ Finish(p, "ok")
  /\ UNCHANGED <<lastReq, sent, since>>

(* The redirect's body is read: it is followed at once, without _rate_limit. *)
MayFollowOneMore(p) == job[p].hops <= MaxHops   \* mutant: one redirect too many
MayFollow(p) == job[p].hops < MaxHops

Follow(p, h) ==
  /\ At(p, "redirect")
  /\ IF MayFollow(p)
     THEN job' = [job EXCEPT ![p].pc = "lookup", ![p].host = h, ![p].hops = @ + 1,
                             ![p].ops = 0, ![p].silent = 0]
     ELSE Finish(p, "tooManyRedirects")
  /\ UNCHANGED <<lastReq, sent, since>>

(* A socket operation takes Timeout, or fails, as may the lookup.            *)
TimeOut(p) ==
  /\ job[p].pc \in Waits
  /\ job[p].silent = Timeout
  /\ Finish(p, "timeout")
  /\ UNCHANGED <<lastReq, sent, since>>

Fail(p) ==
  /\ job[p].pc \in Outgoing \cup Waits
  /\ Finish(p, "failed")
  /\ UNCHANGED <<lastReq, sent, since>>

(* The process ends, at rest or not, and another takes its place: the        *)
(* pacing table starts empty.                                                *)
Restart(p) ==
  /\ job' = [job EXCEPT ![p] = NewJob("idle", job[p].host, "none")]
  /\ lastReq' = [lastReq EXCEPT ![p] = [h \in Hosts |-> AgeCap]]
  /\ sent' = [sent EXCEPT ![p] = [h \in Hosts |-> NeverSent]]
  /\ UNCHANGED since

(* Time passes; a timeout that is due is not late.                           *)
Waited(j) ==
  IF j.pc \in Waits
  THEN [j EXCEPT !.silent = @ + 1, !.elapsed = Upto(Horizon, @)]
  ELSE j
Tick ==
  /\ \A p \in Procs : job[p].pc \in Waits => job[p].silent < Timeout
  /\ job' = [p \in Procs |-> Waited(job[p])]
  /\ lastReq' = [p \in Procs |-> [h \in Hosts |-> Older(lastReq[p][h])]]
  /\ sent' = [p \in Procs |-> [h \in Hosts |->
       [last |-> Older(sent[p][h].last), before |-> Older(sent[p][h].before)]]]
  /\ since' = [h \in Hosts |-> Older(since[h])]

Step(p) ==
  \/ \E h \in Hosts : Fetch(p, h) \/ Follow(p, h)
  \/ Pace(p)
  \/ Resolve(p)
  \/ NextAddress(p)
  \/ Connected(p)
  \/ Send(p)
  \/ \E next \in {"body", "redirect"} : HeadDone(p, next)
  \/ Uncounted(p)
  \/ \E n \in ChunkSizes : Chunk(p, n)
  \/ BodyDone(p)
  \/ TimeOut(p)
  \/ Fail(p)
  \/ Restart(p)

Next == Tick \/ \E p \in Procs : Step(p)

(* Time passes, a sleep ends, the resolver answers or gives up, a timeout    *)
(* that is due fires.  An origin owes nothing: not an answer, nor its end.   *)
Fairness == WF_vars(Tick) /\ \A p \in Procs :
  WF_vars(Pace(p)) /\ WF_vars(Resolve(p)) /\ WF_vars(TimeOut(p))
Spec == Init /\ [][Next]_vars /\ Fairness

------------------------------------------------------------------------------
TypeOK ==
  /\ job \in [Procs -> Job]
  /\ lastReq \in [Procs -> [Hosts -> Ages]]
  /\ sent \in [Procs -> [Hosts -> [last : Ages, before : Ages]]]
  /\ since \in [Hosts -> Ages]

(* README.md:64 and config.py:33: a maximum of requests per second and host. *)
(* Not so: _rate_limit (http_client.py:54-64) is called once per fetch and   *)
(* before the connection is there, so the requests of redirects are not      *)
(* paced, and two paced ones may go out close together.                      *)
RateAsDocumented ==
  [][\A p \in Procs : Send(p) => since[job[p].host] >= Interval]_vars

(* What is left of it: of three paced requests of one process to one host,   *)
(* the first and the third are Interval apart, since each stamp of           *)
(* _rate_limit is taken Interval after the last and before its request.      *)
NoBurst == \A p \in Procs :
  job[p].pc \in Outgoing /\ job[p].hops = 0 => sent[p][job[p].host].before >= Interval

(* config.py:43: a timeout per request.  Not so: httpx.Client(timeout=...)   *)
(* (http_client.py:35-37) gives each socket operation of it that time.       *)
RequestsTimeOut == \A p \in Procs : job[p].hops = 0 => job[p].elapsed <= Timeout

(* What is left of it: the time of a fetch on its sockets is Timeout for     *)
(* each operation: those of the redirects followed and of this hop, one for  *)
(* each byte under the size cap (http_client.py:176-182), the one under way, *)
(* and one for each read that nobody counts, which nothing bounds.           *)
DurationBound == \A p \in Procs :
  job[p].idle < IdleCap => job[p].elapsed <=
    Timeout * (job[p].hops * HopOps + job[p].ops + job[p].got + job[p].idle + 1)

(* A fetch goes on for ever only while its origin feeds it, again and again, *)
(* what nobody counts: silence, content without end (:177) and redirects in  *)
(* a circle (:36) end it.                                                    *)
FetchEnds == \A p \in Procs :
  (job[p].pc # "idle" ~> job[p].pc = "idle") \/ []<><<Uncounted(p)>>_vars
==============================================================================
