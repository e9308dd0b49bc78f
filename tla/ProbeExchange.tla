--------------------------- MODULE ProbeExchange ---------------------------
(***************************************************************************)
(* One probe of an AI target or an endpoint, as judged by the server       *)
(* (probes.ts) and by an agent (main.go).  Both are given the same         *)
(* response, cut into the same reads: two implementations, in two          *)
(* languages, of one verdict, which alerts of different locations compare. *)
(*                                                                         *)
(* A body is a sequence of fragments: "da" followed by "ta" is the marker  *)
(* `data:`, which a read may cut in two, "end" stands for `[DONE]` or      *)
(* `choices`, "x" for anything else.  A limit counts fragments.            *)
(***************************************************************************)
EXTENDS Integers, Sequences

CONSTANTS ServerLimit, AgentLimit,  \* the longest stream each accepts
          BodyLimit,                \* how much of a body an agent reads
          MaxReads, MaxRead         \* bounds: reads of a response, their length

VARIABLES response, server, agent
vars == <<response, server, agent>>

Fragment == {"da", "ta", "end", "x"}
Read == UNION {[1..k -> Fragment] : k \in 1..MaxRead}
Cuts == UNION {[1..k -> Read] : k \in 0..MaxReads}

\* How the reads end; `unreachable` and `refused` (a status that is not the
\* one expected) come before any.
Ending == {"eof", "broken", "timeout"}
Response ==
  [kind : {"ai", "endpoint", "head"}, status : {"expected", "refused", "unreachable"},
   reads : Seq(Seq(Fragment)), ending : Ending]

Length == LET f[i \in 0..Len(response.reads)] ==
                IF i = 0 THEN 0 ELSE f[i - 1] + Len(response.reads[i])
          IN f[Len(response.reads)]

Observer ==
  [step : {"reading", "balance", "done"}, pos : 0..MaxReads,
   payload : Seq(Fragment), success : BOOLEAN, error : BOOLEAN]

\* payload.includes("data:") && (payload.includes("[DONE]") || ...("choices"))
Valid(payload) ==
  /\ \E i \in 1..Len(payload) - 1 : payload[i] = "da" /\ payload[i + 1] = "ta"
  /\ \E i \in DOMAIN payload : payload[i] = "end"

\* The markers are looked for in each read by itself.
FaultyServerValid(payload) ==
  \E i \in DOMAIN response.reads :
    /\ \E j \in 1..Len(response.reads[i]) - 1 :
         response.reads[i][j] = "da" /\ response.reads[i][j + 1] = "ta"
    /\ \E j \in DOMAIN payload : payload[j] = "end"
ServerValid(payload) == Valid(payload)

Failed(o) == [o EXCEPT !.step = "done", !.success = FALSE, !.error = TRUE]
HasMore(o) == o.pos < Len(response.reads)
NextRead(o) == [o EXCEPT !.pos = @ + 1, !.payload = @ \o response.reads[o.pos + 1]]

-----------------------------------------------------------------------------
(* The server.                                                             *)

\* The stream has ended: success is settled before the balance is asked for.
Answered(o) ==
  [o EXCEPT !.step = "balance", !.success = ServerValid(o.payload), !.error = ~ServerValid(o.payload)]

RunAiCheck ==
  /\ response.kind = "ai" /\ server.step = "reading"
  /\ server' = IF response.status # "expected" THEN Failed(server)
               ELSE IF HasMore(server)
                    THEN IF Len(NextRead(server).payload) > ServerLimit
                         THEN Failed(NextRead(server)) ELSE NextRead(server)
                    ELSE IF response.ending = "eof" THEN Answered(server) ELSE Failed(server)
  /\ UNCHANGED <<response, agent>>

\* The balance is not due, fetched, or refused; or fetching it throws, which
\* leaves a message with the result.
RunBalanceCheck ==
  /\ server.step = "balance"
  /\ \E thrown \in BOOLEAN :
       server' = [server EXCEPT !.step = "done", !.error = @ \/ thrown]
  /\ UNCHANGED <<response, agent>>

\* fetch, and response.arrayBuffer() unless the method is HEAD.
RunEndpointCheck ==
  /\ response.kind # "ai" /\ server.step = "reading"
  /\ LET read == response.kind = "head" \/ response.ending = "eof"
         success == response.status = "expected" /\ read
     IN server' = [server EXCEPT !.step = "done", !.success = success, !.error = ~success]
  /\ UNCHANGED <<response, agent>>

-----------------------------------------------------------------------------
(* The agent.                                                              *)

ProbeAI ==
  /\ response.kind = "ai" /\ agent.step = "reading"
  /\ agent' = IF response.status # "expected" THEN Failed(agent)
              ELSE IF HasMore(agent)
                   THEN IF Len(NextRead(agent).payload) > AgentLimit
                        THEN Failed(NextRead(agent)) ELSE NextRead(agent)
                   ELSE LET success == response.ending = "eof" /\ Valid(agent.payload)
                        IN [agent EXCEPT !.step = "done", !.success = success, !.error = ~success]
  /\ UNCHANGED <<response, server>>

\* io.Copy reads no further than the limit, and a HEAD response has no body.
ProbeEndpoint ==
  /\ response.kind # "ai" /\ agent.step = "reading"
  /\ LET read == response.kind = "head" \/ response.ending = "eof" \/ Length >= BodyLimit
         success == response.status = "expected" /\ read
     IN agent' = [agent EXCEPT !.step = "done", !.success = success, !.error = ~success]
  /\ UNCHANGED <<response, server>>

Start == [step |-> "reading", pos |-> 0, payload |-> <<>>, success |-> FALSE, error |-> FALSE]

Init ==
  /\ \E kind \in {"ai", "endpoint", "head"}, ending \in Ending :
       \/ \E reads \in Cuts :
            response = [kind |-> kind, status |-> "expected", reads |-> reads, ending |-> ending]
       \/ \E status \in {"refused", "unreachable"} :
            response = [kind |-> kind, status |-> status, reads |-> <<>>, ending |-> ending]
  /\ server = Start /\ agent = Start

Next == RunAiCheck \/ RunBalanceCheck \/ RunEndpointCheck \/ ProbeAI \/ ProbeEndpoint

Spec == Init /\ [][Next]_vars

-----------------------------------------------------------------------------
TypeOK ==
  /\ response \in Response /\ server \in Observer /\ agent \in Observer
  /\ Len(server.payload) <= Length /\ Len(agent.payload) <= Length

Done == server.step = "done" /\ agent.step = "done"

\* Server and agent judge the same response alike, wherever reads cut it and
\* however it ends; except streams between their two limits, and bodies that
\* break where the agent no longer reads.
VerdictsAgree ==
  Done /\ (response.kind = "ai" => Length <= ServerLimit \/ Length > AgentLimit)
       /\ (response.kind = "endpoint" => Length < BodyLimit)
    => server.success = agent.success
=============================================================================

