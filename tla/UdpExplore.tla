----------------------------- MODULE UdpExplore -----------------------------
(* src/tools/udpexplore.c: send UDP probes with growing TTL and note which   *)
(* routers answer that the TTL expired.  An arriving ICMP packet is queued   *)
(* in the socket and raises SIGIO; the handler, which may run between any    *)
(* two steps of main, sets one flag.  A probe and its random target are one  *)
(* here: targets are told apart by the probe that is sent to them.           *)
EXTENDS Naturals, Sequences, FiniteSets

CONSTANTS Hosts,      \* the routers that may answer
          Number,     \* probes per TTL (-n)
          MaxTtl,     \* the last TTL tried (-T)
          MaxNoise    \* bound: irrelevant ICMP packets that may arrive

ASSUME UdpExploreAssumption ==
  /\ IsFiniteSet(Hosts) /\ Number \in Nat /\ MaxTtl \in Nat /\ MaxNoise \in Nat

VARIABLES pc,             \* where main and recv_udp_response are
          ttl, iTarget,   \* the two loops
          loop,           \* which of the two reading loops is running
          flag,           \* icmp_packet_to_read is SIGIO
          resp,           \* the answer found for the probe
          responses,      \* distinct answering hosts of this TTL
          inflight,       \* answers on their way
          sockq,          \* packets queued in the raw ICMP socket
          noise,          \* irrelevant packets so far
          read, shown     \* history: answers read, and results that show one

vars == <<pc, ttl, iTarget, loop, flag, resp, responses, inflight, sockq, noise, read, shown>>

Probe == (1..MaxTtl) \X (0..(Number - 1))
Answer == [kind : {"expired"}, probe : Probe, host : Hosts]
Noise == [kind |-> "other"]
NoAnswer == [kind |-> "timeout"]      \* shown as "*"

current == <<ttl, iTarget>>

Init ==
  /\ pc = "ttl" /\ ttl = 0 /\ iTarget = 0 /\ loop = "before"
  /\ flag = FALSE /\ resp = NoAnswer /\ responses = <<>>
  /\ inflight = {} /\ sockq = <<>> /\ noise = 0
  /\ read = 0 /\ shown = 0

-----------------------------------------------------------------------------
(* The network: an answer arrives after any delay, in any order or not at    *)
(* all; its signal runs the handler and cuts a nanosleep short.              *)

Arrive(p) ==
  /\ sockq' = Append(sockq, p)
  /\ flag' = TRUE
  /\ pc' = IF pc = "sleep" THEN "woken" ELSE pc
  /\ UNCHANGED <<ttl, iTarget, loop, resp, responses, read, shown>>

AnswerArrives ==
  /\ pc # "done"
  /\ \E a \in inflight : Arrive(a) /\ inflight' = inflight \ {a}
  /\ UNCHANGED noise

NoiseArrives ==
  /\ pc # "done" /\ noise < MaxNoise
  /\ Arrive(Noise) /\ noise' = noise + 1
  /\ UNCHANGED inflight

-----------------------------------------------------------------------------
(* main's two loops.                                                         *)

(* Seeded fault: the count of answering hosts is not reset.                  *)
NextTtlKeeps ==
  /\ pc = "ttl" /\ Len(responses) <= 2 /\ ttl < MaxTtl
  /\ ttl' = ttl + 1 /\ iTarget' = 0
  /\ pc' = "target"
  /\ UNCHANGED <<loop, flag, resp, responses, inflight, sockq, noise, read, shown>>

(* Seeded fault: current_ttl is not incremented.                             *)
NextTtlSame ==
  /\ pc = "ttl" /\ Len(responses) <= 2 /\ ttl < MaxTtl
  /\ ttl' = 1 /\ iTarget' = 0 /\ responses' = <<>>
  /\ pc' = "target"
  /\ UNCHANGED <<loop, flag, resp, inflight, sockq, noise, read, shown>>

NextTtl ==
  /\ pc = "ttl" /\ Len(responses) <= 2 /\ ttl < MaxTtl
  /\ ttl' = ttl + 1 /\ iTarget' = 0 /\ responses' = <<>>
  /\ pc' = "target"
  /\ UNCHANGED <<loop, flag, resp, inflight, sockq, noise, read, shown>>

Finish ==
  /\ pc = "ttl" /\ ~(Len(responses) <= 2 /\ ttl < MaxTtl)
  /\ pc' = "done"
  /\ UNCHANGED <<ttl, iTarget, loop, flag, resp, responses, inflight, sockq, noise, read, shown>>

MoreTargets == iTarget < Number

TargetsDone ==
  /\ pc = "target" /\ ~MoreTargets
  /\ pc' = "ttl"
  /\ UNCHANGED <<ttl, iTarget, loop, flag, resp, responses, inflight, sockq, noise, read, shown>>

(* send_udp_probe, tried until it succeeds; the network decides whether a    *)
(* router will answer, and which.                                            *)
SendProbe ==
  /\ pc = "target" /\ MoreTargets
  /\ \/ UNCHANGED inflight
     \/ \E h \in Hosts :
          inflight' = inflight \cup {[kind |-> "expired", probe |-> current, host |-> h]}
  /\ loop' = "before" /\ pc' = "test"
  /\ UNCHANGED <<ttl, iTarget, flag, resp, responses, sockq, noise, read, shown>>

-----------------------------------------------------------------------------
(* recv_udp_response: one loop reads before nanosleep and one after each     *)
(* interruption of it.                                                       *)

TestFlag ==
  /\ pc = "test"
  /\ pc' = IF flag THEN "clear" ELSE "presleep"
  /\ UNCHANGED <<ttl, iTarget, loop, flag, resp, responses, inflight, sockq, noise, read, shown>>

ClearFlag ==
  /\ pc = "clear"
  /\ flag' = FALSE /\ pc' = "inspect"
  /\ UNCHANGED <<ttl, iTarget, loop, resp, responses, inflight, sockq, noise, read, shown>>

(* The checks of inspect_icmp_packet: the type, the ports, and that the      *)
(* quoted packet has the id that send_udp_probe gives the packets to its     *)
(* destination.  Nothing compares that destination with the current target.  *)
Relevant(p) == p.kind = "expired"

(* Seeded fault: an answer read after an interruption does not end the wait. *)
InspectGoesOn ==
  /\ pc = "inspect"
  /\ IF sockq # <<>> /\ Relevant(Head(sockq))
     THEN /\ resp' = Head(sockq) /\ read' = read + 1
          /\ pc' = IF loop = "before" THEN "record" ELSE "test"
     ELSE /\ pc' = "test" /\ UNCHANGED <<resp, read>>
  /\ sockq' = IF sockq = <<>> THEN sockq ELSE Tail(sockq)
  /\ UNCHANGED <<ttl, iTarget, loop, flag, responses, inflight, noise, shown>>

(* One packet is read per signal seen.  An answer ends the first loop at     *)
(* once, and the second after the rest of the sleep.                         *)
Inspect ==
  /\ pc = "inspect"
  /\ IF sockq # <<>> /\ Relevant(Head(sockq))
     THEN /\ resp' = Head(sockq) /\ read' = read + 1
          /\ pc' = IF loop = "before" THEN "record" ELSE "rest"
     ELSE /\ pc' = "test" /\ UNCHANGED <<resp, read>>
  /\ sockq' = IF sockq = <<>> THEN sockq ELSE Tail(sockq)
  /\ UNCHANGED <<ttl, iTarget, loop, flag, responses, inflight, noise, shown>>

(* nanosleep does not look at the flag: a signal before it is not noticed.   *)
Sleep ==
  /\ pc = "presleep"
  /\ pc' = "sleep" /\ loop' = "after"
  /\ UNCHANGED <<ttl, iTarget, flag, resp, responses, inflight, sockq, noise, read, shown>>

Woken ==
  /\ pc = "woken"
  /\ pc' = "test"
  /\ UNCHANGED <<ttl, iTarget, loop, flag, resp, responses, inflight, sockq, noise, read, shown>>

TimeIsUp ==
  /\ pc = "sleep"
  /\ resp' = NoAnswer /\ pc' = "record"
  /\ UNCHANGED <<ttl, iTarget, loop, flag, responses, inflight, sockq, noise, read, shown>>

RestIsOver ==
  /\ pc = "rest"
  /\ pc' = "record"
  /\ UNCHANGED <<ttl, iTarget, loop, flag, resp, responses, inflight, sockq, noise, read, shown>>

Known(h) == \E i \in DOMAIN responses : responses[i] = h

(* The result is noted and printed.                                          *)
Record ==
  /\ pc = "record"
  /\ responses' = IF resp # NoAnswer /\ ~Known(resp.host)
                  THEN Append(responses, resp.host) ELSE responses
  /\ shown' = IF resp # NoAnswer THEN shown + 1 ELSE shown
  /\ resp' = NoAnswer
  /\ iTarget' = iTarget + 1 /\ pc' = "target"
  /\ UNCHANGED <<ttl, loop, flag, inflight, sockq, noise, read>>

Main == \/ NextTtl \/ Finish \/ TargetsDone \/ SendProbe
        \/ TestFlag \/ ClearFlag \/ Inspect \/ Sleep \/ Woken
        \/ TimeIsUp \/ RestIsOver \/ Record

Next == Main \/ AnswerArrives \/ NoiseArrives

(* main runs and its sleeps end; nothing is assumed of the network.          *)
Spec == Init /\ [][Next]_vars /\ WF_vars(Main)

-----------------------------------------------------------------------------
(* The loops of udpexplore.c stay within -T and -n, and nothing but packets  *)
(* is queued.                                                                *)
TypeOK ==
  /\ pc \in {"ttl", "target", "test", "clear", "inspect", "presleep", "sleep",
             "woken", "rest", "record", "done"}
  /\ ttl \in 0..MaxTtl /\ iTarget \in 0..Number
  /\ loop \in {"before", "after"} /\ flag \in BOOLEAN
  /\ resp \in Answer \cup {NoAnswer}
  /\ inflight \subseteq Answer
  /\ \A i \in DOMAIN sockq : sockq[i] \in Answer \cup {Noise}
  /\ noise \in 0..MaxNoise /\ read \in Nat /\ shown \in Nat

(* responses is allocated for `number' pointers (line 423) and written       *)
(* without a test (471): late answers of earlier probes must not make it     *)
(* longer, and no host is in it twice, or the search would stop too soon.    *)
ResponsesFit ==
  /\ Len(responses) <= Number
  /\ \A i, j \in DOMAIN responses : responses[i] = responses[j] => i = j

(* An answer that was taken from the socket is shown as the result of one    *)
(* probe, whenever the signals come: none is read and then dropped.          *)
NothingReadIsDropped ==
  read = shown + IF pc \in {"rest", "record"} /\ resp # NoAnswer THEN 1 ELSE 0

(* Whatever arrives, or never does, the exploration ends.                    *)
Terminates == <>(pc = "done")

(* Line 275: the line printed for the i-th target shows the "Response for    *)
(* i-th target".                                                             *)
ResponseIsForTarget == pc = "record" /\ resp # NoAnswer => resp.probe = current
=============================================================================
