-------------------------- MODULE UdpExploreProofs --------------------------
(* ResponsesFit and NothingReadIsDropped for any number of routers, probes   *)
(* and TTLs, and however many answers come late.                             *)
EXTENDS UdpExplore, SequenceTheorems, TLAPS

(* A result adds one host at most and ends one turn of the target loop: the  *)
(* hosts never outnumber the targets done, of which there are fewer than     *)
(* Number while a probe is under way.                                        *)
Waiting == {"test", "clear", "inspect", "presleep", "sleep", "woken", "rest", "record"}

IInv ==
  /\ pc \in Waiting \cup {"ttl", "target", "done"}
  /\ iTarget \in 0..Number
  /\ pc \in Waiting => iTarget < Number
  /\ responses \in Seq(Hosts)
  /\ Len(responses) <= iTarget
  /\ \A i, j \in DOMAIN responses : responses[i] = responses[j] => i = j
  /\ sockq \in Seq(Answer \cup {Noise})
  /\ inflight \subseteq Answer
  /\ resp \in Answer \cup {NoAnswer}
  /\ ttl \in 0..MaxTtl
  /\ pc \in Waiting \cup {"target"} => ttl \in 1..MaxTtl
  /\ read \in Nat /\ shown \in Nat
  /\ NothingReadIsDropped

USE UdpExploreAssumption

LEMMA InitIInv == Init => IInv
BY DEF Init, IInv, NothingReadIsDropped, Waiting

(* What an answer is: the two tests of it in the code agree.                 *)
LEMMA AnswerKind ==
  ASSUME NEW p \in Answer \cup {Noise}, Relevant(p)
  PROVE  p \in Answer
BY DEF Relevant, Noise

LEMMA NoAnswerIsNone == NoAnswer \notin Answer
BY DEF NoAnswer, Answer

LEMMA AnswerHost == ASSUME NEW a \in Answer PROVE a.host \in Hosts
BY DEF Answer

(* The queue stays a queue of packets when one is put in or taken out.       *)
LEMMA ArriveKeeps ==
  ASSUME IInv, NEW p \in Answer \cup {Noise}, Arrive(p), inflight' \subseteq inflight
  PROVE  IInv'
<1>1. sockq' \in Seq(Answer \cup {Noise})
  BY DEF IInv, Arrive
<1>2. NothingReadIsDropped'
  BY DEF IInv, Arrive, NothingReadIsDropped
<1>. QED
  BY <1>1, <1>2 DEF IInv, Arrive, Waiting

LEMMA SendProbeKeeps == ASSUME IInv, SendProbe PROVE IInv'
<1>1. ttl \in 1..MaxTtl /\ iTarget \in 0..(Number - 1)
  BY DEF IInv, SendProbe, MoreTargets, Waiting
<1>2. ASSUME NEW h \in Hosts
      PROVE  [kind |-> "expired", probe |-> current, host |-> h] \in Answer
  BY <1>1, <1>2 DEF Answer, Probe, current
<1>3. inflight' \subseteq Answer
  BY <1>2 DEF IInv, SendProbe
<1>4. NothingReadIsDropped'
  BY DEF IInv, SendProbe, NothingReadIsDropped
<1>. QED
  BY <1>1, <1>3, <1>4 DEF IInv, SendProbe, Waiting

LEMMA InspectKeeps == ASSUME IInv, Inspect PROVE IInv'
<1>1. sockq # <<>> => /\ Head(sockq) \in Answer \cup {Noise}
                      /\ Tail(sockq) \in Seq(Answer \cup {Noise})
  BY HeadTailProperties DEF IInv
<1>2. sockq' \in Seq(Answer \cup {Noise})
  BY <1>1 DEF IInv, Inspect
<1>3. CASE sockq # <<>> /\ Relevant(Head(sockq))
  <2>1. Head(sockq) \in Answer /\ Head(sockq) # NoAnswer
    BY <1>1, <1>3, AnswerKind, NoAnswerIsNone
  <2>2. NothingReadIsDropped'
    BY <1>3, <2>1 DEF IInv, Inspect, NothingReadIsDropped
  <2>. QED
    BY <1>2, <1>3, <2>1, <2>2 DEF IInv, Inspect, Waiting
<1>4. CASE ~(sockq # <<>> /\ Relevant(Head(sockq)))
  <2>1. NothingReadIsDropped'
    BY <1>4 DEF IInv, Inspect, NothingReadIsDropped
  <2>. QED
    BY <1>2, <1>4, <2>1 DEF IInv, Inspect, Waiting
<1>. QED
  BY <1>3, <1>4

LEMMA RecordKeeps == ASSUME IInv, Record PROVE IInv'
<1>. DEFINE adds == resp # NoAnswer /\ ~Known(resp.host)
<1>1. CASE adds
  <2>1. resp \in Answer /\ resp.host \in Hosts
    BY <1>1, AnswerHost DEF IInv
  <2>2. responses' = Append(responses, resp.host)
    BY <1>1 DEF Record
  <2>3. /\ responses' \in Seq(Hosts)
        /\ Len(responses') = Len(responses) + 1
        /\ \A i \in 1..Len(responses) : responses'[i] = responses[i]
        /\ responses'[Len(responses) + 1] = resp.host
        /\ DOMAIN responses = 1..Len(responses)
        /\ DOMAIN responses' = 1..(Len(responses) + 1)
        /\ Len(responses) \in Nat
    BY <2>1, <2>2, AppendProperties, LenProperties DEF IInv
  <2>4. ASSUME NEW i \in DOMAIN responses', NEW j \in DOMAIN responses',
               responses'[i] = responses'[j]
        PROVE  i = j
    <3>1. \A k \in DOMAIN responses : responses[k] # resp.host
      BY <1>1 DEF Known
    <3>. QED
      BY <2>3, <2>4, <3>1 DEF IInv
  <2>5. NothingReadIsDropped'
    BY <1>1 DEF IInv, Record, NothingReadIsDropped
  <2>6. iTarget' = iTarget + 1 /\ iTarget + 1 \in 0..Number /\ Len(responses') <= iTarget'
    BY <2>3 DEF IInv, Record, Waiting
  <2>. QED
    BY <2>3, <2>4, <2>5, <2>6 DEF IInv, Record, Waiting
<1>2. CASE ~adds
  <2>1. responses' = responses
    BY <1>2 DEF Record
  <2>2. NothingReadIsDropped'
    BY DEF IInv, Record, NothingReadIsDropped
  <2>3. iTarget' = iTarget + 1 /\ iTarget + 1 \in 0..Number /\ Len(responses') <= iTarget'
    BY <2>1, LenProperties DEF IInv, Record, Waiting
  <2>. QED
    BY <2>1, <2>2, <2>3 DEF IInv, Record, Waiting
<1>. QED
  BY <1>1, <1>2

LEMMA NextKeepsIInv == IInv /\ [Next]_vars => IInv'
<1>. SUFFICES ASSUME IInv, [Next]_vars PROVE IInv'
  OBVIOUS
<1>1. CASE NextTtl
  BY <1>1 DEF IInv, NextTtl, NothingReadIsDropped, Waiting
<1>2. CASE Finish
  BY <1>2 DEF IInv, Finish, NothingReadIsDropped, Waiting
<1>3. CASE TargetsDone
  BY <1>3 DEF IInv, TargetsDone, NothingReadIsDropped, Waiting
<1>4. CASE SendProbe
  BY <1>4, SendProbeKeeps
<1>5. CASE TestFlag
  BY <1>5 DEF IInv, TestFlag, NothingReadIsDropped, Waiting
<1>6. CASE ClearFlag
  BY <1>6 DEF IInv, ClearFlag, NothingReadIsDropped, Waiting
<1>7. CASE Inspect
  BY <1>7, InspectKeeps
<1>8. CASE Sleep
  BY <1>8 DEF IInv, Sleep, NothingReadIsDropped, Waiting
<1>9. CASE Woken
  BY <1>9 DEF IInv, Woken, NothingReadIsDropped, Waiting
<1>10. CASE TimeIsUp
  BY <1>10 DEF IInv, TimeIsUp, NothingReadIsDropped, Waiting
<1>11. CASE RestIsOver
  BY <1>11 DEF IInv, RestIsOver, NothingReadIsDropped, Waiting
<1>12. CASE Record
  BY <1>12, RecordKeeps
<1>13. CASE AnswerArrives
  <2>1. PICK a \in inflight : Arrive(a) /\ inflight' = inflight \ {a}
    BY <1>13 DEF AnswerArrives
  <2>2. a \in Answer
    BY <2>1 DEF IInv
  <2>. QED
    BY <2>1, <2>2, ArriveKeeps
<1>14. CASE NoiseArrives
  BY <1>14, ArriveKeeps DEF NoiseArrives
<1>15. CASE UNCHANGED vars
  BY <1>15 DEF IInv, vars, NothingReadIsDropped, Waiting
<1>. QED
  BY <1>1, <1>2, <1>3, <1>4, <1>5, <1>6, <1>7, <1>8, <1>9, <1>10, <1>11, <1>12,
     <1>13, <1>14, <1>15 DEF Next, Main

(* The array of answering hosts is never written past its end, and never     *)
(* holds a host twice (udpexplore.c:423, 475).                               *)
THEOREM ResponsesAlwaysFit == Spec => []ResponsesFit
<1>1. IInv => ResponsesFit
  BY LenProperties DEF IInv, ResponsesFit
<1>. QED
  BY <1>1, InitIInv, NextKeepsIInv, PTL DEF Spec

(* Every answer taken from the socket becomes the result of a probe          *)
(* (udpexplore.c:149-197), wherever the signals interrupt.                   *)
THEOREM ReadIsShown == Spec => []NothingReadIsDropped
<1>1. IInv => NothingReadIsDropped
  BY DEF IInv
<1>. QED
  BY <1>1, InitIInv, NextKeepsIInv, PTL DEF Spec
=============================================================================
