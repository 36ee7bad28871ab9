----------------------- MODULE CircuitHandshake_proofs -----------------------
(***************************************************************************)
(* The safety properties of CircuitHandshake, for every number of stages.  *)
(* The argument is the phase of a report while the flag is down: posted,   *)
(* being acknowledged, or acknowledged; the worker is held in its waiting  *)
(* loop in the first two.  Once the flag is up only the count of           *)
(* acknowledgments matters.                                                *)
(***************************************************************************)
EXTENDS CircuitHandshake, TLAPS

\* What the running handler can have left to do.
MainOps ==
  { <<>>,
    <<"store_flag", "notify_flag">>, <<"notify_flag">>,
    <<"add_ack", "notify_ack">>, <<"notify_ack">>,
    <<"store_flag", "notify_flag", "add_ack", "notify_ack">>,
    <<"notify_flag", "add_ack", "notify_ack">>,
    <<"store_flag", "notify_flag", "terminate">>, <<"notify_flag", "terminate">>,
    <<"terminate">> }

Adding ==
  mpc \in { <<"add_ack", "notify_ack">>,
            <<"store_flag", "notify_flag", "add_ack", "notify_ack">>,
            <<"notify_flag", "add_ack", "notify_ack">> }

Raising ==
  mpc \in { <<"store_flag", "notify_flag">>,
            <<"store_flag", "notify_flag", "add_ack", "notify_ack">>,
            <<"store_flag", "notify_flag", "terminate">> }

Raised ==
  mpc \in { <<"notify_flag">>,
            <<"notify_flag", "add_ack", "notify_ack">>,
            <<"notify_flag", "terminate">>,
            <<"terminate">> }

Waiting == wpc \in {"load_flag", "load_ack", "observe", "wait", "asleep"}

Posted == channel = <<"progress">> /\ ~Adding /\ Waiting /\ expected = ack + 1
Acknowledging == channel = <<>> /\ Adding /\ Waiting /\ expected = ack + 1
Acknowledged == channel = <<>> /\ ~Adding /\ expected = ack
Answered ==
  /\ \E result \in Result : channel = <<result>>
  /\ ~Adding /\ wpc = "answered" /\ expected = ack

Phase == flag = 0 => Posted \/ Acknowledging \/ Acknowledged \/ Answered

Counted ==
  /\ ack <= expected
  /\ Adding => ack < expected

Ownership ==
  /\ flag = 1 \/ Raising => obsolete \/ settled
  /\ Raised => flag = 1
  /\ obsolete /\ flag = 0 => Raising

Numbers ==
  /\ flag \in 0..1
  /\ ack \in Nat
  /\ expected \in 0..Stages
  /\ observed \in 0..Stages

Shapes ==
  /\ wpc \in WorkerPc
  /\ channel \in Seq(Result \cup {"progress"})
  /\ mpc \in MainOps
  /\ obsolete \in BOOLEAN /\ settled \in BOOLEAN /\ listening \in BOOLEAN

IInv == Numbers /\ Shapes /\ Phase /\ Counted /\ Ownership

-----------------------------------------------------------------------------
USE DEF HandshakeAssumption

\* The inductive invariant holds initially.
LEMMA InitIInv == Init => IInv
<1> SUFFICES ASSUME Init PROVE IInv
  OBVIOUS
<1> USE HandshakeAssumption DEF Init
<1>1. Numbers
  BY DEF Numbers
<1>2. Shapes
  <2>1. wpc \in WorkerPc
    BY DEF WorkerPc
  <2>2. mpc \in MainOps
    BY DEF MainOps
  <2>3. channel \in Seq(Result \cup {"progress"})
    OBVIOUS
  <2>4. QED
    BY <2>1, <2>2, <2>3 DEF Shapes
<1>3. ~Adding /\ ~Raising /\ ~Raised
  BY DEF Adding, Raising, Raised
<1>4. Phase
  BY <1>3 DEF Phase, Acknowledged
<1>5. Counted
  BY <1>3 DEF Counted
<1>6. Ownership
  BY <1>3 DEF Ownership
<1>7. QED
  BY <1>1, <1>2, <1>4, <1>5, <1>6 DEF IInv

\* A step that leaves the main thread's operations alone keeps what they are.
LEMMA SameOperations ==
  UNCHANGED mpc => Adding' = Adding /\ Raising' = Raising /\ Raised' = Raised
BY DEF Adding, Raising, Raised

\* A step of the worker preserves it.
LEMMA WorkerIInv == IInv /\ WorkerNext => IInv'
<1> SUFFICES ASSUME IInv, WorkerNext PROVE IInv'
  OBVIOUS
<1> USE HandshakeAssumption DEF IInv
<1>1. /\ flag' = flag /\ ack' = ack /\ mpc' = mpc
      /\ obsolete' = obsolete /\ settled' = settled /\ listening' = listening
  BY DEF WorkerNext, Report, LoadFlag, LoadAck, Observe, Wait, Answer, shared, job
<1>2. Adding' = Adding /\ Raising' = Raising /\ Raised' = Raised
  BY <1>1, SameOperations
<1>3. Ownership'
  BY <1>1, <1>2 DEF Ownership
<1>4. CASE Report
  <2>1. wpc = "compute" /\ wpc' = "load_flag"
    BY <1>4 DEF Report, WorkerStep
  <2>2. expected < Stages /\ expected' = expected + 1 /\ observed' = observed
    BY <1>4 DEF Report
  <2>3. channel' = Append(channel, "progress")
    BY <1>4 DEF Report
  <2>4. Numbers' /\ Counted'
    BY <1>1, <1>2, <2>2 DEF Numbers, Counted
  <2>5. Shapes'
    <3>1. wpc' \in WorkerPc
      BY <2>1 DEF WorkerPc
    <3>2. channel' \in Seq(Result \cup {"progress"})
      BY <2>3 DEF Shapes
    <3>3. QED
      BY <1>1, <3>1, <3>2 DEF Shapes
  <2>6. Phase'
    <3> SUFFICES ASSUME flag = 0 PROVE Posted'
      BY <1>1 DEF Phase
    <3>1. channel = <<>> /\ ~Adding /\ expected = ack
      BY <2>1 DEF Phase, Posted, Acknowledging, Acknowledged, Answered, Waiting
    <3>2. channel' = <<"progress">>
      BY <2>3, <3>1
    <3>3. expected' = ack' + 1
      BY <1>1, <2>2, <3>1
    <3>4. Waiting'
      BY <2>1 DEF Waiting
    <3>5. QED
      BY <1>2, <3>1, <3>2, <3>3, <3>4 DEF Posted
  <2>7. QED
    BY <1>3, <2>4, <2>5, <2>6
<1>5. CASE LoadFlag \/ LoadAck \/ Observe \/ Wait
  <2>1. /\ expected' = expected /\ channel' = channel
        /\ observed' = observed \/ observed' = ack
    BY <1>5 DEF LoadFlag, LoadAck, Observe, Wait
  <2>2. wpc \in {"load_flag", "load_ack", "observe", "wait"}
    BY <1>5 DEF LoadFlag, LoadAck, Observe, Wait, WorkerStep
  <2>3. Waiting' \/ (wpc' = "compute" /\ (flag # 0 \/ ~(ack < expected)))
    BY <1>5 DEF LoadFlag, LoadAck, Observe, Wait, WorkerStep, Waiting
  <2>4. Numbers' /\ Counted'
    BY <1>1, <1>2, <2>1 DEF Numbers, Counted
  <2>5. Shapes'
    BY <1>1, <2>1, <2>3 DEF Shapes, WorkerPc, Waiting
  <2>6. Phase'
    <3> SUFFICES ASSUME flag = 0
                 PROVE  (Posted \/ Acknowledging \/ Acknowledged)'
      BY <1>1 DEF Phase
    <3>1. Posted \/ Acknowledging \/ Acknowledged
      BY <2>2 DEF Phase, Answered
    <3>2. expected = ack \/ Waiting'
      BY <2>3, <3>1 DEF Numbers, Posted, Acknowledging, Acknowledged
    <3>3. QED
      BY <1>1, <1>2, <2>1, <3>1, <3>2 DEF Numbers, Posted, Acknowledging, Acknowledged
  <2>7. QED
    BY <1>3, <2>4, <2>5, <2>6
<1>6. ASSUME NEW result \in Result, Answer(result) PROVE IInv'
  <2>1. /\ wpc = "compute" /\ wpc' = "answered"
        /\ expected' = expected /\ observed' = observed
        /\ channel' = Append(channel, result)
    BY <1>6 DEF Answer, WorkerStep
  <2>2. Numbers' /\ Counted'
    BY <1>1, <1>2, <2>1 DEF Numbers, Counted
  <2>3. Shapes'
    BY <1>1, <2>1 DEF Shapes, WorkerPc
  <2>4. Phase'
    <3> SUFFICES ASSUME flag = 0 PROVE Answered'
      BY <1>1 DEF Phase
    <3>1. channel = <<>> /\ ~Adding /\ expected = ack
      BY <2>1 DEF Phase, Posted, Acknowledging, Acknowledged, Answered, Waiting
    <3>2. channel' = <<result>>
      BY <2>1, <3>1
    <3>3. QED
      BY <1>1, <1>2, <2>1, <3>1, <3>2 DEF Answered
  <2>5. QED
    BY <1>3, <2>2, <2>3, <2>4
<1>7. QED
  BY <1>4, <1>5, <1>6 DEF WorkerNext

\* What is left of a handler after its next operation.
LEMMA NextOperation ==
  ASSUME mpc \in MainOps, mpc # <<>>, mpc' = Tail(mpc)
  PROVE  /\ mpc' \in MainOps /\ ~Raising'
         /\ Head(mpc) \in MainOp
         /\ Head(mpc) = "store_flag" <=> Raising
         /\ Raised' => Raised \/ Raising
         /\ Head(mpc) \in {"notify_flag", "terminate"} => Raised
         /\ Head(mpc) = "add_ack" => Adding /\ ~Adding' /\ ~Raised'
         /\ Head(mpc) # "add_ack" => (Adding' <=> Adding)
<1> USE DEF MainOps, MainOp, Adding, Raising, Raised
<1>1. CASE mpc = <<"store_flag", "notify_flag">>
  BY <1>1
<1>2. CASE mpc = <<"notify_flag">>
  BY <1>2
<1>3. CASE mpc = <<"add_ack", "notify_ack">>
  BY <1>3
<1>4. CASE mpc = <<"notify_ack">>
  BY <1>4
<1>5. CASE mpc = <<"store_flag", "notify_flag", "add_ack", "notify_ack">>
  BY <1>5
<1>6. CASE mpc = <<"notify_flag", "add_ack", "notify_ack">>
  BY <1>6
<1>7. CASE mpc = <<"store_flag", "notify_flag", "terminate">>
  BY <1>7
<1>8. CASE mpc = <<"notify_flag", "terminate">>
  BY <1>8
<1>9. CASE mpc = <<"terminate">>
  BY <1>9
<1>10. QED
  BY <1>1, <1>2, <1>3, <1>4, <1>5, <1>6, <1>7, <1>8, <1>9

\* A handler that is done has acknowledged, raised and posted what it had to.
LEMMA AtRest == mpc = <<>> => ~Adding /\ ~Raising /\ ~Raised
BY DEF Adding, Raising, Raised

\* The main thread's operations on the shared array preserve it.
LEMMA OperationIInv == IInv /\ MainOperation => IInv'
<1> SUFFICES ASSUME IInv, MainOperation PROVE IInv'
  OBVIOUS
<1> USE HandshakeAssumption DEF IInv
<1> DEFINE op == Head(mpc)
<1>1. /\ expected' = expected /\ observed' = observed /\ channel' = channel
      /\ obsolete' = obsolete /\ settled' = settled /\ listening' = listening
  BY DEF MainOperation, job
<1>2. mpc \in MainOps /\ mpc # <<>> /\ mpc' = Tail(mpc)
  BY DEF MainOperation, Resting, Shapes
<1>3. /\ mpc' \in MainOps /\ ~Raising'
      /\ op \in MainOp
      /\ op = "store_flag" <=> Raising
      /\ Raised' => Raised \/ Raising
      /\ op \in {"notify_flag", "terminate"} => Raised
      /\ op = "add_ack" => Adding /\ ~Adding' /\ ~Raised'
      /\ op # "add_ack" => (Adding' <=> Adding)
  BY <1>2, NextOperation
<1>4. CASE op = "store_flag"
  <2>1. flag' = 1 /\ ack' = ack /\ wpc' = wpc
    BY <1>4 DEF MainOperation
  <2>2. QED
    BY <1>1, <1>3, <1>4, <2>1 DEF Numbers, Shapes, Phase, Counted, Ownership
<1>5. CASE op = "add_ack"
  <2>1. flag' = flag /\ ack' = ack + 1 /\ wpc' = wpc
    BY <1>5 DEF MainOperation
  <2>2. Numbers' /\ Shapes' /\ Counted'
    BY <1>1, <1>3, <1>5, <2>1 DEF Numbers, Shapes, Counted
  <2>3. Phase'
    BY <1>1, <1>3, <1>5, <2>1
       DEF Phase, Posted, Acknowledging, Acknowledged, Answered
  <2>4. Ownership'
    BY <1>1, <1>3, <1>5, <2>1 DEF Ownership
  <2>5. QED
    BY <2>2, <2>3, <2>4
<1>6. CASE op \in {"notify_flag", "notify_ack", "terminate"}
  <2>1. flag' = flag /\ ack' = ack
    BY <1>6 DEF MainOperation, shared
  <2>2. wpc' \in WorkerPc
    BY <1>6 DEF MainOperation, Wake, Shapes, WorkerPc
  <2>3. op = "notify_ack" => wpc' = IF wpc = "asleep" THEN "load_flag" ELSE wpc
    BY DEF MainOperation, Wake
  <2>4. Phase'
    <3> SUFFICES ASSUME flag = 0
                 PROVE  (Posted \/ Acknowledging \/ Acknowledged \/ Answered)'
      BY <2>1 DEF Phase
    <3>1. op = "notify_ack"
      BY <1>3, <1>6 DEF Ownership
    <3>2. Waiting' = Waiting /\ (wpc = "answered" => wpc' = "answered")
      BY <2>3, <3>1 DEF Waiting
    <3>3. Adding' <=> Adding
      BY <1>3, <3>1
    <3>4. QED
      BY <1>1, <2>1, <3>2, <3>3
         DEF Phase, Posted, Acknowledging, Acknowledged, Answered
  <2>5. Numbers' /\ Shapes' /\ Counted'
    BY <1>1, <1>3, <1>6, <2>1, <2>2 DEF Numbers, Shapes, Counted
  <2>6. Ownership'
    BY <1>1, <1>3, <1>6, <2>1 DEF Ownership
  <2>7. QED
    BY <2>4, <2>5, <2>6
<1>7. QED
  BY <1>3, <1>4, <1>5, <1>6 DEF MainOp

\* The handlers of the main thread preserve it, and so does a closed connection.
LEMMA HandlerIInv ==
  IInv /\ (HandleProgress \/ HandleAnswer \/ Supersede \/ Disconnect \/ dispose) => IInv'
<1> SUFFICES ASSUME IInv,
                    HandleProgress \/ HandleAnswer \/ Supersede \/ Disconnect \/ dispose
             PROVE  IInv'
  OBVIOUS
<1> USE HandshakeAssumption DEF IInv
<1>1. /\ flag' = flag /\ ack' = ack /\ wpc' = wpc
      /\ expected' = expected /\ observed' = observed
  BY DEF HandleProgress, HandleAnswer, Supersede, Disconnect, dispose, shared, worker
<1>2. Numbers'
  BY <1>1 DEF Numbers
<1>3. CASE HandleProgress
  <2>1. /\ mpc = <<>> /\ channel # <<>> /\ Head(channel) = "progress"
        /\ channel' = Tail(channel)
        /\ settled' = settled /\ listening' = listening
    BY <1>3 DEF HandleProgress, Resting
  <2>2. channel' \in Seq(Result \cup {"progress"})
    BY <2>1 DEF Shapes
  <2>3. CASE obsolete
    <3>1. mpc' = mpc /\ obsolete' = obsolete
      BY <1>3, <2>3 DEF HandleProgress
    <3>2. Adding' = Adding /\ Raising' = Raising /\ Raised' = Raised
      BY <3>1, SameOperations
    <3>3. flag # 0
      BY <2>1, <2>3, AtRest DEF Ownership
    <3>4. QED
      BY <1>1, <1>2, <2>1, <2>2, <3>1, <3>2, <3>3 DEF Shapes, Phase, Counted, Ownership
  <2>4. CASE ~obsolete
    <3>1. mpc' = acknowledge /\ obsolete' = ~listening
      BY <1>3, <2>4 DEF HandleProgress
    <3>2. /\ Adding' /\ mpc' \in MainOps /\ ~Raised'
          /\ Raising' <=> ~listening
      <4>1. mpc' = IF listening THEN <<"add_ack", "notify_ack">>
                   ELSE <<"store_flag", "notify_flag", "add_ack", "notify_ack">>
        BY <3>1 DEF acknowledge, CancelOps
      <4>2. QED
        BY <4>1 DEF Adding, MainOps, Raised, Raising
    <3>3. ~settled /\ flag = 0
      BY <1>3, <2>4 DEF HandleProgress, Ownership, Numbers
    <3>4. Posted
      <4>1. ~Answered
        BY <2>1 DEF Answered, Result
      <4>2. QED
        BY <2>1, <3>3, <4>1 DEF Phase, Acknowledging, Acknowledged
    <3>5. Acknowledging'
      <4>1. channel' = <<>>
        BY <2>1, <3>4 DEF Posted
      <4>2. QED
        BY <1>1, <3>2, <3>4, <4>1 DEF Posted, Acknowledging, Waiting
    <3>6. Counted'
      BY <1>1, <3>4 DEF Numbers, Counted, Posted
    <3>7. Shapes'
      BY <1>1, <2>1, <2>2, <3>1, <3>2 DEF Shapes
    <3>8. Ownership'
      <4>1. obsolete' <=> ~listening
        BY <3>1
      <4>2. flag' # 1
        BY <1>1, <3>3
      <4>3. QED
        BY <3>2, <4>1, <4>2 DEF Ownership
    <3>9. QED
      BY <1>2, <3>5, <3>6, <3>7, <3>8 DEF Phase
  <2>5. QED
    BY <2>3, <2>4
<1>4. CASE HandleAnswer
  <2>1. /\ mpc = <<>> /\ mpc' = mpc /\ channel # <<>> /\ Head(channel) \in Result
        /\ channel' = Tail(channel)
        /\ settled' = TRUE /\ listening' = listening /\ obsolete' = obsolete
    BY <1>4 DEF HandleAnswer, Resting
  <2>2. channel' \in Seq(Result \cup {"progress"})
    BY <2>1 DEF Shapes
  <2>3. Adding' = Adding /\ Raising' = Raising /\ Raised' = Raised
    BY <2>1, SameOperations
  <2>4. Phase'
    <3> SUFFICES ASSUME flag = 0 PROVE Acknowledged'
      BY <1>1 DEF Phase
    <3>1. Answered
      BY <2>1 DEF Phase, Posted, Acknowledging, Acknowledged, Result
    <3>2. channel' = <<>>
      BY <2>1, <3>1 DEF Answered
    <3>3. QED
      BY <1>1, <2>3, <3>1, <3>2 DEF Answered, Acknowledged
  <2>5. QED
    BY <1>1, <1>2, <2>1, <2>2, <2>3, <2>4 DEF Shapes, Counted, Ownership
<1>5. CASE Supersede \/ dispose
  <2>1. /\ mpc = <<>> /\ channel' = channel /\ listening' = listening
        /\ obsolete' \/ settled'
        /\ obsolete' \in BOOLEAN /\ settled' \in BOOLEAN
    BY <1>5 DEF Supersede, dispose, Resting, Shapes
  <2>2. ~Adding' /\ Raising' /\ ~Raised' /\ mpc' \in MainOps
    <3>1. \/ mpc' = <<"store_flag", "notify_flag">>
          \/ mpc' = <<"store_flag", "notify_flag", "terminate">>
      BY <1>5 DEF Supersede, dispose, CancelOps
    <3>2. QED
      BY <3>1 DEF Adding, Raising, Raised, MainOps
  <2>3. Phase'
    BY <1>1, <2>1, <2>2, AtRest DEF Phase, Posted, Acknowledging, Acknowledged, Answered, Waiting
  <2>4. Counted' /\ Ownership'
    BY <1>1, <2>1, <2>2 DEF Counted, Ownership
  <2>5. QED
    BY <1>1, <1>2, <2>1, <2>2, <2>3, <2>4 DEF Shapes
<1>6. CASE Disconnect
  <2>1. mpc' = mpc /\ channel' = channel /\ obsolete' = obsolete /\ settled' = settled
        /\ listening' = FALSE
    BY <1>6 DEF Disconnect
  <2>2. Adding' = Adding /\ Raising' = Raising /\ Raised' = Raised
    BY <2>1, SameOperations
  <2>3. Phase'
    BY <1>1, <2>1, <2>2 DEF Phase, Posted, Acknowledging, Acknowledged, Answered, Waiting
  <2>4. QED
    BY <1>1, <1>2, <2>1, <2>2, <2>3 DEF Shapes, Counted, Ownership
<1>7. QED
  BY <1>3, <1>4, <1>5, <1>6

\* So does every step.
LEMMA NextIInv == IInv /\ [Next]_vars => IInv'
<1> SUFFICES ASSUME IInv, [Next]_vars PROVE IInv'
  OBVIOUS
<1>1. CASE WorkerNext
  BY <1>1, WorkerIInv
<1>2. CASE HandleProgress \/ HandleAnswer \/ Supersede \/ Disconnect \/ dispose
  BY <1>2, HandlerIInv
<1>3. CASE MainOperation
  BY <1>3, OperationIInv
<1>4. CASE UNCHANGED vars
  BY <1>4 DEF vars, IInv, Numbers, Shapes, Phase, Posted, Acknowledging, Acknowledged,
              Answered, Counted, Ownership, Adding, Raising, Raised, Waiting
<1>5. QED
  BY <1>1, <1>2, <1>3, <1>4 DEF Next, MainNext

\* The inductive invariant holds throughout.
THEOREM Invariant == Spec => []IInv
<1>1. Init => IInv
  BY InitIInv
<1>2. IInv /\ [Next]_vars => IInv'
  BY NextIInv
<1>3. QED
  BY <1>1, <1>2, PTL DEF Spec

-----------------------------------------------------------------------------
(* What follows from it.                                                   *)

\* Every variable keeps its range; in particular the main thread never counts
\* more acknowledgments than the worker asked for.
THEOREM TypeCorrect == Spec => []TypeOK
<1>1. IInv => TypeOK
  <2> SUFFICES ASSUME IInv PROVE TypeOK
    OBVIOUS
  <2>1. ack \in 0..Stages
    BY HandshakeAssumption DEF IInv, Numbers, Counted
  <2>2. \A a, b, c, d \in MainOp :
          /\ <<>> \in Seq(MainOp) /\ <<a>> \in Seq(MainOp) /\ <<a, b>> \in Seq(MainOp)
          /\ <<a, b, c>> \in Seq(MainOp) /\ <<a, b, c, d>> \in Seq(MainOp)
    OBVIOUS
  <2>3. mpc \in Seq(MainOp)
    BY <2>2 DEF IInv, Shapes, MainOps, MainOp
  <2>4. QED
    BY <2>1, <2>3 DEF IInv, Numbers, Shapes, TypeOK
<1>2. QED
  BY <1>1, Invariant, PTL

\* Backpressure: the worker is at most one report ahead until it is cancelled.
THEOREM Backpressure == Spec => []OneReportAhead
<1>1. IInv => OneReportAhead
  <2> SUFFICES ASSUME IInv, flag = 0 PROVE expected <= ack + 1 /\ Len(channel) <= 1
    BY DEF OneReportAhead
  <2>1. expected <= ack + 1
    BY HandshakeAssumption
       DEF IInv, Numbers, Phase, Posted, Acknowledging, Acknowledged, Answered
  <2>2. channel = <<>> \/ \E message \in Result \cup {"progress"} : channel = <<message>>
    BY DEF IInv, Phase, Posted, Acknowledging, Acknowledged, Answered
  <2>3. Len(channel) \in {0, 1}
    BY <2>2
  <2>4. \A n : n \in {0, 1} => n <= 1
    OBVIOUS
  <2>5. QED
    BY <2>1, <2>3, <2>4
<1>2. QED
  BY <1>1, Invariant, PTL

\* A worker asleep for an acknowledgment of a run nobody gave up has its
\* report in the channel or its acknowledgment under way.
THEOREM NotForgotten == Spec => []AcknowledgmentOnItsWay
<1>1. IInv => AcknowledgmentOnItsWay
  <2> SUFFICES ASSUME IInv, ack < expected, ~obsolete, ~settled
               PROVE  channel = <<"progress">> \/ \E i \in 1..Len(mpc) : mpc[i] = "add_ack"
    BY DEF AcknowledgmentOnItsWay
  <2>1. flag = 0
    BY DEF IInv, Numbers, Ownership
  <2>2. Posted \/ Acknowledging
    BY <2>1 DEF IInv, Numbers, Phase, Acknowledged, Answered
  <2>3. CASE Adding
    <3>1. CASE mpc = <<"add_ack", "notify_ack">>
      BY <3>1
    <3>2. CASE mpc = <<"store_flag", "notify_flag", "add_ack", "notify_ack">>
      BY <3>2
    <3>3. CASE mpc = <<"notify_flag", "add_ack", "notify_ack">>
      BY <3>3
    <3>4. QED
      BY <2>3, <3>1, <3>2, <3>3 DEF Adding
  <2>4. QED
    BY <2>2, <2>3 DEF Posted, Acknowledging
<1>2. QED
  BY <1>1, Invariant, PTL
=============================================================================
