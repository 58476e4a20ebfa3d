-------------------------- MODULE OutputSinkProofs --------------------------
(***************************************************************************)
(* Proofs about the output path of output_table: type correctness, that   *)
(* the finalized time recorded for a sink never runs ahead of what the     *)
(* writer has flushed, that the thread ends only with everything owed      *)
(* delivered, and that the path refines the sink log of SinkLog.           *)
(***************************************************************************)
EXTENDS OutputSink, TLAPS

\* Batch event i of the channel is queued.
InChan(id) == \E i \in 1..Len(chan) : chan[i].kind = "Batch" /\ chan[i].id = id

\* Every batch event in the channel describes the batch the dataflow sent
\* under its id.
ChanMatchesSent ==
    \A i \in 1..Len(chan) :
        chan[i].kind = "Batch" =>
            /\ chan[i].id \in 1..Len(sent)
            /\ chan[i].time = sent[chan[i].id].time
            /\ chan[i].n = sent[chan[i].id].n

\* The frontier bounds every commit queued and the finalized time.
FrontierBounds ==
    /\ finalized <= frontier
    /\ \A i \in 1..Len(chan) : chan[i].kind = "Commit" => chan[i].time <= frontier

\* A queued batch is never behind the finalized time, nor behind a commit
\* queued before it.
ChanOrdered ==
    /\ \A i \in 1..Len(chan) : chan[i].kind = "Batch" => chan[i].time >= finalized
    /\ \A i, j \in 1..Len(chan) :
          (i < j /\ chan[i].kind = "Commit" /\ chan[j].kind = "Batch")
             => chan[j].time >= chan[i].time

\* Every batch this run owes the sink is flushed, still queued, or was lost
\* with the output thread's failure at a time not yet finalized.
Accounted ==
    \A id \in 1..Len(sent) :
        ~Skipped(sent[id].time) =>
            \/ Entries([id |-> id, n |-> sent[id].n]) \subseteq durable
            \/ InChan(id)
            \/ outPc = "failed" /\ sent[id].time >= finalized

IInv == TypeOK /\ ChanMatchesSent /\ FrontierBounds /\ ChanOrdered /\ Accounted
-----------------------------------------------------------------------------
USE OutputSinkAssumption DEF Times, NoTime, Frontiers, BatchIds, Batch,
    BatchEvent, CommitEvent, Entry

\* An element of a sequence over S is in S.
LEMMA SeqElem == ASSUME NEW S, NEW s \in Seq(S), NEW j \in 1..Len(s) PROVE s[j] \in S
  OBVIOUS

\* Every step keeps each variable in its type.
LEMMA TypeStep == TypeOK /\ [Next]_vars => TypeOK'
<1> SUFFICES ASSUME TypeOK, [Next]_vars PROVE TypeOK'
  OBVIOUS
<1>1. CASE SendBatch
  BY <1>1 DEF SendBatch, TypeOK
<1>2. CASE SendCommit
  BY <1>2 DEF SendCommit, TypeOK
<1>3. CASE DropSender
  BY <1>3 DEF DropSender, TypeOK
<1>4. CASE RecvBatch
  <2> DEFINE b == Head(chan)
  <2>1. b \in BatchEvent
    BY <1>4 DEF RecvBatch, TypeOK
  <2>2. /\ Entries(b) \subseteq Entry
        /\ \A k \in 1..b.n : {<<b.id, i>> : i \in 1..k - 1} \subseteq Entry
    BY <2>1 DEF Entries
  <2>3. chan' \in Seq(BatchEvent \cup CommitEvent)
    BY <1>4 DEF RecvBatch, TypeOK
  <2>4. /\ buffered' \subseteq Entry /\ durable' \subseteq Entry
        /\ outPc' \in {"recv", "done", "failed"}
    BY <1>4, <2>2 DEF RecvBatch, TypeOK
  <2>5. QED
    BY <1>4, <2>3, <2>4 DEF RecvBatch, TypeOK
<1>5. CASE RecvCommit
  BY <1>5 DEF RecvCommit, CommitOutputTime, TypeOK
<1>6. CASE RecvDisconnected
  BY <1>6 DEF RecvDisconnected, TypeOK
<1>7. CASE UNCHANGED vars
  BY <1>7 DEF vars, TypeOK
<1>8. QED
  BY <1>1, <1>2, <1>3, <1>4, <1>5, <1>6, <1>7
     DEF Next, Dataflow, OutputThread

\* Type correctness: in every reachable state of the output path, each
\* variable has its type.
THEOREM TypeCorrect == Spec => []TypeOK
<1>1. Init => TypeOK
  BY DEF Init, TypeOK
<1>2. QED
  BY <1>1, TypeStep, PTL DEF Spec

LEMMA InitIInv == Init => IInv
  BY DEF Init, IInv, TypeOK, ChanMatchesSent, FrontierBounds, ChanOrdered,
         Accounted

LEMMA SendBatchIInv == IInv /\ SendBatch => IInv'
<1> SUFFICES ASSUME IInv, SendBatch PROVE IInv'
  OBVIOUS
<1>1. PICK t \in frontier..MaxTime, n \in 1..MaxEntries :
         /\ sent' = Append(sent, [time |-> t, n |-> n])
         /\ chan' = Append(chan, [kind |-> "Batch", id |-> Len(sent) + 1, time |-> t, n |-> n])
  BY DEF SendBatch
<1>2. TypeOK'
  BY TypeStep DEF IInv, Next, Dataflow
<1>a. /\ Len(chan') = Len(chan) + 1
      /\ \A i \in 1..Len(chan) : chan'[i] = chan[i]
      /\ chan'[Len(chan) + 1] = [kind |-> "Batch", id |-> Len(sent) + 1, time |-> t, n |-> n]
      /\ Len(sent') = Len(sent) + 1
      /\ \A j \in 1..Len(sent) : sent'[j] = sent[j]
      /\ sent'[Len(sent) + 1] = [time |-> t, n |-> n]
  BY <1>1 DEF IInv, TypeOK
<1>b. Len(chan) \in Nat /\ Len(sent) \in Nat
  BY DEF IInv, TypeOK
<1>3. ChanMatchesSent'
  <2> SUFFICES ASSUME NEW i \in 1..Len(chan'), chan'[i].kind = "Batch"
               PROVE  /\ chan'[i].id \in 1..Len(sent')
                      /\ chan'[i].time = sent'[chan'[i].id].time
                      /\ chan'[i].n = sent'[chan'[i].id].n
    BY DEF ChanMatchesSent
  <2>1. CASE i \in 1..Len(chan)
    BY <2>1, <1>a DEF IInv, ChanMatchesSent
  <2>2. CASE i = Len(chan) + 1
    BY <2>2, <1>a
  <2>3. QED
    BY <2>1, <2>2, <1>a DEF IInv, TypeOK
<1>4. FrontierBounds'
  <2>1. UNCHANGED <<frontier, finalized>>
    BY DEF SendBatch
  <2>2. \A i \in 1..Len(chan') : chan'[i].kind = "Commit" => i \in 1..Len(chan)
    BY <1>a
  <2>3. QED
    BY <1>a, <2>1, <2>2 DEF IInv, FrontierBounds
<1>5. ChanOrdered'
  <2>1. UNCHANGED <<frontier, finalized>>
    BY DEF SendBatch
  <2>2. t >= frontier /\ frontier >= finalized
    BY <1>1 DEF IInv, FrontierBounds, TypeOK
  <2>3. \A i \in 1..Len(chan) : chan[i].kind = "Commit" => chan[i].time <= t
    BY <2>2 DEF IInv, FrontierBounds, TypeOK
  <2>4. \A i \in 1..Len(chan') : chan'[i].kind = "Batch" => chan'[i].time >= finalized'
    <3> SUFFICES ASSUME NEW i \in 1..Len(chan'), chan'[i].kind = "Batch"
                 PROVE  chan'[i].time >= finalized'
      OBVIOUS
    <3>1. CASE i \in 1..Len(chan)
      BY <3>1, <1>a, <2>1 DEF IInv, ChanOrdered
    <3>2. CASE i = Len(chan) + 1
      BY <3>2, <1>a, <2>1, <2>2 DEF IInv, TypeOK
    <3>3. QED
      BY <3>1, <3>2, <1>a, <1>b
  <2>5. ASSUME NEW i \in 1..Len(chan'), NEW j \in 1..Len(chan'),
               i < j, chan'[i].kind = "Commit", chan'[j].kind = "Batch"
        PROVE  chan'[j].time >= chan'[i].time
    <3>1. i \in 1..Len(chan)
      BY <1>a, <2>5 DEF IInv, TypeOK
    <3>2. CASE j \in 1..Len(chan)
      BY <3>1, <3>2, <1>a, <2>5 DEF IInv, ChanOrdered
    <3>3. CASE j = Len(chan) + 1
      BY <3>1, <3>3, <1>a, <2>3, <2>5 DEF IInv, TypeOK
    <3>4. QED
      BY <3>2, <3>3, <1>a, <1>b
  <2>6. QED
    BY <2>4, <2>5 DEF ChanOrdered
<1>6. Accounted'
  <2> SUFFICES ASSUME NEW id \in 1..Len(sent'), ~Skipped(sent'[id].time)
               PROVE  \/ Entries([id |-> id, n |-> sent'[id].n]) \subseteq durable'
                      \/ InChan(id)'
                      \/ outPc' = "failed" /\ sent'[id].time >= finalized'
    BY DEF Accounted
  <2>1. CASE id = Len(sent) + 1
    <3>1. Len(chan') = Len(chan) + 1 /\ chan'[Len(chan) + 1].kind = "Batch"
          /\ chan'[Len(chan) + 1].id = Len(sent) + 1
      BY <1>1 DEF IInv, TypeOK
    <3>2. InChan(id)'
      BY <2>1, <3>1 DEF InChan
    <3>3. QED
      BY <3>2
  <2>2. CASE id \in 1..Len(sent)
    <3>1. sent'[id] = sent[id]
      BY <2>2, <1>1 DEF IInv, TypeOK
    <3>2. InChan(id) => InChan(id)'
      BY <1>1 DEF InChan, IInv, TypeOK
    <3>3. \/ Entries([id |-> id, n |-> sent[id].n]) \subseteq durable
          \/ InChan(id)
          \/ outPc = "failed" /\ sent[id].time >= finalized
      BY <2>2, <3>1 DEF Accounted, IInv
    <3>4. UNCHANGED <<durable, outPc, finalized>>
      BY DEF SendBatch
    <3>5. QED
      BY <3>1, <3>2, <3>3, <3>4
  <2>3. QED
    BY <2>1, <2>2, <1>1 DEF IInv, TypeOK
<1>7. QED
  BY <1>2, <1>3, <1>4, <1>5, <1>6 DEF IInv

LEMMA SendCommitIInv == IInv /\ SendCommit => IInv'
<1> SUFFICES ASSUME IInv, SendCommit PROVE IInv'
  OBVIOUS
<1>1. PICK f \in frontier + 1..NoTime :
         /\ frontier' = f
         /\ chan' = Append(chan, [kind |-> "Commit", time |-> f])
  BY DEF SendCommit
<1>2. TypeOK'
  BY <1>1 DEF IInv, TypeOK, SendCommit
<1>3. ChanMatchesSent'
  BY <1>1 DEF IInv, TypeOK, ChanMatchesSent, SendCommit
<1>4. FrontierBounds'
  <2>1. /\ finalized' = finalized /\ finalized \in Nat
        /\ frontier \in Nat /\ f \in Nat /\ frontier < f
        /\ chan \in Seq(BatchEvent \cup CommitEvent)
    BY <1>1 DEF IInv, TypeOK, SendCommit
  <2>2. finalized' <= frontier'
    <3>1. finalized <= frontier
      BY DEF IInv, FrontierBounds
    <3>2. QED
      BY <1>1, <2>1, <3>1
  <2>3. \A i \in 1..Len(chan') : chan'[i].kind = "Commit" => chan'[i].time <= frontier'
    <3>1. Len(chan') = Len(chan) + 1 /\ chan'[Len(chan) + 1].time = f
      BY <1>1, <2>1
    <3>2. \A i \in 1..Len(chan) : chan'[i] = chan[i]
      BY <1>1, <2>1
    <3>3. \A i \in 1..Len(chan) : chan[i].kind = "Commit" => chan[i].time <= frontier
      BY DEF IInv, FrontierBounds
    <3>4. QED
      <4> SUFFICES ASSUME NEW i \in 1..Len(chan'), chan'[i].kind = "Commit"
                   PROVE  chan'[i].time <= frontier'
        OBVIOUS
      <4>1. CASE i = Len(chan) + 1
        BY <1>1, <2>1, <3>1, <4>1
      <4>2. CASE i \in 1..Len(chan)
        <5>1. chan[i] \in BatchEvent \cup CommitEvent
          BY <2>1, <4>2, SeqElem
        <5>2. chan[i].time \in Nat
          BY <5>1
        <5>3. chan[i].time <= frontier
          BY <3>2, <3>3, <4>2
        <5>4. QED
          BY <1>1, <2>1, <3>2, <4>2, <5>2, <5>3
      <4>3. QED
        BY <3>1, <4>1, <4>2
  <2>4. QED
    BY <2>2, <2>3 DEF FrontierBounds
<1>5. ChanOrdered'
  BY <1>1 DEF IInv, TypeOK, ChanOrdered, SendCommit
<1>6. Accounted'
  <2>1. \A id : InChan(id) => InChan(id)'
    BY <1>1 DEF InChan, IInv, TypeOK
  <2>2. UNCHANGED <<sent, durable, outPc, finalized>>
    BY DEF SendCommit
  <2>3. QED
    BY <2>1, <2>2 DEF Accounted, IInv
<1>7. QED
  BY <1>2, <1>3, <1>4, <1>5, <1>6 DEF IInv

LEMMA DropSenderIInv == IInv /\ DropSender => IInv'
<1> SUFFICES ASSUME IInv, DropSender PROVE IInv'
  OBVIOUS
<1>1. UNCHANGED <<frontier, chan, sent, outPc, buffered, durable, finalized>>
  BY DEF DropSender
<1>2. TypeOK'
  BY <1>1 DEF DropSender, IInv, TypeOK
<1>3. (ChanMatchesSent /\ FrontierBounds /\ ChanOrdered /\ Accounted)'
  BY <1>1 DEF IInv, ChanMatchesSent, FrontierBounds, ChanOrdered, Accounted, InChan
<1>4. QED
  BY <1>2, <1>3 DEF IInv

\* Receiving from the channel: the rest of the queue moves up one place.
LEMMA TailFacts ==
  ASSUME IInv, chan # <<>>, chan' = Tail(chan)
  PROVE  /\ Len(chan) \in Nat \ {0}
         /\ Len(chan') = Len(chan) - 1
         /\ \A i \in 1..Len(chan') : chan'[i] = chan[i + 1]
         /\ Head(chan) = chan[1]
  BY DEF IInv, TypeOK

\* The parts of IInv that only look at the queue survive a receive that
\* leaves frontier, sent and finalized alone.
LEMMA ReceiveKeepsQueueParts ==
  ASSUME IInv, chan # <<>>, chan' = Tail(chan),
         UNCHANGED <<frontier, sent, finalized>>
  PROVE  ChanMatchesSent' /\ FrontierBounds' /\ ChanOrdered'
<1>1. /\ Len(chan) \in Nat \ {0}
      /\ Len(chan') = Len(chan) - 1
      /\ \A i \in 1..Len(chan') : chan'[i] = chan[i + 1]
  BY TailFacts
<1>2. ChanMatchesSent'
  BY <1>1 DEF IInv, ChanMatchesSent
<1>3. FrontierBounds'
  BY <1>1 DEF IInv, FrontierBounds
<1>4. ChanOrdered'
  BY <1>1 DEF IInv, ChanOrdered
<1>5. QED
  BY <1>2, <1>3, <1>4

\* A batch queued behind the head is still queued after the head is taken.
LEMMA InChanAfterReceive ==
  ASSUME IInv, chan # <<>>, chan' = Tail(chan), NEW id,
         InChan(id), ~(Head(chan).kind = "Batch" /\ Head(chan).id = id)
  PROVE  InChan(id)'
<1>1. PICK i \in 1..Len(chan) : chan[i].kind = "Batch" /\ chan[i].id = id
  BY DEF InChan
<1>2. i # 1
  BY <1>1, TailFacts
<1>3. /\ Len(chan) \in Nat \ {0}
      /\ Len(chan') = Len(chan) - 1
      /\ \A k \in 1..Len(chan') : chan'[k] = chan[k + 1]
  BY TailFacts
<1>4. i - 1 \in 1..Len(chan') /\ chan'[i - 1] = chan[i]
  BY <1>1, <1>2, <1>3
<1>5. QED
  BY <1>1, <1>4 DEF InChan

LEMMA RecvBatchIInv == IInv /\ RecvBatch => IInv'
<1> SUFFICES ASSUME IInv, RecvBatch PROVE IInv'
  OBVIOUS
<1> DEFINE b == Head(chan)
<1>1. /\ chan # <<>> /\ chan' = Tail(chan) /\ outPc = "recv"
      /\ UNCHANGED <<frontier, senderAlive, sent, finalized>>
      /\ b.kind = "Batch"
  BY DEF RecvBatch
<1>2. /\ b = chan[1]
      /\ b.id \in 1..Len(sent) /\ b.time = sent[b.id].time /\ b.n = sent[b.id].n
      /\ b.time >= finalized
  BY <1>1, TailFacts DEF IInv, ChanMatchesSent, ChanOrdered
<1>3. \/ /\ durable' = durable \cup buffered \cup (IF Skipped(b.time) THEN {} ELSE Entries(b))
         /\ outPc' = "recv"
      \/ durable' = durable /\ outPc' = "failed"
  BY DEF RecvBatch
<1>4. TypeOK'
  BY TypeStep DEF IInv, Next, OutputThread
<1>5. Accounted'
  <2> SUFFICES ASSUME NEW id \in 1..Len(sent), ~Skipped(sent[id].time)
               PROVE  \/ Entries([id |-> id, n |-> sent[id].n]) \subseteq durable'
                      \/ InChan(id)'
                      \/ outPc' = "failed" /\ sent[id].time >= finalized
    BY <1>1 DEF Accounted
  <2>1. \/ Entries([id |-> id, n |-> sent[id].n]) \subseteq durable
        \/ InChan(id)
    BY <1>1 DEF IInv, Accounted
  <2>2. durable \subseteq durable'
    BY <1>3
  <2>3. CASE b.id = id
    <3>1. Entries(b) = Entries([id |-> id, n |-> sent[id].n])
      BY <2>3, <1>2 DEF Entries
    <3>2. ~Skipped(b.time)
      BY <2>3, <1>2
    <3>3. QED
      BY <3>1, <3>2, <1>2, <1>3, <2>3
  <2>4. CASE b.id # id
    BY <2>1, <2>2, <2>4, <1>1, InChanAfterReceive
  <2>5. QED
    BY <2>3, <2>4
<1>6. QED
  BY <1>1, <1>4, <1>5, ReceiveKeepsQueueParts DEF IInv

LEMMA RecvCommitIInv == IInv /\ RecvCommit => IInv'
<1> SUFFICES ASSUME IInv, RecvCommit PROVE IInv'
  OBVIOUS
<1>1. /\ chan # <<>> /\ chan' = Tail(chan) /\ outPc = "recv"
      /\ UNCHANGED <<frontier, senderAlive, sent>>
      /\ Head(chan).kind = "Commit"
      /\ finalized' = IF HasStorage THEN Head(chan).time ELSE finalized
      /\ durable \subseteq durable'
  BY DEF RecvCommit, CommitOutputTime
<1>2. /\ Len(chan) \in Nat \ {0}
      /\ Len(chan') = Len(chan) - 1
      /\ \A i \in 1..Len(chan') : chan'[i] = chan[i + 1]
      /\ Head(chan) = chan[1]
  BY <1>1, TailFacts
<1>3. finalized' <= frontier /\ finalized' \in Frontiers
  BY <1>1, <1>2 DEF IInv, FrontierBounds, TypeOK
<1>4. \A i \in 1..Len(chan') : chan'[i].kind = "Batch" => chan'[i].time >= finalized'
  BY <1>1, <1>2 DEF IInv, ChanOrdered
<1>5. TypeOK'
  BY TypeStep DEF IInv, Next, OutputThread
<1>6. ChanMatchesSent' /\ FrontierBounds' /\ ChanOrdered'
  <2>1. ChanMatchesSent'
    BY <1>1, <1>2 DEF IInv, ChanMatchesSent
  <2>2. FrontierBounds'
    BY <1>1, <1>2, <1>3 DEF IInv, FrontierBounds
  <2>3. ChanOrdered'
    BY <1>1, <1>2, <1>4 DEF IInv, ChanOrdered
  <2>4. QED
    BY <2>1, <2>2, <2>3
<1>7. Accounted'
  <2> SUFFICES ASSUME NEW id \in 1..Len(sent), ~Skipped(sent[id].time)
               PROVE  \/ Entries([id |-> id, n |-> sent[id].n]) \subseteq durable'
                      \/ InChan(id)'
    BY <1>1 DEF Accounted
  <2>1. \/ Entries([id |-> id, n |-> sent[id].n]) \subseteq durable
        \/ InChan(id)
    BY <1>1 DEF IInv, Accounted
  <2>2. QED
    BY <2>1, <1>1, InChanAfterReceive
<1>8. QED
  BY <1>5, <1>6, <1>7 DEF IInv

LEMMA RecvDisconnectedIInv == IInv /\ RecvDisconnected => IInv'
<1> SUFFICES ASSUME IInv, RecvDisconnected PROVE IInv'
  OBVIOUS
<1>1. /\ chan = <<>> /\ outPc = "recv"
      /\ UNCHANGED <<frontier, senderAlive, chan, sent, buffered, durable, finalized>>
      /\ outPc' = "done"
  BY DEF RecvDisconnected
<1>2. TypeOK'
  BY <1>1 DEF IInv, TypeOK
<1>3. ChanMatchesSent' /\ FrontierBounds' /\ ChanOrdered'
  BY <1>1 DEF IInv, ChanMatchesSent, FrontierBounds, ChanOrdered
<1>4. Accounted'
  <2>1. \A id : ~InChan(id)
    BY <1>1 DEF InChan
  <2>2. QED
    BY <1>1, <2>1 DEF IInv, Accounted, InChan
<1>5. QED
  BY <1>2, <1>3, <1>4 DEF IInv

LEMMA NextIInv == IInv /\ [Next]_vars => IInv'
<1> SUFFICES ASSUME IInv, [Next]_vars PROVE IInv'
  OBVIOUS
<1>1. CASE UNCHANGED vars
  BY <1>1 DEF vars, IInv, TypeOK, ChanMatchesSent, FrontierBounds,
             ChanOrdered, Accounted, InChan
<1>2. QED
  BY <1>1, SendBatchIInv, SendCommitIInv, DropSenderIInv, RecvBatchIInv,
     RecvCommitIInv, RecvDisconnectedIInv DEF Next, Dataflow, OutputThread

\* An owed entry below the finalized time can be neither queued nor lost,
\* since both leave its time at or above the finalized time.
LEMMA IInvSafe == IInv => FinalizedCoversDurable
<1> SUFFICES ASSUME IInv, NEW x \in OwedBefore(finalized) PROVE x \in durable
  BY DEF FinalizedCoversDurable
<1>1. PICK j \in 1..Len(sent) :
         /\ sent[j].time < finalized /\ ~Skipped(sent[j].time)
         /\ x \in Entries([id |-> j, n |-> sent[j].n])
  BY DEF OwedBefore
<1>2. ~InChan(j)
  <2> SUFFICES ASSUME InChan(j) PROVE FALSE
    OBVIOUS
  <2>1. PICK i \in 1..Len(chan) : chan[i].kind = "Batch" /\ chan[i].id = j
    BY DEF InChan
  <2>2. chan[i].time = sent[j].time /\ chan[i].time >= finalized
    BY <2>1 DEF IInv, ChanMatchesSent, ChanOrdered
  <2>3. QED
    BY <1>1, <2>2 DEF IInv, TypeOK
<1>3. \/ Entries([id |-> j, n |-> sent[j].n]) \subseteq durable
      \/ InChan(j)
      \/ outPc = "failed" /\ sent[j].time >= finalized
  BY <1>1 DEF IInv, Accounted
<1>4. ~(sent[j].time >= finalized)
  <2>0. sent \in Seq(Batch) /\ finalized \in Nat
    BY DEF IInv, TypeOK
  <2>a. sent[j] \in Batch
    BY <2>0, SeqElem
  <2>1. sent[j].time \in Nat /\ finalized \in Nat
    BY <2>0, <2>a
  <2>2. QED
    BY <1>1, <2>1
<1>5. QED
  BY <1>1, <1>2, <1>3, <1>4

\* The sink's finalized time in persistent storage never runs ahead of the
\* writer: every entry this run emitted at an earlier time has been flushed.
THEOREM FinalizedSafe == Spec => []FinalizedCoversDurable
<1>1. Init => IInv
  BY InitIInv
<1>2. QED
  BY <1>1, NextIInv, IInvSafe, PTL DEF Spec
-----------------------------------------------------------------------------
(* The Ok end of the output thread.                                        *)

\* Once the thread has ended with Ok, the dataflow can send it no batch:
\* either it sent Commit(None), so the frontier is empty, or its Sender is
\* gone; and no batch was left behind in the channel.
DoneNoBatch ==
    outPc = "done" =>
        /\ frontier = NoTime \/ ~senderAlive
        /\ \A i \in 1..Len(chan) : chan[i].kind # "Batch"

DInv == IInv /\ DoneNoBatch

\* Only Commit(None) or a disconnection end the thread with Ok, and both
\* leave nothing the dataflow could still send; a batch queued after
\* Commit(None) would carry a time past every data time.
LEMMA NextDoneNoBatch == IInv /\ DoneNoBatch /\ [Next]_vars => DoneNoBatch'
<1> SUFFICES ASSUME IInv, DoneNoBatch, [Next]_vars PROVE DoneNoBatch'
  OBVIOUS
<1>0. TypeOK
  BY DEF IInv
<1>1. CASE SendBatch
  <2>1. outPc # "done"
    <3> SUFFICES ASSUME outPc = "done" PROVE FALSE
      OBVIOUS
    <3>1. senderAlive /\ frontier = NoTime
      BY <1>1 DEF SendBatch, DoneNoBatch
    <3>2. \E t \in frontier..MaxTime : TRUE
      BY <1>1 DEF SendBatch
    <3>3. QED
      BY <3>1, <3>2
  <2>2. QED
    BY <1>1, <2>1 DEF SendBatch, DoneNoBatch
<1>2. CASE SendCommit
  <2>1. outPc # "done"
    BY <1>2 DEF SendCommit, DoneNoBatch
  <2>2. QED
    BY <1>2, <2>1 DEF SendCommit, DoneNoBatch
<1>3. CASE DropSender
  BY <1>3 DEF DropSender, DoneNoBatch
<1>4. CASE RecvBatch
  BY <1>4 DEF RecvBatch, DoneNoBatch
<1>5. CASE RecvCommit
  <2> SUFFICES ASSUME outPc' = "done" PROVE DoneNoBatch'
    BY DEF DoneNoBatch
  <2>1. /\ outPc = "recv" /\ chan # <<>> /\ Head(chan).kind = "Commit"
        /\ chan' = Tail(chan) /\ Head(chan).time = NoTime
        /\ UNCHANGED <<frontier, senderAlive>>
    BY <1>5 DEF RecvCommit
  <2>2. /\ Len(chan) \in Nat \ {0} /\ Len(chan') = Len(chan) - 1
        /\ \A i \in 1..Len(chan') : chan'[i] = chan[i + 1]
        /\ Head(chan) = chan[1]
    BY <2>1, TailFacts
  <2>3. frontier = NoTime
    BY <1>0, <2>1, <2>2 DEF IInv, FrontierBounds, TypeOK
  <2>4. \A i \in 1..Len(chan') : chan'[i].kind # "Batch"
    <3> SUFFICES ASSUME NEW i \in 1..Len(chan'), chan'[i].kind = "Batch" PROVE FALSE
      OBVIOUS
    <3>1. chan[i + 1].kind = "Batch" /\ i + 1 \in 1..Len(chan)
      BY <2>2
    <3>2. chan[i + 1].time >= NoTime
      BY <2>1, <2>2, <3>1 DEF IInv, ChanOrdered
    <3>3. chan[i + 1] \in BatchEvent \cup CommitEvent
      BY <1>0, <3>1, SeqElem DEF TypeOK
    <3>4. chan[i + 1].time \in Times
      BY <3>1, <3>3
    <3>5. QED
      BY <3>2, <3>4
  <2>5. QED
    BY <2>1, <2>3, <2>4 DEF DoneNoBatch
<1>6. CASE RecvDisconnected
  BY <1>6 DEF RecvDisconnected, DoneNoBatch
<1>7. CASE UNCHANGED vars
  BY <1>7 DEF vars, DoneNoBatch
<1>8. QED
  BY <1>1, <1>2, <1>3, <1>4, <1>5, <1>6, <1>7 DEF Next, Dataflow, OutputThread

\* With nothing queued and the thread not failed, Accounted leaves only
\* the first case: every owed batch is durable.
LEMMA DInvDelivered == DInv => DoneImpliesDelivered
<1> SUFFICES ASSUME DInv, outPc = "done", NEW j \in 1..Len(sent),
                    sent[j].time < NoTime, ~Skipped(sent[j].time)
             PROVE  Entries([id |-> j, n |-> sent[j].n]) \subseteq durable
  BY DEF DoneImpliesDelivered, OwedBefore
<1>1. ~InChan(j)
  BY DEF DInv, DoneNoBatch, InChan
<1>2. QED
  BY <1>1 DEF DInv, IInv, Accounted

\* When the output thread ends with Ok, after Commit(None) or on a
\* disconnected channel, every entry the dataflow sent that this run has
\* to write has been flushed to the sink.
THEOREM DeliveredSafe == Spec => []DoneImpliesDelivered
<1>1. Init => DInv
  BY InitIInv DEF Init, DInv, DoneNoBatch
<1>2. DInv /\ [Next]_vars => DInv'
  BY NextIInv, NextDoneNoBatch DEF DInv
<1>3. QED
  BY <1>1, <1>2, DInvDelivered, PTL DEF Spec

-----------------------------------------------------------------------------
(***************************************************************************)
(* Refinement: the output path of output_table implements the sink log of  *)
(* SinkLog under the mapping of OutputSink (owed <- OwedLog, status <-     *)
(* SinkStatus): every step of the dataflow side or of the output thread is *)
(* a step of the sink log or leaves it unchanged.                          *)
(***************************************************************************)


\* While the thread waits in recv(), nothing is written and unflushed:
\* output_batch ends with a flush, and a failed write or flush ends the loop.
NoBufferWhileRecv == outPc = "recv" => buffered = {}

\* Queued commits are not behind the finalized time and come in the order
\* of their times, since each carries a frontier larger than the last.
CommitsOrdered ==
    /\ \A i \in 1..Len(chan) : chan[i].kind = "Commit" => chan[i].time >= finalized
    /\ \A i, j \in 1..Len(chan) :
          (i < j /\ chan[i].kind = "Commit" /\ chan[j].kind = "Commit")
             => chan[i].time <= chan[j].time

RInv == IInv /\ NoBufferWhileRecv /\ CommitsOrdered
-----------------------------------------------------------------------------
USE OutputSinkAssumption DEF Times, NoTime, Frontiers, BatchIds, Batch,
    BatchEvent, CommitEvent, Entry

LEMMA InitRInv == Init => RInv
  BY InitIInv DEF Init, RInv, NoBufferWhileRecv, CommitsOrdered

LEMMA NextNoBuffer == RInv /\ [Next]_vars => NoBufferWhileRecv'
<1> SUFFICES ASSUME RInv, [Next]_vars, outPc' = "recv" PROVE buffered' = {}
  BY DEF NoBufferWhileRecv
<1>1. CASE Dataflow
  BY <1>1 DEF Dataflow, SendBatch, SendCommit, DropSender, RInv, NoBufferWhileRecv
<1>2. CASE RecvBatch
  BY <1>2 DEF RecvBatch
<1>3. CASE RecvCommit
  BY <1>3 DEF RecvCommit
<1>4. CASE RecvDisconnected
  BY <1>4 DEF RecvDisconnected
<1>5. CASE UNCHANGED vars
  BY <1>5 DEF vars, RInv, NoBufferWhileRecv
<1>6. QED
  BY <1>1, <1>2, <1>3, <1>4, <1>5 DEF Next, OutputThread

LEMMA NextCommitsOrdered == RInv /\ [Next]_vars => CommitsOrdered'
<1> SUFFICES ASSUME RInv, [Next]_vars PROVE CommitsOrdered'
  OBVIOUS
<1>0. chan \in Seq(BatchEvent \cup CommitEvent) /\ finalized \in Nat /\ frontier \in Nat
  BY DEF RInv, IInv, TypeOK
<1>1. CASE SendBatch
  <2>1. PICK t \in frontier..MaxTime, n \in 1..MaxEntries :
          chan' = Append(chan, [kind |-> "Batch", id |-> Len(sent) + 1, time |-> t, n |-> n])
    BY <1>1 DEF SendBatch
  <2>2. /\ Len(chan') = Len(chan) + 1
        /\ \A i \in 1..Len(chan) : chan'[i] = chan[i]
        /\ chan'[Len(chan) + 1].kind = "Batch"
        /\ finalized' = finalized
    BY <1>0, <1>1, <2>1 DEF SendBatch
  <2>3. \A i \in 1..Len(chan') : chan'[i].kind = "Commit" => i \in 1..Len(chan)
    BY <1>0, <2>2
  <2>4. QED
    BY <2>2, <2>3 DEF RInv, CommitsOrdered
<1>2. CASE SendCommit
  <2>1. PICK f \in frontier + 1..NoTime :
          chan' = Append(chan, [kind |-> "Commit", time |-> f])
    BY <1>2 DEF SendCommit
  <2>2. /\ Len(chan') = Len(chan) + 1
        /\ \A i \in 1..Len(chan) : chan'[i] = chan[i]
        /\ chan'[Len(chan) + 1].time = f
        /\ finalized' = finalized
    BY <1>0, <1>2, <2>1 DEF SendCommit
  <2>3. /\ f > frontier /\ frontier >= finalized
        /\ \A i \in 1..Len(chan) : chan[i].kind = "Commit" => chan[i].time <= frontier
    BY <1>0, <2>1 DEF RInv, IInv, FrontierBounds
  <2>4. \A i \in 1..Len(chan') : chan'[i].kind = "Commit" => chan'[i].time >= finalized'
    <3> SUFFICES ASSUME NEW i \in 1..Len(chan'), chan'[i].kind = "Commit"
                 PROVE  chan'[i].time >= finalized'
      OBVIOUS
    <3>1. CASE i \in 1..Len(chan)
      BY <3>1, <2>2 DEF RInv, CommitsOrdered
    <3>2. CASE i = Len(chan) + 1
      BY <3>2, <1>0, <2>1, <2>2, <2>3
    <3>3. QED
      BY <3>1, <3>2, <1>0, <2>2
  <2>5. ASSUME NEW i \in 1..Len(chan'), NEW j \in 1..Len(chan'),
               i < j, chan'[i].kind = "Commit", chan'[j].kind = "Commit"
        PROVE  chan'[i].time <= chan'[j].time
    <3>1. i \in 1..Len(chan)
      BY <1>0, <2>2, <2>5
    <3>2. CASE j \in 1..Len(chan)
      BY <3>1, <3>2, <2>2, <2>5 DEF RInv, CommitsOrdered
    <3>3. CASE j = Len(chan) + 1
      <4>1. chan[i] \in BatchEvent \cup CommitEvent
        BY <1>0, <3>1, SeqElem
      <4>2. chan[i].time \in Nat /\ chan[i].time <= frontier
        BY <2>2, <2>3, <2>5, <3>1, <4>1
      <4>3. QED
        BY <1>0, <2>1, <2>2, <3>3, <4>2
    <3>4. QED
      BY <3>2, <3>3, <1>0, <2>2
  <2>6. QED
    BY <2>4, <2>5 DEF CommitsOrdered
<1>3. CASE DropSender
  BY <1>3 DEF DropSender, RInv, CommitsOrdered
<1>4. CASE RecvBatch
  <2>1. chan # <<>> /\ chan' = Tail(chan) /\ finalized' = finalized
    BY <1>4 DEF RecvBatch
  <2>2. /\ Len(chan') = Len(chan) - 1
        /\ \A i \in 1..Len(chan') : chan'[i] = chan[i + 1]
    BY <2>1, TailFacts DEF RInv
  <2>3. QED
    BY <1>0, <2>1, <2>2 DEF RInv, CommitsOrdered
<1>5. CASE RecvCommit
  <2>1. /\ chan # <<>> /\ chan' = Tail(chan) /\ chan[1].kind = "Commit"
        /\ finalized' \in {chan[1].time, finalized}
    BY <1>5, TailFacts DEF RInv, RecvCommit, CommitOutputTime
  <2>2. /\ Len(chan) \in Nat \ {0}
        /\ Len(chan') = Len(chan) - 1
        /\ \A i \in 1..Len(chan') : chan'[i] = chan[i + 1]
    BY <2>1, TailFacts DEF RInv
  <2>3. \A i \in 2..Len(chan) : chan[i].kind = "Commit" =>
           /\ chan[i].time >= chan[1].time
           /\ chan[i].time >= finalized
    BY <1>0, <2>1, <2>2 DEF RInv, CommitsOrdered
  <2>4. QED
    BY <1>0, <2>1, <2>2, <2>3 DEF RInv, CommitsOrdered
<1>6. CASE RecvDisconnected
  BY <1>6 DEF RecvDisconnected, RInv, CommitsOrdered
<1>7. CASE UNCHANGED vars
  BY <1>7 DEF vars, RInv, CommitsOrdered
<1>8. QED
  BY <1>1, <1>2, <1>3, <1>4, <1>5, <1>6, <1>7 DEF Next, Dataflow, OutputThread

LEMMA NextRInv == RInv /\ [Next]_vars => RInv'
  BY NextIInv, NextNoBuffer, NextCommitsOrdered DEF RInv

-----------------------------------------------------------------------------
(* The refinement.                                                         *)

\* An owed entry is an entry of a sent batch the run has to write, paired
\* with the batch's time.
LEMMA OwedLogMem ==
  ASSUME NEW o \in OwedLog
  PROVE  \E j \in 1..Len(sent) :
            /\ ~Skipped(sent[j].time)
            /\ o[2] = sent[j].time
            /\ o[1] \in Entries([id |-> j, n |-> sent[j].n])
  BY DEF OwedLog

\* While the thread waits in recv() and no queued batch is before t, every
\* owed entry before t is durable: a batch is durable, queued or lost with
\* the thread, and only the first is left.
LEMMA CoveredBefore ==
  ASSUME RInv, outPc = "recv", NEW t \in Nat,
         \A i \in 1..Len(chan) : chan[i].kind = "Batch" => chan[i].time >= t
  PROVE  Log!Covered(t)
<1> SUFFICES ASSUME NEW o \in OwedLog, o[2] < t PROVE o[1] \in durable
  BY DEF Log!Covered
<1>1. PICK j \in 1..Len(sent) :
         /\ ~Skipped(sent[j].time)
         /\ o[2] = sent[j].time
         /\ o[1] \in Entries([id |-> j, n |-> sent[j].n])
  BY OwedLogMem
<1>2. ~InChan(j)
  <2> SUFFICES ASSUME NEW i \in 1..Len(chan), chan[i].kind = "Batch", chan[i].id = j
               PROVE  FALSE
    BY DEF InChan
  <2>1. chan[i].time = sent[j].time /\ chan[i].time >= t
    BY DEF RInv, IInv, ChanMatchesSent
  <2>2. sent[j] \in Batch
    BY SeqElem DEF RInv, IInv, TypeOK
  <2>3. QED
    BY <1>1, <2>1, <2>2
<1>3. QED
  BY <1>1, <1>2 DEF RInv, IInv, Accounted

\* Once the thread may end with Ok (no batch queued), every owed entry is
\* durable.
LEMMA AllCovered ==
  ASSUME RInv, outPc = "recv",
         \A i \in 1..Len(chan) : chan[i].kind # "Batch"
  PROVE  Log!OwedEntries \subseteq durable
<1>1. Log!Covered(NoTime)
  BY CoveredBefore
<1>2. \A o \in OwedLog : o[2] < NoTime
  <2> SUFFICES ASSUME NEW o \in OwedLog PROVE o[2] < NoTime
    OBVIOUS
  <2>1. PICK j \in 1..Len(sent) : o[2] = sent[j].time
    BY OwedLogMem
  <2>2. sent[j] \in Batch
    BY SeqElem DEF RInv, IInv, TypeOK
  <2>3. QED
    BY <2>1, <2>2
<1>3. QED
  BY <1>1, <1>2 DEF Log!Covered, Log!OwedEntries

\* A batch sent by the dataflow adds its entries, at its time, to the log
\* (none when its time is replayed): an Emit of the sink log.
LEMMA SendBatchRefines == RInv /\ SendBatch => Log!Emit
<1> SUFFICES ASSUME RInv, SendBatch PROVE Log!Emit
  OBVIOUS
<1>1. PICK t \in frontier..MaxTime, n \in 1..MaxEntries :
         sent' = Append(sent, [time |-> t, n |-> n])
  BY DEF SendBatch
<1> DEFINE new == IF Skipped(t) THEN {} ELSE Entries([id |-> Len(sent) + 1, n |-> n])
<1>2. /\ sent \in Seq(Batch) /\ Len(sent) < MaxBatches
      /\ Len(sent') = Len(sent) + 1
      /\ \A j \in 1..Len(sent) : sent'[j] = sent[j]
      /\ sent'[Len(sent) + 1] = [time |-> t, n |-> n]
  BY <1>1 DEF RInv, IInv, TypeOK, SendBatch
<1>3. t \in finalized..MaxTime
  BY DEF RInv, IInv, FrontierBounds, TypeOK
<1>4. new \in SUBSET Entry
  BY <1>2 DEF Entries
<1>5. OwedLog' = OwedLog \cup (new \X {t})
  <2>1. ASSUME NEW o \in OwedLog' PROVE o \in OwedLog \cup (new \X {t})
    <3>1. PICK j \in 1..Len(sent') :
             /\ ~Skipped(sent'[j].time)
             /\ o \in Entries([id |-> j, n |-> sent'[j].n]) \X {sent'[j].time}
      BY DEF OwedLog
    <3>2. CASE j \in 1..Len(sent)
      BY <3>1, <3>2, <1>2 DEF OwedLog
    <3>3. CASE j = Len(sent) + 1
      BY <3>1, <3>3, <1>2
    <3>4. QED
      BY <3>2, <3>3, <1>2
  <2>2. ASSUME NEW o \in OwedLog PROVE o \in OwedLog'
    <3>1. PICK j \in 1..Len(sent) :
             /\ ~Skipped(sent[j].time)
             /\ o \in Entries([id |-> j, n |-> sent[j].n]) \X {sent[j].time}
      BY DEF OwedLog
    <3>2. QED
      BY <3>1, <1>2 DEF OwedLog
  <2>3. ASSUME NEW o \in new \X {t} PROVE o \in OwedLog'
    <3>1. ~Skipped(t)
      BY <2>3
    <3>2. Len(sent) + 1 \in 1..Len(sent') /\ sent'[Len(sent) + 1].time = t
          /\ sent'[Len(sent) + 1].n = n
      BY <1>2
    <3>3. QED
      BY <2>3, <3>1, <3>2 DEF OwedLog
  <2>4. QED
    BY <2>1, <2>2, <2>3
<1>6. UNCHANGED <<durable, finalized, outPc>>
  BY DEF SendBatch
<1>7. QED
  BY <1>3, <1>4, <1>5, <1>6 DEF Log!Emit, SinkStatus

\* A received batch is written from the log's entries, with the finalized
\* time left alone; the thread goes on or fails.
LEMMA RecvBatchRefines == RInv /\ RecvBatch => Log!Deliver
<1> SUFFICES ASSUME RInv, RecvBatch PROVE Log!Deliver
  OBVIOUS
<1> DEFINE b == Head(chan)
<1>1. /\ chan # <<>> /\ chan' = Tail(chan) /\ outPc = "recv" /\ buffered = {}
      /\ b.kind = "Batch" /\ UNCHANGED <<sent, finalized>>
  BY DEF RecvBatch, RInv, NoBufferWhileRecv
<1>2. /\ b.id \in 1..Len(sent) /\ b.time = sent[b.id].time /\ b.n = sent[b.id].n
  <2>1. Len(chan) \in Nat \ {0} /\ b = chan[1]
    BY <1>1, TailFacts DEF RInv
  <2>2. QED
    BY <1>1, <2>1 DEF RInv, IInv, ChanMatchesSent
<1>3. ~Skipped(b.time) => Entries(b) \subseteq Log!OwedEntries
  <2> SUFFICES ASSUME ~Skipped(b.time), NEW e \in Entries(b)
               PROVE  e \in Log!OwedEntries
    OBVIOUS
  <2>1. e \in Entries([id |-> b.id, n |-> sent[b.id].n])
    BY <1>2 DEF Entries
  <2>2. <<e, sent[b.id].time>> \in OwedLog
    BY <1>2, <2>1 DEF OwedLog
  <2>3. QED
    BY <2>2 DEF Log!OwedEntries
<1>4. OwedLog' = OwedLog
  BY <1>1 DEF OwedLog
<1>5. \/ /\ durable' = durable \cup (IF Skipped(b.time) THEN {} ELSE Entries(b))
         /\ outPc' = "recv"
      \/ durable' = durable /\ outPc' = "failed"
  BY <1>1 DEF RecvBatch
<1>6. QED
  <2>1. \E more \in SUBSET Log!OwedEntries : durable' = durable \cup more
    <3>1. CASE durable' = durable \cup (IF Skipped(b.time) THEN {} ELSE Entries(b))
      <4>1. (IF Skipped(b.time) THEN {} ELSE Entries(b)) \in SUBSET Log!OwedEntries
        BY <1>3
      <4>2. QED
        BY <3>1, <4>1
    <3>2. CASE durable' = durable
      <4>1. {} \in SUBSET Log!OwedEntries /\ durable' = durable \cup {}
        BY <3>2
      <4>2. QED
        BY <4>1
    <3>3. QED
      BY <1>5, <3>1, <3>2
  <2>2. SinkStatus' \in {"running", "failed"}
    BY <1>5 DEF SinkStatus
  <2>3. QED
    BY <1>1, <1>4, <2>1, <2>2 DEF Log!Deliver, SinkStatus

\* A received commit records a covered time not behind the finalized one
\* (or none, without storage) and flushes nothing new; Commit(None) ends
\* the thread with everything owed durable.
LEMMA RecvCommitRefines == RInv /\ RecvCommit => Log!Deliver
<1> SUFFICES ASSUME RInv, RecvCommit PROVE Log!Deliver
  OBVIOUS
<1> DEFINE t == chan[1].time
<1>1. /\ chan # <<>> /\ outPc = "recv" /\ buffered = {}
      /\ chan[1].kind = "Commit" /\ UNCHANGED sent
      /\ finalized' = IF HasStorage THEN t ELSE finalized
      /\ durable' = durable
      /\ outPc' \in {IF t = NoTime THEN "done" ELSE "recv", "failed"}
  BY TailFacts DEF RecvCommit, CommitOutputTime, RInv, NoBufferWhileRecv
<1>2. /\ Len(chan) \in Nat \ {0}
      /\ chan[1] \in BatchEvent \cup CommitEvent
  BY <1>1, TailFacts, SeqElem DEF RInv, IInv, TypeOK
<1>3. t \in finalized..NoTime
  BY <1>1, <1>2 DEF RInv, CommitsOrdered, IInv, TypeOK
<1>4. \A i \in 1..Len(chan) : chan[i].kind = "Batch" => chan[i].time >= t
  BY <1>1, <1>2 DEF RInv, IInv, ChanOrdered
<1>5. Log!Covered(t)
  <2>1. t \in Nat
    BY <1>3 DEF RInv, IInv, TypeOK
  <2>2. QED
    BY <1>1, <1>4, <2>1, CoveredBefore
<1>6. t = NoTime => Log!OwedEntries \subseteq durable
  <2> SUFFICES ASSUME t = NoTime PROVE Log!OwedEntries \subseteq durable
    OBVIOUS
  <2>1. \A i \in 1..Len(chan) : chan[i].kind # "Batch"
    <3> SUFFICES ASSUME NEW i \in 1..Len(chan), chan[i].kind = "Batch" PROVE FALSE
      OBVIOUS
    <3>1. chan[i] \in BatchEvent \cup CommitEvent
      BY SeqElem DEF RInv, IInv, TypeOK
    <3>2. QED
      BY <3>1, <1>4
  <2>2. QED
    BY <1>1, <2>1, AllCovered
<1>7. OwedLog' = OwedLog
  BY <1>1 DEF OwedLog
<1>8. QED
  <2>0. SinkStatus = "running"
    BY <1>1 DEF SinkStatus
  <2>1. \E more \in SUBSET Log!OwedEntries : durable' = durable \cup more
    <3>1. {} \in SUBSET Log!OwedEntries /\ durable' = durable \cup {}
      BY <1>1
    <3>2. QED
      BY <3>1
  <2>2. finalized' \in {finalized} \cup {u \in finalized..NoTime : Log!Covered(u)}
    BY <1>1, <1>3, <1>5
  <2>3. SinkStatus' \in {"running", "failed"}
                         \cup (IF Log!OwedEntries \subseteq durable' THEN {"done"} ELSE {})
    BY <1>1, <1>6 DEF SinkStatus
  <2>4. QED
    BY <1>7, <2>0, <2>1, <2>2, <2>3 DEF Log!Deliver, Log!NoTime

\* A disconnected channel ends the thread with Ok: the channel is empty, so
\* everything owed is durable.
LEMMA RecvDisconnectedRefines == RInv /\ RecvDisconnected => Log!Deliver
<1> SUFFICES ASSUME RInv, RecvDisconnected PROVE Log!Deliver
  OBVIOUS
<1>1. /\ chan = <<>> /\ outPc = "recv" /\ outPc' = "done"
      /\ UNCHANGED <<sent, durable, finalized>>
  BY DEF RecvDisconnected
<1>2. Log!OwedEntries \subseteq durable
  BY <1>1, AllCovered
<1>3. OwedLog' = OwedLog
  BY <1>1 DEF OwedLog
<1>4. QED
  BY <1>1, <1>2, <1>3 DEF Log!Deliver, SinkStatus, Log!OwedEntries

\* Committing a frontier and dropping the sender change nothing the
\* abstract log sees: no entry, no durable write, no finalized time.
LEMMA DataflowStutters ==
    SendCommit \/ DropSender \/ UNCHANGED vars => UNCHANGED Log!vars
<1> SUFFICES ASSUME SendCommit \/ DropSender \/ UNCHANGED vars
             PROVE  UNCHANGED Log!vars
  OBVIOUS
<1>1. UNCHANGED <<sent, outPc, durable, finalized>>
  BY DEF SendCommit, DropSender, vars
<1>2. OwedLog' = OwedLog /\ SinkStatus' = SinkStatus
  BY <1>1 DEF OwedLog, SinkStatus
<1>3. QED
  BY <1>1, <1>2 DEF Log!vars

\* Every step of the connector is a step of the abstract log or leaves it
\* unchanged.
LEMMA RefineStep == RInv /\ [Next]_vars => [Log!Next]_Log!vars
<1> SUFFICES ASSUME RInv, [Next]_vars PROVE [Log!Next]_Log!vars
  OBVIOUS
<1>1. CASE SendBatch
  BY <1>1, SendBatchRefines DEF Log!Next
<1>2. CASE RecvBatch
  BY <1>2, RecvBatchRefines DEF Log!Next
<1>3. CASE RecvCommit
  BY <1>3, RecvCommitRefines DEF Log!Next
<1>4. CASE RecvDisconnected
  BY <1>4, RecvDisconnectedRefines DEF Log!Next
<1>5. CASE SendCommit \/ DropSender \/ UNCHANGED vars
  BY <1>5, DataflowStutters
<1>6. QED
  BY <1>1, <1>2, <1>3, <1>4, <1>5 DEF Next, Dataflow, OutputThread

\* The output connector (dataflow side, channel and output thread of
\* OutputSink) implements SinkLog under the mapping OwedLog / SinkStatus:
\* it writes only owed entries, finalizes a time only once every entry
\* owed before it is durable, and ends with Ok only when all is durable.
THEOREM Refinement == Spec => ImplementsSinkLog
<1>1. Init => Log!Init
  BY DEF Init, Log!Init, OwedLog, SinkStatus
<1>2. QED
  BY <1>1, InitRInv, NextRInv, RefineStep, PTL DEF Spec, ImplementsSinkLog, Log!Spec

====
