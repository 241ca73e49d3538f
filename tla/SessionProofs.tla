--------------------------- MODULE SessionProofs ----------------------------
(***************************************************************************)
(* Proofs about the NFSv4.1 sessions, which keep a request from running    *)
(* twice, for any sets of clients, sessions, slots, goroutines and         *)
(* requests.                                                               *)
(*                                                                         *)
(* SlotTable: no sequence id of a slot is executed twice, and what the     *)
(* client is told of its request is true.  V41Clients: the client tables,  *)
(* the sessions and the durable records agree, every CREATE_SESSION        *)
(* creates one session, and the slots keep their promise while clients     *)
(* come and go.                                                            *)
(***************************************************************************)
EXTENDS V41Clients, TLAPS

\* Zenon proves the steps that name no other prover.
USE ZenonT(20)

specVars == <<channelVars, work>>

\* SlotTypeOK, and a client that waits for a reply has sent something.
SlotTyped == SlotTypeOK /\ \A c \in Channels : cReply[c] = None => 0 < cSeq[c]

Busy(t) == pc[t] \in {"run", "ran"}

\* SlotHeld, with its one holder stated without sets: what the reservation by
\* ValidateSequence and the release by CompleteSlotRequest maintain.
OneHolder ==
  /\ \A c \in inUse : \E t \in Threads : Busy(t) /\ serving[t].chan = c
  /\ \A t, u \in Threads : Busy(t) /\ Busy(u) /\ serving[t].chan = serving[u].chan => t = u
  /\ \A t \in Threads : Busy(t) =>
       serving[t].chan \in inUse /\ serving[t].seq = seqID[serving[t].chan] + 1
  /\ \A t \in Threads : pc[t] = "run" => runs[serving[t].chan][serving[t].seq] = 0
  /\ \A c \in Channels, n \in SeqIDs :
       (IF c \in inUse THEN n > seqID[c] + 1 ELSE n > seqID[c]) => runs[c][n] = 0

SlotInv == SlotTyped /\ OneHolder /\ ExactlyOnce

\* What is in a slot is what its last completed request left there: a result is
\* that of the COMPOUND executed, and a missing one met a draining connection.
SlotKept ==
  \A c \in Channels :
    /\ seqID[c] = 0 => digest[c] = None /\ cachedReply[c] = None
    /\ seqID[c] > 0 =>
         /\ digest[c] \in Digests
         /\ effect[c][seqID[c]] = digest[c] \/ (effect[c][seqID[c]] = None /\ Does("drain"))
         /\ cachedReply[c] \in Digests =>
              cachedReply[c] = digest[c] /\ effect[c][seqID[c]] = digest[c]
         /\ cachedReply[c] \in Digests \cup {None, "DELAY-drained"}

\* What a goroutine has in hand belongs to a request the client has sent.
ThreadsServe ==
  \A t \in Threads :
    LET r == serving[t] IN
    /\ pc[t] # "idle" => r \in sent
    /\ pc[t] = "run" => effect[r.chan][r.seq] = None
    /\ pc[t] = "ran" =>
         \/ outcome[t] = r.digest /\ effect[r.chan][r.seq] = r.digest
         \/ outcome[t] = "DELAY-drained" /\ effect[r.chan][r.seq] = None /\ Does("drain")
    /\ pc[t] = "retry" =>
         \/ seqID[r.chan] > r.seq
         \/ seqID[r.chan] = r.seq /\ digest[r.chan] = r.digest

\* The client is never behind its slots, and has an answer only to what is complete.
ClientAhead ==
  /\ \A r \in sent : r.seq <= cSeq[r.chan] /\ 0 < cSeq[r.chan]
  /\ \A c \in Channels :
       /\ seqID[c] <= cSeq[c]
       /\ c \in inUse => seqID[c] < cSeq[c]
       /\ cReply[c] = "start" <=> cSeq[c] = 0
       /\ cReply[c] \notin {None, "start"} => seqID[c] = cSeq[c]
  /\ \A c \in Channels, n \in SeqIDs : runs[c][n] = 0 => effect[c][n] = None

ReplyInv == SlotKept /\ ThreadsServe /\ ClientAhead /\ TruthfulReply

-----------------------------------------------------------------------------

\* The slots start unused and nothing has been executed.
LEMMA SlotInvInit == SlotInit => SlotInv
<1> SUFFICES ASSUME SlotInit PROVE SlotInv
  OBVIOUS
<1> USE SlotConstants DEF SlotInit
<1>1. QED
  BY SMTT(20)
  DEF SlotInv, SlotTyped, SlotTypeOK, SeqIDs, Verdicts, None, OneHolder, Busy, ExactlyOnce

\* Every step keeps the slots well typed.
LEMMA TypeStep == SlotTyped /\ [SlotNext]_specVars => SlotTyped'
<1> SUFFICES ASSUME SlotTyped, [SlotNext]_specVars PROVE SlotTyped'
  OBVIOUS
<1>1. \A t \in Threads : pc[t] # "idle" =>
        /\ serving[t] \in Requests
        /\ serving[t].chan \in Channels /\ serving[t].seq \in SeqIDs
        /\ serving[t].digest \in Digests
  BY DEF SlotTyped, SlotTypeOK, Requests
<1>2. ASSUME NEW c \in Channels, NEW d \in Digests, Send(c, d) PROVE SlotTyped'
  <2>1. cSeq[c] + 1 \in SeqIDs /\ cSeq' \in [Channels -> 0..MaxSeqID]
    BY <1>2, SlotConstants, SMTT(20) DEF SlotTyped, SlotTypeOK, Send, SeqIDs
  <2>2. QED
    BY <1>2, <2>1, SlotConstants, SMTT(20)
    DEF SlotTyped, SlotTypeOK, Send, slotVars, threadVars, Requests
<1>3. ASSUME NEW c \in Channels, NEW d \in Digests, Reissue(c, d) PROVE SlotTyped'
  BY <1>1, <1>3, SlotConstants, SMTT(20)
  DEF SlotTyped, SlotTypeOK, Reissue, slotVars, threadVars, Requests, SeqIDs
<1>4. ASSUME NEW t \in Threads, NEW r \in sent, LookupSession(t, r) PROVE SlotTyped'
  BY <1>1, <1>4, SlotConstants
  DEF SlotTyped, SlotTypeOK, LookupSession, Goto, slotVars, wireVars
<1>5. ASSUME NEW t \in Threads, SeqNew(t) PROVE SlotTyped'
  BY <1>1, <1>5, SlotConstants, SMTT(20) DEF SlotTyped, SlotTypeOK, SeqNew, Goto, wireVars
<1>6. ASSUME NEW t \in Threads, SeqRetry(t) PROVE SlotTyped'
  BY <1>1, <1>6, SlotConstants DEF SlotTyped, SlotTypeOK, SeqRetry, Goto, slotVars, wireVars
<1>7. ASSUME NEW t \in Threads, SeqRefuse(t) PROVE SlotTyped'
  BY <1>1, <1>7, SlotConstants, ZenonT(40)
  DEF SlotTyped, SlotTypeOK, SeqRefuse, Deliver, Finish, Goto, slotVars, wireVars, Verdicts,
      None
<1>8. ASSUME NEW t \in Threads, ReplayReply(t) PROVE SlotTyped'
  BY <1>1, <1>8, SlotConstants, ZenonT(40)
  DEF SlotTyped, SlotTypeOK, ReplayReply, Deliver, Finish, Goto, slotVars, wireVars
<1>9. ASSUME NEW t \in Threads, Execute(t) PROVE SlotTyped'
  BY <1>1, <1>9, SlotConstants, SMTT(20)
  DEF SlotTyped, SlotTypeOK, Execute, Goto, slotVars, wireVars
<1>10. ASSUME NEW t \in Threads, Drain(t) PROVE SlotTyped'
  BY <1>1, <1>10, SlotConstants
  DEF SlotTyped, SlotTypeOK, Drain, Goto, slotVars, wireVars, Verdicts
<1>11. ASSUME NEW t \in Threads, CompleteSlotRequest(t) PROVE SlotTyped'
  <2>1. serving[t].chan \in Channels /\ serving[t].seq \in SeqIDs /\ serving[t].digest \in Digests
    BY <1>1, <1>11 DEF CompleteSlotRequest
  <2>2. /\ seqID' \in [Channels -> 0..MaxSeqID] /\ inUse' \subseteq Channels
        /\ digest' \in [Channels -> Digests \cup {None}]
        /\ cachedReply' \in [Channels -> Digests \cup Verdicts \cup {None}]
    BY <1>11, <2>1, SlotConstants, SMTT(40)
    DEF SlotTyped, SlotTypeOK, CompleteSlotRequest, SeqIDs
  <2>3. /\ UNCHANGED <<sent, cSeq, cReq>>
        /\ cReply' \in [Channels -> Digests \cup Verdicts \cup {None, "start"}]
        /\ \A x \in Channels : cReply'[x] = None => 0 < cSeq'[x]
    BY <1>11, <2>1, SlotConstants, ZenonT(40)
    DEF SlotTyped, SlotTypeOK, CompleteSlotRequest, Deliver, SeqIDs
  <2>4. /\ pc' \in [Threads -> {"idle", "found", "retry", "run", "ran"}]
        /\ serving' \in [Threads -> Requests \cup {NoRequest}]
        /\ \A x \in Threads : pc'[x] # "idle" => serving'[x] \in Requests
        /\ outcome' \in [Threads -> Digests \cup Verdicts \cup {None}]
    BY <1>11 DEF SlotTyped, SlotTypeOK, CompleteSlotRequest, Finish, Goto
  <2>5. QED
    BY <1>11, <2>2, <2>3, <2>4 DEF SlotTyped, SlotTypeOK, CompleteSlotRequest
<1>12. ASSUME NEW s \in Sessions, NEW force \in BOOLEAN, DestroySession(s, force) PROVE SlotTyped'
  BY <1>1, <1>12, SlotConstants DEF SlotTyped, SlotTypeOK, DestroySession, threadVars, wireVars
<1>13. CASE UNCHANGED specVars
  BY <1>13 DEF SlotTyped, SlotTypeOK, specVars, channelVars, slotVars, threadVars, wireVars
<1>14. QED
  BY <1>2, <1>3, <1>4, <1>5, <1>6, <1>7, <1>8, <1>9, <1>10, <1>11, <1>12, <1>13
  DEF SlotNext, ClientNext, ServeNext

\* The inductive step: a slot is reserved by one goroutine, for a sequence id that
\* has not run.
LEMMA HolderStep == SlotInv /\ SlotTyped' /\ [SlotNext]_specVars => (OneHolder /\ ExactlyOnce)'
<1> SUFFICES ASSUME SlotInv, SlotTyped', [SlotNext]_specVars PROVE (OneHolder /\ ExactlyOnce)'
  OBVIOUS
<1> USE SlotConstants DEF SlotInv
<1>1. \A t \in Threads : pc[t] # "idle" =>
        /\ serving[t].chan \in Channels /\ serving[t].seq \in SeqIDs
        /\ serving[t].digest \in Digests
  BY DEF SlotTyped, SlotTypeOK, Requests
<1>2. /\ pc \in [Threads -> {"idle", "found", "retry", "run", "ran"}]
      /\ serving \in [Threads -> Requests \cup {NoRequest}]
      /\ seqID \in [Channels -> 0..MaxSeqID]
      /\ inUse \subseteq Channels
      /\ runs \in [Channels -> [SeqIDs -> Nat]]
  BY DEF SlotTyped, SlotTypeOK
<1>3. SeqIDs \subseteq Nat
  BY SMTT(20) DEF SeqIDs
<1>4. ASSUME NEW c \in Channels, NEW d \in Digests, Send(c, d) PROVE (OneHolder /\ ExactlyOnce)'
  BY <1>1, <1>2, <1>3, <1>4, SMTT(20)
  DEF OneHolder, Busy, ExactlyOnce, Send, slotVars, threadVars
<1>5. ASSUME NEW c \in Channels, NEW d \in Digests, Reissue(c, d) PROVE (OneHolder /\ ExactlyOnce)'
  BY <1>1, <1>2, <1>3, <1>5 DEF OneHolder, Busy, ExactlyOnce, Reissue, slotVars, threadVars
<1>6. ASSUME NEW t \in Threads, NEW r \in sent, LookupSession(t, r) PROVE (OneHolder /\ ExactlyOnce)'
  BY <1>1, <1>2, <1>3, <1>6, SMTT(20)
  DEF OneHolder, Busy, ExactlyOnce, LookupSession, Goto, slotVars, wireVars
<1>7. ASSUME NEW t \in Threads, SeqNew(t) PROVE (OneHolder /\ ExactlyOnce)'
  BY <1>1, <1>2, <1>3, <1>7, SMTT(20) DEF OneHolder, Busy, ExactlyOnce, SeqNew, Goto, wireVars
<1>8. ASSUME NEW t \in Threads, SeqRetry(t) PROVE (OneHolder /\ ExactlyOnce)'
  BY <1>1, <1>2, <1>3, <1>8, SMTT(20)
  DEF OneHolder, Busy, ExactlyOnce, SeqRetry, Goto, slotVars, wireVars
<1>9. ASSUME NEW t \in Threads, SeqRefuse(t) PROVE (OneHolder /\ ExactlyOnce)'
  BY <1>1, <1>2, <1>3, <1>9, SMTT(20)
  DEF OneHolder, Busy, ExactlyOnce, SeqRefuse, Finish, Goto, slotVars
<1>10. ASSUME NEW t \in Threads, ReplayReply(t) PROVE (OneHolder /\ ExactlyOnce)'
  BY <1>1, <1>2, <1>3, <1>10, SMTT(20)
  DEF OneHolder, Busy, ExactlyOnce, ReplayReply, Finish, Goto, slotVars
<1>11. ASSUME NEW t \in Threads, Execute(t) PROVE (OneHolder /\ ExactlyOnce)'
  BY <1>1, <1>2, <1>3, <1>11, SMTT(20) DEF OneHolder, Busy, ExactlyOnce, Execute, Goto, slotVars
<1>12. ASSUME NEW t \in Threads, Drain(t) PROVE (OneHolder /\ ExactlyOnce)'
  BY <1>1, <1>2, <1>3, <1>12, SMTT(20) DEF OneHolder, Busy, ExactlyOnce, Drain, Goto, slotVars
<1>13. ASSUME NEW t \in Threads, CompleteSlotRequest(t) PROVE (OneHolder /\ ExactlyOnce)'
  BY <1>1, <1>2, <1>3, <1>13, SMTT(20)
  DEF OneHolder, Busy, ExactlyOnce, CompleteSlotRequest, Finish, Goto
<1>14. ASSUME NEW s \in Sessions, NEW force \in BOOLEAN, DestroySession(s, force)
       PROVE  (OneHolder /\ ExactlyOnce)'
  BY <1>1, <1>2, <1>3, <1>14, SMTT(20)
  DEF OneHolder, Busy, ExactlyOnce, DestroySession, threadVars
<1>15. CASE UNCHANGED specVars
  BY <1>15, SMTT(20)
  DEF OneHolder, Busy, ExactlyOnce, specVars, channelVars, slotVars, threadVars
<1>16. QED
  BY <1>4, <1>5, <1>6, <1>7, <1>8, <1>9, <1>10, <1>11, <1>12, <1>13, <1>14, <1>15
  DEF SlotNext, ClientNext, ServeNext

\* SlotInv is an invariant.
THEOREM SlotInvariant == SlotSpec => []SlotInv
<1>1. SlotInv /\ [SlotNext]_specVars => SlotInv'
  BY TypeStep, HolderStep DEF SlotInv
<1>2. QED
  BY <1>1, SlotInvInit, PTL DEF SlotSpec, specVars

\* No COMPOUND is executed twice for a sequence id of a slot, for any number of
\* copies, goroutines, slots and sessions (ValidateSequence, CompleteSlotRequest).
THEOREM ExecutedOnce == SlotSpec => []ExactlyOnce
<1>1. SlotInv => ExactlyOnce
  BY DEF SlotInv
<1>2. QED
  BY <1>1, SlotInvariant, PTL

\* A slot is in use exactly while one goroutine serves the next sequence id.
THEOREM SlotReserved == SlotSpec => []SlotHeld
<1>1. SlotInv => SlotHeld
  <2> SUFFICES ASSUME SlotInv PROVE SlotHeld
    OBVIOUS
  <2>1. ASSUME NEW c \in inUse PROVE \E t \in Threads : Holder(c) = {t}
    BY <2>1, SMTT(20) DEF SlotInv, OneHolder, Busy, Holder
  <2>2. ASSUME NEW c \in Channels, NEW n \in SeqIDs,
               n > seqID[c] + (IF c \in inUse THEN 1 ELSE 0)
        PROVE runs[c][n] = 0
    BY <2>2, SlotConstants, SMTT(20) DEF SlotInv, SlotTyped, SlotTypeOK, SeqIDs, OneHolder
  <2>3. QED
    BY <2>1, <2>2 DEF SlotInv, OneHolder, SlotHeld, Busy
<1>2. QED
  BY <1>1, SlotInvariant, PTL

-----------------------------------------------------------------------------

\* Nothing has been sent, executed or answered.
LEMMA ReplyInvInit == SlotInit => ReplyInv
<1> SUFFICES ASSUME SlotInit PROVE ReplyInv
  OBVIOUS
<1>1. QED
  BY SlotConstants, SMTT(20)
  DEF ReplyInv, SlotInit, SlotKept, ThreadsServe, ClientAhead, SeqIDs, None, TruthfulReply

\* The inductive step: slots, goroutines and client keep telling one story.
LEMMA ReplyStep ==
  SlotInv /\ SlotInv' /\ ReplyInv /\ [SlotNext]_specVars => ReplyInv'
<1> SUFFICES ASSUME SlotInv, SlotInv', ReplyInv, [SlotNext]_specVars PROVE ReplyInv'
  OBVIOUS
<1>1. SlotTypeOK /\ SlotTypeOK' /\ (\A c \in Channels : cReply[c] = None => 0 < cSeq[c])
  BY DEF SlotInv, SlotTyped
<1>2. SeqIDs \subseteq Nat \ {0} /\ 0..MaxSeqID \subseteq Nat
  BY SlotConstants, SMTT(20) DEF SeqIDs
<1>3. /\ None \notin Digests /\ "start" \notin Digests /\ "DELAY-drained" \notin Digests
      /\ "RETRY_UNCACHED_REP" \notin Digests /\ "SEQ_FALSE_RETRY" \notin Digests
      /\ None \notin {"start", "DELAY-drained", "RETRY_UNCACHED_REP", "SEQ_FALSE_RETRY"}
  BY SlotConstants DEF Verdicts, None
<1>4. \A t \in Threads : pc[t] # "idle" =>
        /\ serving[t].chan \in Channels /\ serving[t].seq \in SeqIDs
        /\ serving[t].digest \in Digests
  BY <1>1 DEF SlotTypeOK, Requests
<1>5. /\ \A t, u \in Threads : Busy(t) /\ Busy(u) /\ serving[t].chan = serving[u].chan => t = u
      /\ \A t \in Threads : Busy(t) =>
           serving[t].chan \in inUse /\ serving[t].seq = seqID[serving[t].chan] + 1
  BY DEF SlotInv, OneHolder
<1>6. ASSUME NEW c \in Channels, NEW d \in Digests,
            Send(c, d), UNCHANGED work
      PROVE ReplyInv'
  <2>1. ClientAhead'
    <3>1. \A r \in sent' : r.seq <= cSeq'[r.chan] /\ 0 < cSeq'[r.chan]
      <4> SUFFICES ASSUME NEW r \in sent'
                   PROVE r.seq <= cSeq'[r.chan] /\ 0 < cSeq'[r.chan]
        OBVIOUS
      <4>1. CASE r \in sent
        <5>1. r.chan \in Channels /\ r.seq \in Nat
          BY <1>1, <1>2, <4>1 DEF SlotTypeOK, Requests
        <5>2. QED
          BY <1>1, <1>2, <1>6, <4>1, <5>1, SMTT(20) DEF ReplyInv, ClientAhead, SlotTypeOK, Send
      <4>2. CASE r = [chan |-> c, seq |-> cSeq[c] + 1, digest |-> d]
        BY <1>1, <1>2, <1>6, <4>2, SMTT(20) DEF SlotTypeOK, Send
      <4>3. QED
        BY <1>6, <4>1, <4>2 DEF Send
    <3>2. QED
      BY <1>1, <1>2, <1>3, <1>6, <3>1, SMTT(20)
      DEF SlotTypeOK, ReplyInv, ClientAhead, Send, slotVars
  <2>2. TruthfulReply'
    BY <1>1, <1>2, <1>3, <1>6, SMTT(20) DEF SlotTypeOK, ReplyInv, TruthfulReply, Does, Send
  <2>3. QED
    BY <1>1, <1>6, <2>1, <2>2
    DEF ReplyInv, SlotKept, Does, Send, slotVars, SlotTypeOK, ThreadsServe, threadVars
<1>7. ASSUME NEW c \in Channels, NEW d \in Digests,
            Reissue(c, d), UNCHANGED work
      PROVE ReplyInv'
  <2>1. ClientAhead'
    BY <1>1, <1>2, <1>7, SMTT(20)
    DEF SlotTypeOK, SeqIDs, ReplyInv, ClientAhead, Reissue, slotVars
  <2>2. TruthfulReply'
    BY <1>1, <1>3, <1>7, SMTT(20) DEF SlotTypeOK, ReplyInv, TruthfulReply, Does, Reissue
  <2>3. QED
    BY <1>1, <1>7, <2>1, <2>2
    DEF ReplyInv, SlotKept, Does, Reissue, slotVars, SlotTypeOK, ThreadsServe, threadVars
<1>8. ASSUME NEW t \in Threads, NEW r \in sent,
            LookupSession(t, r), UNCHANGED work
      PROVE ReplyInv'
  <2>1. ThreadsServe'
    BY <1>1, <1>8, SMTT(20)
    DEF SlotTypeOK, ReplyInv, ThreadsServe, Does, LookupSession, Goto, slotVars, wireVars
  <2>2. QED
    BY <1>8, <2>1
    DEF ReplyInv, SlotKept, Does, LookupSession, slotVars, ClientAhead, wireVars, TruthfulReply
<1>9. ASSUME NEW t \in Threads, SeqNew(t), UNCHANGED work
      PROVE ReplyInv'
  <2>1. ThreadsServe'
    <3>1. runs[serving[t].chan][serving[t].seq] = 0
      BY <1>1, <1>9, SMTT(20) DEF SlotInv, OneHolder, SeqNew, Goto, SlotTypeOK
    <3>2. effect[serving[t].chan][serving[t].seq] = None
      BY <1>4, <1>9, <3>1 DEF ReplyInv, ClientAhead, SeqNew
    <3>3. QED
      BY <1>1, <1>9, <3>2, SMTT(20)
      DEF SlotTypeOK, ReplyInv, ThreadsServe, Does, SeqNew, Goto, wireVars
  <2>2. ClientAhead'
    BY <1>1, <1>2, <1>4, <1>9, SMTT(20)
    DEF ReplyInv, ThreadsServe, SeqNew, ClientAhead, SlotTypeOK, wireVars
  <2>3. QED
    BY <1>9, <2>1, <2>2 DEF ReplyInv, SlotKept, Does, SeqNew, TruthfulReply, wireVars
<1>10. ASSUME NEW t \in Threads, SeqRetry(t), UNCHANGED work
       PROVE ReplyInv'
  <2>1. ThreadsServe'
    BY <1>1, <1>2, <1>3, <1>4, <1>10, SMTT(20)
    DEF SlotTypeOK, ReplyInv, SlotKept, ThreadsServe, Does, SeqRetry, IsRetry, FalseRetry, Goto,
        slotVars, wireVars
  <2>2. QED
    BY <1>10, <2>1
    DEF ReplyInv, SlotKept, Does, SeqRetry, slotVars, ClientAhead, wireVars, TruthfulReply
<1>11. ASSUME NEW t \in Threads, SeqRefuse(t), UNCHANGED work
       PROVE ReplyInv'
  <2>1. ThreadsServe'
    BY <1>1, <1>11, SMTT(20)
    DEF SlotTypeOK, ReplyInv, ThreadsServe, Does, SeqRefuse, Deliver, Finish, Goto, slotVars,
        wireVars
  <2>2. ClientAhead'
    BY <1>1, <1>2, <1>3, <1>4, <1>11, SMTT(20)
    DEF SlotTypeOK, ReplyInv, ClientAhead, SeqRefuse, IsRetry, Deliver, slotVars, wireVars
  <2>3. TruthfulReply'
    BY <1>1, <1>2, <1>3, <1>4, <1>11, SMTT(20)
    DEF SlotTypeOK, ReplyInv, SlotKept, TruthfulReply, Does, SeqRefuse, IsRetry, FalseRetry,
        Deliver, slotVars, wireVars
  <2>4. QED
    BY <1>11, <2>1, <2>2, <2>3 DEF ReplyInv, SlotKept, Does, SeqRefuse, slotVars
<1>12. ASSUME NEW t \in Threads, ReplayReply(t), UNCHANGED work
       PROVE ReplyInv'
  <2>1. ThreadsServe'
    BY <1>1, <1>12, SMTT(20)
    DEF SlotTypeOK, ReplyInv, ThreadsServe, Does, ReplayReply, Deliver, Finish, Goto, slotVars,
        wireVars
  <2>2. ClientAhead'
    <3> DEFINE c == serving[t].chan
    <3>1. CASE UNCHANGED cReply
      BY <1>12, <3>1 DEF ReplyInv, ClientAhead, ReplayReply, Deliver, slotVars, wireVars
    <3>2. CASE /\ cSeq[c] = serving[t].seq /\ cReq[c] = serving[t].digest /\ cReply[c] = None
               /\ cReply' = [cReply EXCEPT ![c] = cachedReply[c]]
               /\ UNCHANGED <<sent, cSeq, cReq>>
      <4>1. c \in Channels /\ cSeq[c] \in Nat \ {0} /\ seqID[c] \in Nat
        BY <1>1, <1>2, <1>4, <1>12, <3>2 DEF SlotTypeOK, ReplayReply
      <4>2. seqID[c] = cSeq[c]
        BY <1>12, <3>2, <4>1, SMTT(20) DEF ReplyInv, ThreadsServe, ClientAhead, ReplayReply
      <4>3. QED
        BY <1>1, <1>3, <1>12, <3>2, <4>1, <4>2, SMTT(20)
        DEF SlotTypeOK, ReplyInv, ClientAhead, ReplayReply, slotVars, SlotKept
    <3>3. QED
      BY <1>12, <3>1, <3>2 DEF ReplayReply, Deliver, wireVars
  <2>3. TruthfulReply'
    <3> DEFINE c == serving[t].chan
    <3>1. CASE UNCHANGED cReply
      BY <1>12, <3>1 DEF ReplyInv, TruthfulReply, Does, ReplayReply, Deliver, wireVars
    <3>2. CASE /\ cSeq[c] = serving[t].seq /\ cReq[c] = serving[t].digest /\ cReply[c] = None
               /\ cReply' = [cReply EXCEPT ![c] = cachedReply[c]]
               /\ UNCHANGED <<sent, cSeq, cReq>>
      <4>1. c \in Channels /\ cSeq[c] \in Nat \ {0} /\ seqID[c] \in Nat
        BY <1>1, <1>2, <1>4, <1>12, <3>2 DEF SlotTypeOK, ReplayReply
      <4>2. /\ cachedReply[c] \in Digests =>
                 cachedReply[c] = cReq[c] /\ effect[c][cSeq[c]] = cReq[c]
            /\ cachedReply[c] \in Digests \cup {None, "DELAY-drained"}
        BY <1>12, <3>2, <4>1, SMTT(20)
        DEF ReplyInv, SlotKept, ThreadsServe, ClientAhead, ReplayReply
      <4>3. QED
        BY <1>1, <1>3, <1>12, <3>2, <4>1, <4>2, SMTT(20)
        DEF SlotTypeOK, ReplyInv, TruthfulReply, Does, ReplayReply
    <3>3. QED
      BY <1>12, <3>1, <3>2 DEF ReplayReply, Deliver, wireVars
  <2>4. QED
    BY <1>12, <2>1, <2>2, <2>3 DEF ReplyInv, SlotKept, Does, ReplayReply, slotVars
<1>13. ASSUME NEW t \in Threads, Execute(t), UNCHANGED work
       PROVE ReplyInv'
  <2>1. SlotKept'
    BY <1>1, <1>2, <1>4, <1>5, <1>13, SMTT(20)
    DEF SlotTypeOK, Busy, ReplyInv, SlotKept, ThreadsServe, Does, Execute, slotVars
  <2>2. ThreadsServe'
    BY <1>1, <1>2, <1>4, <1>5, <1>13, SMTT(20)
    DEF SlotTypeOK, Busy, ReplyInv, ThreadsServe, Does, Execute, Goto, slotVars, wireVars
  <2>3. ClientAhead'
    BY <1>1, <1>2, <1>4, <1>13, SMTT(20)
    DEF SlotTypeOK, ReplyInv, ClientAhead, Execute, slotVars, wireVars
  <2>4. TruthfulReply'
    BY <1>1, <1>2, <1>3, <1>4, <1>5, <1>13, SMTT(20)
    DEF SlotTypeOK, Busy, ReplyInv, ThreadsServe, ClientAhead, TruthfulReply, Does, Execute,
        slotVars, wireVars
  <2>5. QED
    BY <2>1, <2>2, <2>3, <2>4 DEF ReplyInv
<1>14. ASSUME NEW t \in Threads, Drain(t), UNCHANGED work
       PROVE ReplyInv'
  <2>1. ThreadsServe'
    BY <1>1, <1>4, <1>14, SMTT(20)
    DEF SlotTypeOK, ReplyInv, ThreadsServe, Does, Drain, Goto, slotVars, wireVars
  <2>2. QED
    BY <1>14, <2>1
    DEF ReplyInv, SlotKept, Does, Drain, slotVars, ClientAhead, wireVars, TruthfulReply
<1>15. ASSUME NEW t \in Threads,
             CompleteSlotRequest(t), UNCHANGED work
       PROVE ReplyInv'
  <2>1. SlotKept'
    BY <1>1, <1>2, <1>3, <1>4, <1>15, SMTT(20)
    DEF SlotTypeOK, ReplyInv, SlotKept, ThreadsServe, Does, CompleteSlotRequest
  <2>2. ThreadsServe'
    <3> DEFINE c == serving[t].chan
    <3>1. /\ c \in Channels /\ seqID[c] \in Nat /\ serving[t].seq = seqID[c] + 1
          /\ seqID' = [seqID EXCEPT ![c] = seqID[c] + 1]
          /\ digest' = [digest EXCEPT ![c] = serving[t].digest]
      BY <1>1, <1>2, <1>4, <1>5, <1>15 DEF SlotTypeOK, Busy, CompleteSlotRequest
    <3>2. ASSUME NEW u \in Threads, pc[u] = "retry"
          PROVE \/ seqID'[serving[u].chan] > serving[u].seq
                \/ seqID'[serving[u].chan] = serving[u].seq
                   /\ digest'[serving[u].chan] = serving[u].digest
      <4>1. serving[u].chan \in Channels /\ serving[u].seq \in Nat
        BY <1>2, <1>4, <3>2
      <4>2. CASE serving[u].chan = c
        BY <1>1, <3>1, <3>2, <4>1, <4>2, SMTT(20) DEF SlotTypeOK, ReplyInv, ThreadsServe
      <4>3. CASE serving[u].chan # c
        BY <1>1, <3>1, <3>2, <4>1, <4>3, SMTT(20) DEF SlotTypeOK, ReplyInv, ThreadsServe
      <4>4. QED
        BY <4>2, <4>3
    <3>3. QED
      BY <1>1, <1>15, <3>2, SMTT(20)
      DEF SlotTypeOK, ReplyInv, ThreadsServe, Does, CompleteSlotRequest, Deliver, Finish, Goto
  <2>3. ClientAhead'
    BY <1>1, <1>2, <1>3, <1>4, <1>5, <1>15, SMTT(20)
    DEF SlotTypeOK, Busy, ReplyInv, ThreadsServe, ClientAhead, CompleteSlotRequest, Deliver
  <2>4. TruthfulReply'
    BY <1>1, <1>2, <1>3, <1>4, <1>5, <1>15, SMTT(20)
    DEF SlotTypeOK, Busy, ReplyInv, ThreadsServe, ClientAhead, TruthfulReply, Does,
        CompleteSlotRequest, Deliver
  <2>5. QED
    BY <2>1, <2>2, <2>3, <2>4 DEF ReplyInv
<1>16. ASSUME NEW s \in Sessions, NEW force \in BOOLEAN,
             DestroySession(s, force), UNCHANGED work
       PROVE ReplyInv'
  <2>1. ClientAhead'
    BY <1>16 DEF ReplyInv, ClientAhead, DestroySession, wireVars
  <2>2. QED
    BY <1>1, <1>16, <2>1
    DEF ReplyInv, SlotKept, Does, DestroySession, SlotTypeOK, ThreadsServe, threadVars,
        wireVars, TruthfulReply
<1>17. CASE UNCHANGED specVars
  BY <1>17, SMTT(20)
  DEF ReplyInv, SlotKept, ThreadsServe, ClientAhead, TruthfulReply, Does, specVars, channelVars,
      slotVars, threadVars, wireVars
<1>18. QED
  BY <1>6, <1>7, <1>8, <1>9, <1>10, <1>11, <1>12, <1>13, <1>14, <1>15, <1>16, <1>17
  DEF SlotNext, ClientNext, ServeNext

\* What a client is told of its COMPOUND is true, however its requests and their
\* replies are lost, copied and reordered and whatever the goroutines of the
\* server interleave (slot_table.go, compound.go): the result it accepts is that
\* of its own COMPOUND, executed; a false retry was not executed.
THEOREM TruthfulReplies == SlotSpec => []TruthfulReply
<1>1. ReplyInv => TruthfulReply
  BY DEF ReplyInv
<1>2. SlotInit /\ work \in Workloads => ReplyInv
  BY ReplyInvInit
<1>3. SlotSpec => [][SlotNext]_specVars
  BY PTL DEF SlotSpec, specVars
<1>4. QED
  BY <1>1, <1>2, <1>3, SlotInvariant, ReplyStep, PTL DEF SlotSpec

v41SpecVars == <<channelVars, v41Vars, work>>
V41Step == [V41Next /\ UNCHANGED work]_v41SpecVars

V41RecordType ==
  [owner : V41Owners \cup {None}, verifier : Verifiers \cup {None},
   seq : 0..Cardinality(Sessions), cached : Sessions \cup {None}, confirmed : BOOLEAN]

\* The part of V41TypeOK that is about the client tables; a record has an owner
\* and a verifier, and client ids are handed out in order.
V41Typed ==
  /\ v41ByID \in [ClientIDs -> V41RecordType]
  /\ v41ByOwner \in [V41Owners -> {0} \cup ClientIDs]
  /\ nextClient \in 1..(MaxClientIDs + 1)
  /\ lapsed \subseteq ClientIDs
  /\ sessionsByID \subseteq Sessions
  /\ sessionOf \in [Sessions -> {0} \cup ClientIDs]
  /\ v41Recovery \in [V41Owners -> Verifiers \cup {None}]
  /\ told \subseteq ClientIDs \X (1..Cardinality(Sessions)) \X Sessions
  /\ \A id \in ClientIDs : v41ByID[id] # NoRecord =>
       v41ByID[id].owner \in V41Owners /\ v41ByID[id].verifier \in Verifiers /\ id < nextClient

\* What CREATE_SESSION has told of an id that is still there goes up to the
\* sequence id of its record, whose cached reply is the last thing told; what a
\* session was once created for stays with it.
ToldByRecord ==
  /\ \A e \in told : e[1] < nextClient /\ sessionOf[e[3]] # 0
  /\ \A e \in told : v41ByID[e[1]] # NoRecord => e[2] <= v41ByID[e[1]].seq
  /\ \A id \in ClientIDs : v41ByID[id].cached # None =>
       <<id, v41ByID[id].seq, v41ByID[id].cached>> \in told

V41Inv == V41Typed /\ TablesAgree /\ RecoveryCurrent /\ ToldByRecord /\ CreateOnce

-----------------------------------------------------------------------------

\* No client is registered at the start.
LEMMA V41InvInit == V41Init => V41Inv
<1> SUFFICES ASSUME V41Init PROVE V41Inv
  OBVIOUS
<1>1. TablesAgree /\ RecoveryCurrent
  BY V41Constants DEF V41Init, TablesAgree, RecoveryCurrent, V41Registered
<1>2. QED
  BY <1>1, V41Constants, SMTT(20)
  DEF V41Inv, V41Init, V41Typed, V41RecordType, NoRecord, NewRecord, ClientIDs, ToldByRecord,
      CreateOnce

\* No step of the fore channels creates a session.
LEMMA ChannelStep ==
  SlotNext => sessionsByID' \subseteq sessionsByID
  BY DEF SlotNext, ClientNext, ServeNext, Send, Reissue, LookupSession, SeqRetry, SeqRefuse,
         ReplayReply, Drain, CompleteSlotRequest, SeqNew, Execute, DestroySession, slotVars

\* Steps that leave the client records alone keep the invariant.
LEMMA QuietStep ==
  ASSUME V41Inv, UNCHANGED <<v41ByID, v41ByOwner, nextClient, sessionOf, v41Recovery, told>>,
         sessionsByID' \subseteq sessionsByID, lapsed' \subseteq ClientIDs
  PROVE  V41Inv'
  BY DEF V41Inv, V41Typed, TablesAgree, RecoveryCurrent, V41Registered, ToldByRecord, CreateOnce

\* purgeV41Client drops the record, its sessions and its durable record together.
LEMMA PurgeStep ==
  ASSUME V41Inv, NEW ids \in SUBSET ClientIDs, Purge(ids)
  PROVE  V41Inv'
<1> USE V41Constants DEF Purge, RecordsWithout, OwnersWithout, SessionsWithout, RecoveryWithout
<1>1. NoRecord \in V41RecordType /\ NoRecord.cached = None
  BY V41Constants, SMTT(20) DEF V41RecordType, NoRecord, NewRecord
<1>2. RecoveryCurrent'
  <2> SUFFICES ASSUME NEW o \in V41Owners
      PROVE v41Recovery'[o] = IF v41ByOwner'[o] # 0 /\ v41ByID'[v41ByOwner'[o]].confirmed
                              THEN v41ByID'[v41ByOwner'[o]].verifier ELSE None
    BY DEF RecoveryCurrent
  <2>1. CASE v41ByOwner[o] \in ids
    BY <2>1 DEF ClientIDs, V41Inv, TablesAgree, RecoveryCurrent
  <2>2. CASE v41ByOwner[o] \notin ids
    BY <2>2, SMTT(20)
    DEF V41Inv, V41Typed, RecoveryCurrent, TablesAgree, V41Registered, NoRecord, NewRecord
  <2>3. QED
    BY <2>1, <2>2
<1>3. QED
  BY <1>1, <1>2, SMTT(20)
  DEF V41Inv, V41Typed, TablesAgree, V41Registered, ToldByRecord, CreateOnce

\* EXCHANGE_ID replaces the incarnation of an owner by one with a fresh id.
LEMMA ExchangeStep ==
  ASSUME V41Inv, NEW o \in V41Owners, NEW v \in Verifiers, ExchangeID(o, v)
  PROVE  V41Inv'
<1> DEFINE old == {v41ByOwner[o]} \ {0}
           new == NewRecord(o, v)
<1> USE V41Constants
<1>1. /\ nextClient \in ClientIDs
      /\ v41ByID' = [RecordsWithout(old) EXCEPT ![nextClient] = new]
      /\ v41ByOwner' = [v41ByOwner EXCEPT ![o] = nextClient]
      /\ nextClient' = nextClient + 1
      /\ sessionsByID' = SessionsWithout(old)
      /\ v41Recovery' = RecoveryWithout(old)
      /\ lapsed' = lapsed \ old
      /\ UNCHANGED <<sessionOf, told>>
  BY DEF ExchangeID
<1>2. /\ new \in V41RecordType /\ new.owner = o /\ new.verifier = v /\ new.cached = None
      /\ ~new.confirmed /\ new # NoRecord /\ NoRecord.cached = None
  BY V41Constants, SMTT(20) DEF V41RecordType, NewRecord, NoRecord
<1>3. /\ v41ByID'[nextClient] = new
      /\ \A id \in ClientIDs \ {nextClient} :
           v41ByID'[id] = IF id \in old THEN NoRecord ELSE v41ByID[id]
  BY <1>1 DEF RecordsWithout, V41Inv, V41Typed
<1>4. /\ v41ByOwner'[o] = nextClient
      /\ \A p \in V41Owners \ {o} : v41ByOwner'[p] = v41ByOwner[p]
  BY <1>1 DEF V41Inv, V41Typed
<1>5. nextClient \notin old /\ \A p \in V41Owners : v41ByOwner[p] # nextClient
  BY SMTT(20) DEF V41Inv, V41Typed, TablesAgree, V41Registered, NoRecord, NewRecord
<1>6. V41Typed'
  <2>1. nextClient' \in 1..(MaxClientIDs + 1) /\ nextClient < nextClient'
    BY <1>1, SMTT(20) DEF ClientIDs
  <2>2. ASSUME NEW id \in ClientIDs, v41ByID'[id] # NoRecord
        PROVE /\ v41ByID'[id].owner \in V41Owners /\ v41ByID'[id].verifier \in Verifiers
              /\ id < nextClient'
    <3>1. CASE id = nextClient
      BY <1>2, <1>3, <2>1, <3>1
    <3>2. CASE id # nextClient
      <4>1. v41ByID'[id] = v41ByID[id]
        BY <1>3, <2>2, <3>2
      <4>2. QED
        BY <1>1, <2>1, <2>2, <4>1, SMTT(20) DEF ClientIDs, V41Inv, V41Typed
    <3>3. QED
      BY <3>1, <3>2
  <2>3. QED
    BY <1>1, <1>2, <2>1, <2>2, V41Constants
    DEF V41Inv, V41Typed, RecordsWithout, V41RecordType, NoRecord, NewRecord, RecoveryWithout,
        SessionsWithout
<1>7. \A id \in ClientIDs : v41ByID[id].owner = o => id \in old
  BY SMTT(20) DEF V41Inv, TablesAgree, V41Registered, NoRecord, NewRecord, ClientIDs
<1>8. \A p \in V41Owners \ {o} : v41ByOwner[p] \notin old
  BY DEF V41Inv, TablesAgree
<1>9. TablesAgree'
  <2>1. ASSUME NEW id \in ClientIDs, v41ByID'[id] # NoRecord
        PROVE v41ByOwner'[v41ByID'[id].owner] = id
    <3>1. CASE id = nextClient
      BY <1>2, <1>3, <1>4, <3>1
    <3>2. CASE id # nextClient
      <4>1. id \notin old /\ v41ByID'[id] = v41ByID[id]
        BY <1>3, <2>1, <3>2
      <4>2. v41ByID[id].owner \in V41Owners \ {o} /\ v41ByOwner[v41ByID[id].owner] = id
        BY <1>7, <2>1, <4>1 DEF V41Inv, V41Typed, TablesAgree, V41Registered
      <4>3. QED
        BY <1>4, <4>1, <4>2
    <3>3. QED
      BY <3>1, <3>2
  <2>2. ASSUME NEW p \in V41Owners, v41ByOwner'[p] # 0
        PROVE v41ByID'[v41ByOwner'[p]].owner = p
    BY <1>2, <1>3, <1>4, <1>5, <1>8, <2>2, SMTT(20) DEF V41Inv, V41Typed, TablesAgree
  <2>3. ASSUME NEW s \in sessionsByID' PROVE sessionOf'[s] \in V41Registered'
    <3>1. sessionOf[s] \in ClientIDs \ old /\ v41ByID[sessionOf[s]] # NoRecord
      BY <1>1, <2>3 DEF V41Inv, TablesAgree, V41Registered, SessionsWithout
    <3>2. QED
      BY <1>1, <1>2, <1>3, <3>1 DEF V41Registered
  <2>4. QED
    BY <2>1, <2>2, <2>3 DEF TablesAgree, V41Registered
<1>10. RecoveryCurrent'
  <2>1. ASSUME NEW p \in V41Owners \ {o}
        PROVE v41Recovery'[p] = IF v41ByOwner'[p] # 0 /\ v41ByID'[v41ByOwner'[p]].confirmed
                                THEN v41ByID'[v41ByOwner'[p]].verifier ELSE None
    <3>1. v41ByOwner[p] # 0 => v41ByID'[v41ByOwner[p]] = v41ByID[v41ByOwner[p]]
      BY <1>3, <1>5, <1>8 DEF V41Inv, V41Typed
    <3>2. QED
      BY <1>1, <1>4, <3>1, SMTT(20) DEF V41Inv, RecoveryCurrent, RecoveryWithout, TablesAgree
  <2>2. QED
    <3>1. v41ByOwner'[o] = nextClient /\ ~v41ByID'[nextClient].confirmed
      BY <1>2, <1>3, <1>4
    <3>2. QED
      BY <1>1, <1>7, <2>1, <3>1 DEF RecoveryCurrent, RecoveryWithout, V41Inv, TablesAgree
<1>11. ToldByRecord' /\ CreateOnce'
  <2>1. \A e \in told : e[1] \in ClientIDs /\ e[1] < nextClient /\ e[1] # nextClient
    BY SMTT(20) DEF V41Inv, V41Typed, ToldByRecord, ClientIDs
  <2>2. \A e \in told : e[1] < nextClient' /\ sessionOf'[e[3]] # 0
    BY <1>1, <2>1, SMTT(20) DEF V41Inv, ToldByRecord, ClientIDs
  <2>3. \A e \in told : v41ByID'[e[1]] # NoRecord => e[2] <= v41ByID'[e[1]].seq
    BY <1>3, <2>1 DEF V41Inv, ToldByRecord
  <2>4. \A id \in ClientIDs : v41ByID'[id].cached # None =>
          <<id, v41ByID'[id].seq, v41ByID'[id].cached>> \in told
    BY <1>2, <1>3 DEF V41Inv, ToldByRecord
  <2>5. QED
    BY <1>1, <2>2, <2>3, <2>4 DEF ToldByRecord, CreateOnce, V41Inv
<1>12. QED
  BY <1>6, <1>9, <1>10, <1>11 DEF V41Inv

\* CREATE_SESSION bumps the sequence id and keeps its reply in one step.
LEMMA CreateStep ==
  ASSUME V41Inv, NEW id \in ClientIDs, NEW n \in 0..Cardinality(Sessions),
         NEW s \in Sessions, CreateSession(id, n, s)
  PROVE  V41Inv'
<1> DEFINE r == v41ByID[id]
<1> USE V41Constants
<1>1. /\ r \in V41RecordType /\ r # NoRecord /\ n = r.seq + 1
      /\ r.owner \in V41Owners /\ r.verifier \in Verifiers /\ id < nextClient
  BY DEF CreateSession, V41Registered, V41Inv, V41Typed
<1>2. /\ v41ByID'[id] = [owner |-> r.owner, verifier |-> r.verifier, seq |-> n,
                          cached |-> s, confirmed |-> TRUE]
      /\ \A i \in ClientIDs \ {id} : v41ByID'[i] = v41ByID[i]
      /\ v41ByID' \in [ClientIDs -> V41RecordType]
  BY <1>1 DEF CreateSession, V41Inv, V41Typed, V41RecordType
<1>3. n \in 1..Cardinality(Sessions) /\ r.seq \in Nat
  BY <1>1, V41Constants, SMTT(20) DEF V41RecordType
<1>4. TablesAgree'
  <2>1. v41ByOwner' = v41ByOwner /\ V41Registered' = V41Registered
    BY <1>1, <1>2, SMTT(20) DEF CreateSession, V41Registered, NoRecord, NewRecord
  <2>2. \A t \in sessionsByID' : sessionOf'[t] \in V41Registered'
    BY <2>1, SMTT(20) DEF CreateSession, V41Inv, V41Typed, TablesAgree
  <2>3. QED
    BY <1>2, <2>1, <2>2, SMTT(20) DEF TablesAgree, V41Inv, V41Registered, V41Typed
<1>5. RecoveryCurrent'
  <2>1. v41ByOwner' = v41ByOwner /\ v41ByOwner[r.owner] = id
    BY <1>1 DEF CreateSession, V41Inv, TablesAgree, V41Registered
  <2>2. v41Recovery'[r.owner] = r.verifier
    BY <1>1, <2>1, SMTT(20) DEF CreateSession, V41Inv, V41Typed, RecoveryCurrent, ClientIDs
  <2>3. ASSUME NEW o \in V41Owners \ {r.owner}
        PROVE v41Recovery'[o] = IF v41ByOwner'[o] # 0 /\ v41ByID'[v41ByOwner'[o]].confirmed
                                THEN v41ByID'[v41ByOwner'[o]].verifier ELSE None
    <3>1. v41Recovery'[o] = v41Recovery[o]
      BY DEF CreateSession, V41Inv, V41Typed
    <3>2. v41ByOwner[o] # 0 => v41ByOwner[o] \in ClientIDs \ {id}
      BY <1>1 DEF V41Inv, V41Typed, TablesAgree
    <3>3. QED
      BY <1>2, <2>1, <3>1, <3>2 DEF V41Inv, RecoveryCurrent
  <2>4. QED
    BY <1>2, <2>1, <2>2, <2>3, SMTT(20) DEF RecoveryCurrent, ClientIDs
<1>6. ToldByRecord'
  <2>1. told' = told \cup {<<id, n, s>>} /\ nextClient' = nextClient
        /\ sessionOf' = [sessionOf EXCEPT ![s] = id]
    BY DEF CreateSession
  <2>2. ASSUME NEW e \in told', v41ByID'[e[1]] # NoRecord PROVE e[2] <= v41ByID'[e[1]].seq
    BY <1>1, <1>2, <1>3, <2>1, <2>2, SMTT(20) DEF V41Inv, V41Typed, ToldByRecord
  <2>3. QED
    BY <1>1, <1>2, <2>1, <2>2, SMTT(20) DEF ToldByRecord, V41Inv, V41Typed, ClientIDs
<1>7. CreateOnce'
  BY <1>1, <1>3, SMTT(20) DEF CreateSession, V41Inv, V41Typed, ToldByRecord, CreateOnce
<1>8. QED
  BY <1>1, <1>2, <1>3, <1>4, <1>5, <1>6, <1>7, SMTT(20) DEF V41Inv, CreateSession, V41Typed

\* A retransmission is told what the original was told.
LEMMA ReplayStep ==
  ASSUME V41Inv, NEW id \in ClientIDs, NEW n \in 0..Cardinality(Sessions),
         ReplayCreateSession(id, n)
  PROVE  V41Inv'
  BY QuietStep DEF recordVars, V41Inv, V41Typed, ReplayCreateSession, ToldByRecord

-----------------------------------------------------------------------------

\* A step either belongs to the fore channels, or creates and destroys sessions
\* without touching what is in their slots.
LEMMA StepKinds ==
  ASSUME V41Inv, V41Step
  PROVE  \/ [SlotNext]_specVars
         \/ UNCHANGED <<chanVars, work>> /\ sessionsByID' \subseteq Sessions
<1> DEFINE Quiet == UNCHANGED chanVars /\ sessionsByID' \subseteq Sessions
<1>1. \A id, n : ReplayCreateSession(id, n) \/ (\E s \in Sessions : CreateSession(id, n, s)) => Quiet
  BY ZenonT(40) DEF ReplayCreateSession, CreateSession, V41Inv, V41Typed
<1>2. \A id : LeaseLapses(id) => Quiet
  BY DEF LeaseLapses, chanVars, channelVars, slotVars, V41Inv, V41Typed
<1>3. CASE V41Next /\ UNCHANGED work
  BY <1>1, <1>2, <1>3
  DEF V41Next, SlotNext, RenewV41Lease, ReapExpiredSessions, EvictV41Client, DestroyV41ClientID,
      Purge, SessionsWithout, V41Inv, V41Typed, ExchangeID
<1>4. CASE UNCHANGED v41SpecVars
  BY <1>4 DEF v41SpecVars, specVars
<1>5. QED
  BY <1>3, <1>4 DEF V41Step

\* The inductive step, operation by operation.
LEMMA V41InvStep == V41Inv /\ V41Step => V41Inv'
<1> SUFFICES ASSUME V41Inv, V41Step PROVE V41Inv'
  OBVIOUS
<1>1. lapsed \subseteq ClientIDs
  BY DEF V41Inv, V41Typed
<1>2. CASE UNCHANGED v41Vars /\ SlotNext
  BY <1>1, <1>2, ChannelStep, QuietStep DEF v41Vars
<1>3. CASE UNCHANGED v41SpecVars
  BY <1>1, <1>3, QuietStep DEF v41SpecVars, v41Vars, channelVars, slotVars
<1>4. ASSUME NEW t \in Threads, RenewV41Lease(t) PROVE V41Inv'
  BY <1>1, <1>4, QuietStep DEF RenewV41Lease, SeqNew
<1>5. ASSUME NEW o \in V41Owners, NEW v \in Verifiers, ExchangeID(o, v) PROVE V41Inv'
  BY <1>5, ExchangeStep
<1>6. ASSUME NEW id \in ClientIDs, NEW n \in 0..Cardinality(Sessions), NEW s \in Sessions,
             CreateSession(id, n, s)
      PROVE V41Inv'
  BY <1>6, CreateStep
<1>7. ASSUME NEW id \in ClientIDs, NEW n \in 0..Cardinality(Sessions), ReplayCreateSession(id, n)
      PROVE V41Inv'
  BY <1>7, ReplayStep
<1>8. ASSUME NEW id \in ClientIDs, LeaseLapses(id) PROVE V41Inv'
  BY <1>1, <1>8, QuietStep DEF LeaseLapses, channelVars, slotVars
<1>9. ASSUME NEW id \in ClientIDs, EvictV41Client(id) \/ DestroyV41ClientID(id) PROVE V41Inv'
  BY <1>9, PurgeStep DEF EvictV41Client, DestroyV41ClientID
<1>10. CASE ReapExpiredSessions
  BY <1>1, <1>10, PurgeStep DEF ReapExpiredSessions
<1>11. QED
  BY <1>2, <1>3, <1>4, <1>5, <1>6, <1>7, <1>8, <1>9, <1>10 DEF V41Step, V41Next, SlotNext

\* The slots and what is said of them do not depend on which sessions there are.
LEMMA ChannelsKept ==
  ASSUME SlotInv, ReplyInv, UNCHANGED <<chanVars, work>>, sessionsByID' \subseteq Sessions
  PROVE  SlotInv' /\ ReplyInv'
<1>1. OneHolder' /\ ExactlyOnce'
  BY DEF SlotInv, OneHolder, ExactlyOnce, Busy, chanVars, threadVars
<1>2. ReplyInv'
  BY SMTT(20)
  DEF ReplyInv, SlotKept, ThreadsServe, ClientAhead, TruthfulReply, Does, chanVars, threadVars,
      wireVars
<1>3. QED
  BY <1>1, <1>2 DEF SlotInv, SlotTyped, SlotTypeOK, chanVars, threadVars, wireVars

\* V41Inv is an invariant, and so is all that holds of the fore channels.
THEOREM V41Invariant == V41Spec => [](V41Inv /\ SlotInv /\ ReplyInv)
<1>1. V41Init => V41Inv /\ SlotInv /\ ReplyInv
  BY V41InvInit, SlotInvInit, ReplyInvInit DEF V41Init
<1>2. (V41Inv /\ SlotInv /\ ReplyInv) /\ V41Step => (V41Inv /\ SlotInv /\ ReplyInv)'
  BY V41InvStep, TypeStep, HolderStep, ReplyStep, ChannelsKept, StepKinds DEF SlotInv
<1>3. QED
  BY <1>1, <1>2, PTL DEF V41Spec, V41Step, v41SpecVars

\* The client tables, the sessions and the durable records agree, through any
\* order of EXCHANGE_ID, CREATE_SESSION, DESTROY_CLIENTID, expiry and eviction
\* (v41_client.go, manager.go: purgeV41Client).
THEOREM V41TablesAgree == V41Spec => [](TablesAgree /\ RecoveryCurrent)
<1>1. V41Inv => TablesAgree /\ RecoveryCurrent
  BY DEF V41Inv
<1>2. QED
  BY <1>1, V41Invariant, PTL

\* Every copy of a CREATE_SESSION is told of the one session that was created for
\* it, and no session answers two of them, for any number of owners and sessions.
THEOREM SessionCreatedOnce == V41Spec => []CreateOnce
<1>1. V41Inv => CreateOnce
  BY DEF V41Inv
<1>2. QED
  BY <1>1, V41Invariant, PTL

\* Exactly-once execution and truthful replies also hold while clients reboot,
\* expire and are evicted, and take their sessions with them in mid-request.
THEOREM ExactlyOnceAcrossClients == V41Spec => [](ExactlyOnce /\ TruthfulReply)
<1>1. SlotInv /\ ReplyInv => ExactlyOnce /\ TruthfulReply
  BY DEF SlotInv, ReplyInv
<1>2. QED
  BY <1>1, V41Invariant, PTL
=============================================================================
