-------------------------- MODULE OutboxRelayProofs --------------------------
(***************************************************************************)
(* The outbox for any number of rows, processes, failures and attempts:    *)
(* nothing is marked published that Redis did not take, and every copy of  *)
(* a message is explained by a failure.                                    *)
(***************************************************************************)
EXTENDS OutboxRelay, Orders, TLAPS

\* The row the loop is at is one of those it has to handle.
LEMMA HeadIsTodo ==
    ASSUME NEW w \in Workers, relay[w].todo \in SUBSET Rows, relay[w].todo # {}
    PROVE  Head(w) \in relay[w].todo
<1>1. relay[w].todo \in SUBSET Nat
  BY RelayAssumption DEF RelayAssumption, Rows
<1>2. \E n \in relay[w].todo : \A m \in relay[w].todo : n <= m
  BY <1>1, LeastNumber
<1> QED
  BY <1>2 DEF Head, Min

LEMMA InitOutbox == Init => OutboxInv
<1> SUFFICES ASSUME Init PROVE OutboxInv
  OBVIOUS
<1>1. TypeOK
  BY RelayAssumption DEF RelayAssumption, Init, TypeOK, Transaction, Asleep
<1> QED
  BY <1>1, RelayAssumption DEF RelayAssumption, Init, OutboxInv, PublishedWasSent, CopiesAccounted,
     RelayFacts, Asleep

LEMMA SelectStep ==
    ASSUME OutboxInv, NEW w \in Workers, Select(w)
    PROVE  OutboxInv'
<1>1. /\ relay' = [relay EXCEPT ![w] = [Asleep EXCEPT !.pc = "draining",
                                              !.locked = Batch, !.todo = Batch]]
      /\ UNCHANGED <<status, attempts, sent, redis_up, subscriber, inbox, heard, crashes, outages>>
  BY DEF Select, rowVars, channelVars, counters
<1>2. /\ Batch \subseteq Rows
      /\ \A r \in Batch : status[r] = "pending" /\ \A v \in Workers : r \notin relay[v].locked
  BY DEF Batch, Pending, Locked
<1>3. TypeOK'
  BY <1>1, <1>2 DEF OutboxInv, TypeOK, Transaction, Asleep
<1>4. \A v \in Workers :
        /\ relay'[v].locked = IF v = w THEN Batch ELSE relay[v].locked
        /\ relay'[v].todo = IF v = w THEN Batch ELSE relay[v].todo
        /\ relay'[v].published = IF v = w THEN {} ELSE relay[v].published
        /\ relay'[v].refused = IF v = w THEN {} ELSE relay[v].refused
        /\ relay'[v].pc = IF v = w THEN "draining" ELSE relay[v].pc
  BY <1>1 DEF OutboxInv, TypeOK, Asleep
<1>5. relay[w].locked = {} /\ relay[w].published = {} /\ relay[w].refused = {}
  BY DEF Select, OutboxInv, RelayFacts
<1>6. RelayFacts'
  <2>1. \A v, u \in Workers : v # u => relay'[v].locked \cap relay'[u].locked = {}
    BY <1>2, <1>4 DEF OutboxInv, RelayFacts
  <2>2. \A v \in Workers :
           /\ \A r \in relay'[v].locked : status'[r] = "pending"
           /\ relay'[v].pc # "draining" => relay'[v].locked = {}
           /\ relay'[v].todo \cup relay'[v].published \cup relay'[v].refused
                  \subseteq relay'[v].locked
           /\ relay'[v].todo \cap (relay'[v].published \cup relay'[v].refused) = {}
           /\ relay'[v].published \cap relay'[v].refused = {}
           /\ \A r \in relay'[v].published \ Tenantless : sent'[r] > 0
    BY <1>1, <1>2, <1>4 DEF OutboxInv, RelayFacts
  <2>3. \A r \in Rows : status'[r] # "published" =>
           /\ (\A v \in Workers : r \notin relay'[v].published \cup relay'[v].refused)
                  => sent'[r] <= crashes' + attempts'[r]
           /\ status'[r] # "failed" => attempts'[r] < MaxAttempts
    BY <1>1, <1>4, <1>5 DEF OutboxInv, RelayFacts
  <2> QED
    BY <2>1, <2>2, <2>3 DEF RelayFacts
<1> QED
  BY <1>1, <1>3, <1>6 DEF OutboxInv, PublishedWasSent, CopiesAccounted

\* The loop handles a row of its transaction: the row goes to one of the two lists,
\* and at most one copy more was sent of it.
LEMMA HandleStep ==
    ASSUME OutboxInv, NEW w \in Workers, NEW list \in {"published", "refused"},
           Handle(w, list),
           NEW copies \in {0, 1},
           sent' = [sent EXCEPT ![Head(w)] = @ + copies],
           list = "published" /\ copies = 0 => Head(w) \in Tenantless,
           UNCHANGED <<status, attempts, crashes, outages, redis_up, subscriber, heard>>,
           inbox' \in [Workers -> SUBSET Rows]
    PROVE  OutboxInv'
<1> DEFINE h == Head(w)
<1>1. /\ relay[w] \in Transaction
      /\ relay[w].todo \in SUBSET Rows
      /\ relay[w].todo # {}
  BY DEF OutboxInv, TypeOK, Transaction, Handle
<1>2. h \in relay[w].todo /\ h \in Rows
  BY <1>1, HeadIsTodo
<1> HIDE DEF h
<1>3. relay' = [relay EXCEPT ![w].todo = @ \ {h}, ![w][list] = @ \cup {h}]
  BY DEF Handle, h
<1>4. \A v \in Workers :
        /\ relay'[v].locked = relay[v].locked
        /\ relay'[v].pc = relay[v].pc
        /\ relay'[v].todo = IF v = w THEN relay[v].todo \ {h} ELSE relay[v].todo
        /\ relay'[v].published = IF v = w /\ list = "published"
                                 THEN relay[v].published \cup {h} ELSE relay[v].published
        /\ relay'[v].refused = IF v = w /\ list = "refused"
                               THEN relay[v].refused \cup {h} ELSE relay[v].refused
  BY <1>1, <1>3 DEF OutboxInv, TypeOK, Transaction
<1>5. \A r \in Rows : sent'[r] = IF r = h THEN sent[r] + copies ELSE sent[r]
  BY <1>2 DEF OutboxInv, TypeOK, h
<1>6. /\ h \in relay[w].locked /\ status[h] = "pending"
      /\ \A v \in Workers : h \notin relay[v].published \cup relay[v].refused
  BY <1>2 DEF OutboxInv, RelayFacts
<1>7. TypeOK'
  <2>1. relay' \in [Workers -> Transaction]
    BY ZenonT(60), <1>1, <1>2, <1>3 DEF OutboxInv, TypeOK, Transaction
  <2>2. sent' \in [Rows -> Nat]
    BY <1>2 DEF OutboxInv, TypeOK, h
  <2> QED
    BY <2>1, <2>2 DEF OutboxInv, TypeOK
<1>8. RelayFacts'
  <2>1. \A v, u \in Workers : v # u => relay'[v].locked \cap relay'[u].locked = {}
    BY <1>4 DEF OutboxInv, RelayFacts
  <2>2. ASSUME NEW v \in Workers
        PROVE  /\ \A r \in relay'[v].locked : status'[r] = "pending"
               /\ relay'[v].pc # "draining" => relay'[v].locked = {}
               /\ relay'[v].todo \cup relay'[v].published \cup relay'[v].refused
                      \subseteq relay'[v].locked
               /\ relay'[v].todo \cap (relay'[v].published \cup relay'[v].refused) = {}
               /\ relay'[v].published \cap relay'[v].refused = {}
    <3>1. /\ \A r \in relay[v].locked : status[r] = "pending"
          /\ relay[v].pc # "draining" => relay[v].locked = {}
          /\ relay[v].todo \cup relay[v].published \cup relay[v].refused
                 \subseteq relay[v].locked
          /\ relay[v].todo \cap (relay[v].published \cup relay[v].refused) = {}
          /\ relay[v].published \cap relay[v].refused = {}
          /\ h \notin relay[v].published \cup relay[v].refused
          /\ v = w => h \in relay[v].todo
      BY <1>2, <1>6 DEF OutboxInv, RelayFacts
    <3>2. relay'[v].locked = relay[v].locked /\ relay'[v].pc = relay[v].pc
      BY <1>4
    <3>3. CASE v # w
      BY <1>4, <3>1, <3>3
    <3>4. CASE v = w
      <4>1. relay'[v].todo = relay[v].todo \ {h}
        BY <1>4, <3>4
      <4>2. \/ /\ relay'[v].published = relay[v].published \cup {h}
               /\ relay'[v].refused = relay[v].refused
            \/ /\ relay'[v].published = relay[v].published
               /\ relay'[v].refused = relay[v].refused \cup {h}
        BY <1>4, <3>4
      <4>3. h \in relay[v].todo /\ h \in relay[v].locked /\ status' = status
        BY <3>1, <3>4
      <4> QED
        BY <3>1, <3>2, <4>1, <4>2, <4>3
    <3> QED
      BY <3>3, <3>4
  <2>3. ASSUME NEW v \in Workers, NEW r \in relay'[v].published \ Tenantless
        PROVE  sent'[r] > 0
    <3>1. r \in Rows /\ sent[r] \in Nat
      <4>1. r \in relay[v].published \/ r = h
        BY ZenonT(60), <1>4, <2>3
      <4> QED
        BY <1>2, <4>1 DEF OutboxInv, TypeOK, Transaction
    <3>2. r \in relay[v].published => sent[r] > 0
      BY <2>3 DEF OutboxInv, RelayFacts
    <3>3. CASE r \in relay[v].published
      BY <1>5, <3>1, <3>2, <3>3
    <3>4. CASE r \notin relay[v].published
      <4>1. r = h /\ list = "published"
        BY ZenonT(60), <1>4, <2>3, <3>4
      <4>2. copies = 1
        BY <2>3, <4>1 DEF h
      <4> QED
        BY <1>5, <3>1, <4>1, <4>2
    <3> QED
      BY <3>3, <3>4
  <2>4. ASSUME NEW r \in Rows, status'[r] # "published"
        PROVE  /\ (\A v \in Workers : r \notin relay'[v].published \cup relay'[v].refused)
                      => sent'[r] <= crashes' + attempts'[r]
               /\ status'[r] # "failed" => attempts'[r] < MaxAttempts
    <3>1. (\A v \in Workers : r \notin relay'[v].published \cup relay'[v].refused)
            => r # h /\ \A v \in Workers : r \notin relay[v].published \cup relay[v].refused
      BY <1>4
    <3> QED
      BY <1>5, <2>4, <3>1 DEF OutboxInv, RelayFacts
  <2> QED
    BY <2>1, <2>2, <2>3, <2>4 DEF RelayFacts
<1>9. CopiesAccounted'
  <2> SUFFICES ASSUME NEW r \in Rows
               PROVE  sent'[r] <= 1 + crashes + attempts[r]
    BY DEF CopiesAccounted
  <2>1. /\ sent[r] \in Nat /\ crashes \in Nat /\ attempts[r] \in Nat
        /\ sent[r] <= 1 + crashes + attempts[r]
    BY RelayAssumption DEF RelayAssumption, OutboxInv, TypeOK, CopiesAccounted
  <2>2. r = h => sent[r] <= crashes + attempts[r]
    BY <1>6 DEF OutboxInv, RelayFacts
  <2> QED
    BY <1>5, <2>1, <2>2
<1>10. PublishedWasSent'
  BY <1>5 DEF OutboxInv, TypeOK, PublishedWasSent
<1> QED
  BY <1>7, <1>8, <1>9, <1>10 DEF OutboxInv

\* The transaction is committed: what it published is closed, what it could not
\* publish is counted, and its locks are gone.
LEMMA CommitStep ==
    ASSUME OutboxInv, NEW w \in Workers, Commit(w)
    PROVE  OutboxInv'
<1> DEFINE P == relay[w].published
           F == relay[w].refused
<1>1. /\ relay[w] \in Transaction /\ P \subseteq Rows /\ F \subseteq Rows
      /\ relay[w].pc = "draining" /\ relay[w].todo = {}
  BY DEF OutboxInv, TypeOK, Transaction, Commit
<1>2. /\ \A r \in P \cup F : r \in relay[w].locked /\ status[r] = "pending"
      /\ P \cap F = {}
  BY DEF OutboxInv, RelayFacts
<1>3. /\ \A r \in Rows : attempts'[r] = attempts[r] + IF r \in F THEN 1 ELSE 0
      /\ \A r \in Rows : status'[r] = IF r \in P THEN "published"
               ELSE IF r \in F /\ attempts[r] + 1 >= MaxAttempts THEN "failed"
               ELSE status[r]
      /\ relay' = [relay EXCEPT ![w] = Asleep]
      /\ UNCHANGED <<sent, redis_up, subscriber, inbox, heard, crashes, outages>>
  BY DEF Commit, Exhausted, channelVars, counters
<1>4. \A v \in Workers :
        /\ relay'[v].locked = IF v = w THEN {} ELSE relay[v].locked
        /\ relay'[v].todo = IF v = w THEN {} ELSE relay[v].todo
        /\ relay'[v].published = IF v = w THEN {} ELSE relay[v].published
        /\ relay'[v].refused = IF v = w THEN {} ELSE relay[v].refused
        /\ relay'[v].pc = IF v = w THEN "asleep" ELSE relay[v].pc
  BY <1>3 DEF OutboxInv, TypeOK, Asleep
<1>5. \A r \in Rows : /\ attempts[r] \in Nat /\ sent[r] \in Nat /\ crashes \in Nat
                      /\ attempts[r] <= MaxAttempts /\ MaxAttempts \in Nat
  BY RelayAssumption DEF RelayAssumption, OutboxInv, TypeOK
<1>6. \A r \in F : attempts[r] < MaxAttempts
  BY <1>1, <1>2 DEF OutboxInv, RelayFacts
<1> HIDE DEF P, F
<1>7. TypeOK'
  <2>1. attempts' \in [Rows -> 0..MaxAttempts]
    <3>1. \A r \in Rows : attempts[r] + (IF r \in F THEN 1 ELSE 0) \in 0..MaxAttempts
      BY <1>5, <1>6
    <3> QED
      BY <3>1 DEF Commit, F
  <2>2. status' \in [Rows -> {"absent", "pending", "published", "failed"}]
    BY DEF Commit, OutboxInv, TypeOK
  <2>3. relay' \in [Workers -> Transaction]
    BY <1>3 DEF OutboxInv, TypeOK, Asleep, Transaction
  <2> QED
    BY <1>3, <2>1, <2>2, <2>3 DEF OutboxInv, TypeOK
<1>8. \A r \in Rows : \A v \in Workers : v # w /\ r \in relay[v].locked => r \notin P \cup F
  BY <1>2 DEF OutboxInv, RelayFacts
<1>9. RelayFacts'
  <2>1. \A v, u \in Workers : v # u => relay'[v].locked \cap relay'[u].locked = {}
    BY <1>4 DEF OutboxInv, RelayFacts
  <2>2. ASSUME NEW v \in Workers
        PROVE  /\ \A r \in relay'[v].locked : status'[r] = "pending"
               /\ relay'[v].pc # "draining" => relay'[v].locked = {}
               /\ relay'[v].todo \cup relay'[v].published \cup relay'[v].refused
                      \subseteq relay'[v].locked
               /\ relay'[v].todo \cap (relay'[v].published \cup relay'[v].refused) = {}
               /\ relay'[v].published \cap relay'[v].refused = {}
               /\ \A r \in relay'[v].published \ Tenantless : sent'[r] > 0
    <3>1. CASE v = w
      BY <1>4, <3>1
    <3>2. CASE v # w
      <4>1. relay'[v] = relay[v]
        BY <1>3, <3>2 DEF OutboxInv, TypeOK
      <4>2. relay[v].locked \subseteq Rows
        BY DEF OutboxInv, TypeOK, Transaction
      <4>3. \A r \in relay[v].locked : status'[r] = "pending"
        BY <1>3, <1>8, <3>2, <4>2 DEF OutboxInv, RelayFacts
      <4> QED
        BY <1>3, <4>1, <4>3 DEF OutboxInv, RelayFacts
    <3> QED
      BY <3>1, <3>2
  <2>3. ASSUME NEW r \in Rows, status'[r] # "published"
        PROVE  /\ (\A v \in Workers : r \notin relay'[v].published \cup relay'[v].refused)
                      => sent'[r] <= crashes' + attempts'[r]
               /\ status'[r] # "failed" => attempts'[r] < MaxAttempts
    <3>1. r \notin P /\ status[r] # "published"
      BY <1>1, <1>2, <1>3, <2>3
    <3>2. /\ sent'[r] = sent[r] /\ crashes' = crashes
          /\ attempts'[r] = IF r \in F THEN attempts[r] + 1 ELSE attempts[r]
      BY <1>3, <1>5
    <3>3. CASE r \in F
      <4>1. sent[r] <= 1 + crashes + attempts[r]
        BY DEF OutboxInv, CopiesAccounted
      <4>2. status'[r] # "failed" => attempts[r] + 1 < MaxAttempts
        BY <1>3, <1>5, <3>1, <3>3
      <4> QED
        BY <1>5, <3>2, <3>3, <4>1, <4>2
    <3>4. CASE r \notin F
      <4>1. (\A v \in Workers : r \notin relay'[v].published \cup relay'[v].refused)
              => \A v \in Workers : r \notin relay[v].published \cup relay[v].refused
        BY <1>4, <3>1, <3>4 DEF P, F
      <4>2. status'[r] = status[r]
        BY <1>3, <3>1, <3>4
      <4> QED
        BY <3>1, <3>2, <3>4, <4>1, <4>2 DEF OutboxInv, RelayFacts
    <3> QED
      BY <3>3, <3>4
  <2> QED
    BY <2>1, <2>2, <2>3 DEF RelayFacts
<1>10. CopiesAccounted'
  BY <1>3, <1>5 DEF OutboxInv, CopiesAccounted
<1>11. PublishedWasSent'
  <2>1. \A r \in P \ Tenantless : sent[r] > 0
    BY DEF OutboxInv, RelayFacts, P
  <2> QED
    BY <1>3, <2>1 DEF OutboxInv, PublishedWasSent
<1> QED
  BY <1>7, <1>9, <1>10, <1>11 DEF OutboxInv

\* The transaction is lost, with the process or without: its locks are gone, what
\* it sent is not unsent, and the failure is counted.
LEMMA LossStep ==
    ASSUME OutboxInv, NEW w \in Workers, NEW pc \in {"asleep", "down"},
           relay' = [relay EXCEPT ![w] = [Asleep EXCEPT !.pc = pc]],
           crashes' \in {crashes, crashes + 1}, crashes' \in 0..MaxCrashes,
           crashes' = crashes => relay[w].locked = {},
           UNCHANGED <<status, attempts, sent, redis_up, heard, outages>>,
           subscriber' \in [Workers -> {"listening", "lost", "dead"}],
           inbox' \in [Workers -> SUBSET Rows]
    PROVE  OutboxInv'
<1>1. \A v \in Workers :
        /\ relay'[v].locked = IF v = w THEN {} ELSE relay[v].locked
        /\ relay'[v].todo = IF v = w THEN {} ELSE relay[v].todo
        /\ relay'[v].published = IF v = w THEN {} ELSE relay[v].published
        /\ relay'[v].refused = IF v = w THEN {} ELSE relay[v].refused
        /\ relay'[v].pc = IF v = w THEN pc ELSE relay[v].pc
  BY DEF OutboxInv, TypeOK, Asleep
<1>2. \A r \in Rows : attempts[r] \in Nat /\ sent[r] \in Nat /\ crashes \in Nat
  BY RelayAssumption DEF RelayAssumption, OutboxInv, TypeOK
<1>3. TypeOK'
  <2>1. relay' \in [Workers -> Transaction]
    BY DEF OutboxInv, TypeOK, Asleep, Transaction
  <2> QED
    BY <2>1 DEF OutboxInv, TypeOK
<1>4. \A r \in Rows : sent[r] <= 1 + crashes + attempts[r]
  BY DEF OutboxInv, CopiesAccounted
<1>5. CopiesAccounted'
  BY <1>2, <1>4 DEF CopiesAccounted
<1>6. RelayFacts'
  <2>1. \A v, u \in Workers : v # u => relay'[v].locked \cap relay'[u].locked = {}
    BY <1>1 DEF OutboxInv, RelayFacts
  <2>2. \A v \in Workers :
           /\ \A r \in relay'[v].locked : status'[r] = "pending"
           /\ relay'[v].pc # "draining" => relay'[v].locked = {}
           /\ relay'[v].todo \cup relay'[v].published \cup relay'[v].refused
                  \subseteq relay'[v].locked
           /\ relay'[v].todo \cap (relay'[v].published \cup relay'[v].refused) = {}
           /\ relay'[v].published \cap relay'[v].refused = {}
           /\ \A r \in relay'[v].published \ Tenantless : sent'[r] > 0
    BY <1>1 DEF OutboxInv, RelayFacts
  <2>3. ASSUME NEW r \in Rows, status'[r] # "published"
        PROVE  /\ (\A v \in Workers : r \notin relay'[v].published \cup relay'[v].refused)
                      => sent'[r] <= crashes' + attempts'[r]
               /\ status'[r] # "failed" => attempts'[r] < MaxAttempts
    <3>1. CASE crashes' = crashes + 1
      BY <1>2, <1>4, <2>3, <3>1 DEF OutboxInv, RelayFacts
    <3>2. CASE crashes' = crashes
      <4>1. relay[w].published \cup relay[w].refused = {}
        BY <3>2 DEF OutboxInv, RelayFacts
      <4>2. (\A v \in Workers : r \notin relay'[v].published \cup relay'[v].refused)
              => \A v \in Workers : r \notin relay[v].published \cup relay[v].refused
        BY <1>1, <4>1
      <4> QED
        BY <2>3, <3>2, <4>2 DEF OutboxInv, RelayFacts
    <3> QED
      BY <3>1, <3>2
  <2> QED
    BY <2>1, <2>2, <2>3 DEF RelayFacts
<1> QED
  BY <1>3, <1>5, <1>6 DEF OutboxInv, PublishedWasSent

LEMMA OutboxStep == OutboxInv /\ [Next]_vars => OutboxInv'
<1> SUFFICES ASSUME OutboxInv, [Next]_vars PROVE OutboxInv'
  OBVIOUS
<1> USE DEF rowVars, channelVars, counters
<1>1. ASSUME NEW r \in Rows, Write(r) PROVE OutboxInv'
  <2>1. /\ status' = [status EXCEPT ![r] = "pending"] /\ status[r] = "absent"
        /\ UNCHANGED <<attempts, sent, relay, redis_up, subscriber, inbox, heard, crashes, outages>>
    BY <1>1 DEF Write
  <2> QED
    BY <2>1 DEF OutboxInv, TypeOK, PublishedWasSent, CopiesAccounted, RelayFacts
<1>2. ASSUME NEW w \in Workers, Select(w) PROVE OutboxInv'
  BY <1>2, SelectStep
<1>3. ASSUME NEW w \in Workers, PassOver(w) PROVE OutboxInv'
  <2>1. sent' = [sent EXCEPT ![Head(w)] = @ + 0]
    BY <1>3 DEF PassOver, OutboxInv, TypeOK
  <2>2. inbox' \in [Workers -> SUBSET Rows]
    BY <1>3 DEF PassOver, OutboxInv, TypeOK
  <2> QED
    BY <1>3, <2>1, <2>2, HandleStep DEF PassOver
<1>4. ASSUME NEW w \in Workers, NEW answered \in BOOLEAN, Publish(w, answered) PROVE OutboxInv'
  <2>1. Outcome(answered) \in {"published", "refused"}
    BY DEF Outcome
  <2>2. Head(w) \in Rows
    BY <1>4, HeadIsTodo DEF Publish, Handle, OutboxInv, TypeOK, Transaction
  <2>3. inbox' \in [Workers -> SUBSET Rows]
    BY <1>4, <2>2 DEF Publish, Push, OutboxInv, TypeOK
  <2>4. /\ Handle(w, Outcome(answered))
        /\ sent' = [sent EXCEPT ![Head(w)] = @ + 1]
        /\ UNCHANGED <<status, attempts, crashes, outages, redis_up, subscriber, heard>>
    BY <1>4 DEF Publish, Push
  <2>5. PICK list \in {"published", "refused"} : list = Outcome(answered)
    BY <2>1
  <2>6. PICK copies \in {0, 1} : copies = 1
    OBVIOUS
  <2>7. /\ Handle(w, list)
        /\ sent' = [sent EXCEPT ![Head(w)] = @ + copies]
        /\ list = "published" /\ copies = 0 => Head(w) \in Tenantless
    BY <2>4, <2>5, <2>6
  <2> QED
    BY <2>3, <2>4, <2>7, HandleStep
<1>5. ASSUME NEW w \in Workers, PublishFails(w) PROVE OutboxInv'
  <2>1. sent' = [sent EXCEPT ![Head(w)] = @ + 0]
    BY <1>5 DEF PublishFails, OutboxInv, TypeOK
  <2>2. inbox' \in [Workers -> SUBSET Rows] /\ Handle(w, "refused")
    BY <1>5 DEF PublishFails, Outcome, OutboxInv, TypeOK
  <2> QED
    BY <1>5, <2>1, <2>2, HandleStep DEF PublishFails
<1>6. ASSUME NEW w \in Workers, Commit(w) PROVE OutboxInv'
  BY <1>6, CommitStep
<1>7. ASSUME NEW w \in Workers, Abort(w) \/ Crash(w) \/ Restart(w) PROVE OutboxInv'
  <2>1. crashes \in Nat /\ crashes <= MaxCrashes /\ MaxCrashes \in Nat
    BY RelayAssumption DEF RelayAssumption, OutboxInv, TypeOK
  <2>2. CASE Abort(w)
    <3>1. relay' = [relay EXCEPT ![w] = [Asleep EXCEPT !.pc = "asleep"]]
      BY <2>2 DEF Abort, Asleep
    <3>2. UNCHANGED <<status, attempts, sent, redis_up, heard, outages>>
      BY <2>2 DEF Abort
    <3>3. /\ subscriber' \in [Workers -> {"listening", "lost", "dead"}]
          /\ inbox' \in [Workers -> SUBSET Rows]
      BY <2>2 DEF Abort, OutboxInv, TypeOK
    <3>4. /\ crashes' \in {crashes, crashes + 1} /\ crashes' \in 0..MaxCrashes
          /\ crashes' = crashes => relay[w].locked = {}
      BY <2>1, <2>2 DEF Abort
    <3> QED
      BY <3>1, <3>2, <3>3, <3>4, LossStep
  <2>3. CASE Crash(w)
    <3>1. /\ relay' = [relay EXCEPT ![w] = [Asleep EXCEPT !.pc = "down"]]
          /\ UNCHANGED <<status, attempts, sent, redis_up, heard, outages>>
      BY <2>3 DEF Crash, Down
    <3>2. /\ subscriber' \in [Workers -> {"listening", "lost", "dead"}]
          /\ inbox' \in [Workers -> SUBSET Rows]
      BY <2>3 DEF Crash, OutboxInv, TypeOK
    <3>3. /\ crashes' \in {crashes, crashes + 1} /\ crashes' \in 0..MaxCrashes
          /\ crashes' = crashes => relay[w].locked = {}
      BY <2>1, <2>3 DEF Crash
    <3> QED
      BY <3>1, <3>2, <3>3, LossStep
  <2>4. CASE Restart(w)
    <3>1. relay' = [relay EXCEPT ![w] = [Asleep EXCEPT !.pc = "asleep"]]
      BY <2>4 DEF Restart, Asleep
    <3>2. relay[w].locked = {}
      BY <2>4 DEF Restart, OutboxInv, RelayFacts
    <3>3. /\ subscriber' \in [Workers -> {"listening", "lost", "dead"}]
          /\ inbox' \in [Workers -> SUBSET Rows]
      BY <2>4 DEF Restart, OutboxInv, TypeOK
    <3>4. /\ crashes' = crashes /\ crashes' \in 0..MaxCrashes
          /\ UNCHANGED <<status, attempts, sent, redis_up, heard, outages>>
      BY <2>1, <2>4 DEF Restart
    <3>5. crashes' \in {crashes, crashes + 1}
      BY <3>4
    <3> QED
      BY <3>1, <3>2, <3>3, <3>4, <3>5, LossStep
  <2> QED
    BY <1>7, <2>2, <2>3, <2>4
<1>8. ASSUME \/ \E w \in Workers : Listen(w)
             \/ RedisReturns
             \/ RedisDrops
             \/ UNCHANGED vars
      PROVE  OutboxInv'
  <2>1. UNCHANGED <<status, attempts, sent, relay, crashes>>
    BY <1>8 DEF Listen, Resubscribe, Fanout, RedisReturns, RedisDrops, vars
  <2>2. TypeOK'
    <3>1. CASE \E w \in Workers : Listen(w)
      BY <3>1 DEF Listen, Resubscribe, Fanout, OutboxInv, TypeOK
    <3>2. CASE RedisReturns \/ UNCHANGED vars
      BY <3>2 DEF RedisReturns, vars, OutboxInv, TypeOK
    <3>3. CASE RedisDrops
      <4>1. subscriber' \in [Workers -> {"listening", "lost", "dead"}]
        BY <3>3 DEF RedisDrops
      <4>2. outages' \in 0..MaxOutages
        BY <3>3, RelayAssumption DEF RelayAssumption, RedisDrops, OutboxInv, TypeOK
      <4> QED
        BY <3>3, <4>1, <4>2 DEF RedisDrops, OutboxInv, TypeOK
    <3> QED
      BY <1>8, <3>1, <3>2, <3>3
  <2> QED
    BY <2>1, <2>2 DEF OutboxInv, PublishedWasSent, CopiesAccounted, RelayFacts
<1> QED
  BY <1>1, <1>2, <1>3, <1>4, <1>5, <1>6, <1>7, <1>8 DEF Next, Drain

\* However many processes relay, however they fail and are started again: what is
\* marked published was taken by Redis, and the copies are accounted for.
THEOREM OutboxInvariant == Spec => []OutboxInv
<1> QED
  BY InitOutbox, OutboxStep, PTL DEF Spec

\* A row of the outbox is pending once, then published or failed for ever.
THEOREM RowsImplementLifecycle == Spec => RowsFollowLifecycle
<1>1. Init => RowLife!Init
  BY DEF Init, RowLife!Init
<1>2. OutboxInv /\ [Next]_vars => [RowLife!Next]_status
  <2> SUFFICES ASSUME OutboxInv, [Next]_vars, status' # status
               PROVE  RowLife!Next
    OBVIOUS
  <2> USE DEF rowVars, channelVars, counters
  <2>1. \A r \in Rows : RowLife!Advances(status[r], status'[r])
    <3>1. CASE \E r \in Rows : Write(r)
      BY <3>1 DEF Write, RowLife!Advances, OutboxInv, TypeOK
    <3>2. ASSUME NEW w \in Workers, Commit(w), NEW r \in Rows
          PROVE  RowLife!Advances(status[r], status'[r])
      <4>1. r \in relay[w].published \cup relay[w].refused => status[r] = "pending"
        BY DEF OutboxInv, RelayFacts
      <4>2. status'[r] = IF r \in relay[w].published THEN "published"
               ELSE IF r \in relay[w].refused /\ Exhausted(attempts[r] + 1) THEN "failed"
               ELSE status[r]
        BY <3>2 DEF Commit
      <4> QED
        BY <4>1, <4>2 DEF RowLife!Advances
    <3>3. (\E r \in Rows : Write(r)) \/ (\E w \in Workers : Commit(w))
      BY DEF Next, Drain, Select, PassOver, PublishFails, Publish, Listen, Resubscribe, Fanout,
             Abort, Crash, Restart, RedisDrops, RedisReturns, vars
    <3> QED
      BY <3>1, <3>2, <3>3
  <2>2. status' \in [Rows -> {"pending", "published", "failed"} \cup {"absent"}]
    BY OutboxStep DEF OutboxInv, TypeOK
  <2> QED
    BY <2>1, <2>2 DEF RowLife!Next
<1> QED
  BY <1>1, <1>2, OutboxInvariant, PTL DEF Spec, RowsFollowLifecycle, RowLife!Spec

=============================================================================
