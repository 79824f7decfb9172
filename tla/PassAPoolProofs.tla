-------------------------- MODULE PassAPoolProofs --------------------------
(***************************************************************************)
(* Proofs about RunPassA for every number of workers and roots and every   *)
(* page and batch size: TypeOK, EachRootOnce, RowsInOrder, the             *)
(* implementation of StationImport, and the two halves of PoolEnds that    *)
(* need no fairness: the steps are finitely many, and nobody waits on      *)
(* everybody.                                                              *)
(***************************************************************************)
EXTENDS PassAPool, SequenceTheorems, FiniteSetTheorems, TLAPS

(* The list of writes of ProcessStationBatch and onBatchResult, written out. *)
LEMMA WritesFacts ==
    /\ LastWrite = 7
    /\ Tables = {"sink", "flags", "containers", "equipment", "nodes", "edges", "groups"}
    /\ Writes[1] = "sink" /\ Writes[2] = "flags" /\ Writes[3] = "containers"
    /\ Writes[4] = "equipment" /\ Writes[5] = "nodes" /\ Writes[6] = "edges"
    /\ Writes[7] = "groups"
    /\ \A k \in 1 .. LastWrite : Writes[k] \in Tables
<1>1. LastWrite = 7
  BY DEF LastWrite, Writes
<1>2. /\ Writes[1] = "sink" /\ Writes[2] = "flags" /\ Writes[3] = "containers"
      /\ Writes[4] = "equipment" /\ Writes[5] = "nodes" /\ Writes[6] = "edges"
      /\ Writes[7] = "groups"
  BY DEF Writes
<1>3. 1 .. 7 = {1, 2, 3, 4, 5, 6, 7}
  OBVIOUS
<1>4. Tables = {Writes[k] : k \in {1, 2, 3, 4, 5, 6, 7}}
  BY <1>1, <1>3 DEF Tables, LastWrite
<1>5. Tables = {"sink", "flags", "containers", "equipment", "nodes", "edges", "groups"}
  BY <1>2, <1>4
<1>6. \A k \in 1 .. LastWrite : Writes[k] \in Tables
  BY <1>1, <1>3, <1>4
<1>7. QED
  BY <1>1, <1>2, <1>5, <1>6

(* A class has a natural number of roots. *)
LEMMA CountNat == \A c \in Classes : Count(c) \in Nat
  BY PoolAssumption DEF Classes, Count

(* The roots of one class in an interval of the cursor. *)
LEMMA RootsFacts == \A c \in Classes : \A lo, hi \in Int :
                       lo >= 1 /\ hi <= Count(c) => Ids(c, lo, hi) \in SUBSET Roots
<1>1. SUFFICES ASSUME NEW c \in Classes, NEW lo \in Int, NEW hi \in Int,
                      lo >= 1, hi <= Count(c), NEW r \in Ids(c, lo, hi)
               PROVE  r \in Roots
  OBVIOUS
<1>2. r \in Ids(c, 1, Count(c))
  BY <1>1, CountNat DEF Ids
<1>3. QED
  BY <1>2 DEF Roots

(* Every variable keeps its kind. *)
THEOREM TypeCorrect == Spec => []TypeOK
<1>1. Init => TypeOK
  <2>1. 1 \in 1 .. LastWrite
    BY WritesFacts
  <2>2. <<>> \in Seq(SUBSET Roots)
    OBVIOUS
  <2>3. \A c \in Classes : 0 <= Count(c)
    BY CountNat
  <2>4. Init => batches \in Seq(SUBSET Roots)
    BY <2>2 DEF Init
  <2>5. Init => rows \in [Tables -> SUBSET Roots]
    BY DEF Init
  <2>6. Init => step \in [Workers -> 1 .. LastWrite]
    BY <2>1 DEF Init
  <2>7. Init => class \in Classes /\ sent <= afterID /\ afterID <= Count(class)
    BY <2>3 DEF Init, Classes
  <2>8. Init => /\ worker \in [Workers -> {"recv", "work", "reporting", "failed", "exited"}]
                /\ held \in [Workers -> SUBSET Roots]
    BY DEF Init
  <2>9. Init => lastPage \in BOOLEAN /\ feedErrCh \in BOOLEAN
    BY DEF Init
  <2>10. Init => feed \in {"page", "emit", "flush", "close", "done"}
    BY DEF Init
  <2>11. Init => afterID \in Nat /\ sent \in Nat /\ workErrCh \in SUBSET Workers
                 /\ result \in {"running", "ok", "error"}
    BY DEF Init
  <2>12. QED
    BY <2>4, <2>5, <2>6, <2>7, <2>8, <2>9, <2>10, <2>11 DEF TypeOK
<1>2. TypeOK /\ [Next]_vars => TypeOK'
  <2> SUFFICES ASSUME TypeOK, [Next]_vars PROVE TypeOK'
    OBVIOUS
  <2> USE PoolAssumption, CountNat DEF TypeOK
  <2>0. Count(class) \in Nat
    OBVIOUS
  <2>1. ASSUME NEW n \in Nat, n <= afterID - sent, Emit(n)
        PROVE  /\ batches' \in Seq(SUBSET Roots)
               /\ sent' \in Nat /\ sent' <= afterID
    <3>1. Ids(class, sent + 1, sent + n) \in SUBSET Roots
      BY <2>1, <2>0, RootsFacts
    <3>2. batches' \in Seq(SUBSET Roots)
      BY <2>1, <3>1, AppendProperties DEF Emit
    <3>3. QED
      BY <2>1, <3>2 DEF Emit
  <2>2. CASE GetPage
    BY <2>2, <2>0 DEF GetPage, workerVars
  <2>3. CASE PageFails
    BY <2>3 DEF PageFails, workerVars
  <2>4. CASE EmitFull
    <3>1. Emit(BatchSize) /\ BatchSize <= afterID - sent
      BY <2>4 DEF EmitFull
    <3>2. QED
      BY <2>4, <2>1, <3>1 DEF EmitFull, workerVars
  <2>5. CASE NextPage
    BY <2>5 DEF NextPage, workerVars
  <2>6. CASE EmitRest
    <3>1. Emit(afterID - sent) /\ afterID - sent \in Nat
      BY <2>6 DEF EmitRest
    <3>2. QED
      BY <2>6, <2>1, <3>1 DEF EmitRest, workerVars
  <2>7. CASE EndClass
    <3>1. "Building" \in Classes /\ Count("Building") \in Nat
      BY DEF Classes
    <3>2. QED
      BY <2>7, <3>1 DEF EndClass, workerVars
  <2>8. CASE CloseBatches
    BY <2>8 DEF CloseBatches, workerVars
  <2>9. ASSUME NEW w \in Workers, Receive(w)
        PROVE  TypeOK'
    <3>1. Head(batches) \in SUBSET Roots /\ Tail(batches) \in Seq(SUBSET Roots)
      BY <2>9, HeadTailProperties DEF Receive
    <3>2. 1 \in 1 .. LastWrite
      BY WritesFacts
    <3>3. QED
      BY <2>9, <3>1, <3>2 DEF Receive, feederVars
  <2>10. ASSUME NEW w \in Workers, Drained(w)
         PROVE  TypeOK'
    BY <2>10 DEF Drained, feederVars
  <2>11. ASSUME NEW w \in Workers, NEW S \in SUBSET held[w],
                rows' = [rows EXCEPT ![Writes[step[w]]] = @ \cup S]
         PROVE  rows' \in [Tables -> SUBSET Roots]
    <3>1. Writes[step[w]] \in Tables
      BY WritesFacts
    <3>2. S \subseteq Roots
      BY <2>11
    <3>3. QED
      BY <2>11, <3>1, <3>2
  <2>12. ASSUME NEW w \in Workers, Persist(w)
         PROVE  TypeOK'
    <3>1. rows' \in [Tables -> SUBSET Roots]
      BY <2>12, <2>11 DEF Persist
    <3>2. step[w] < LastWrite => step[w] + 1 \in 1 .. LastWrite
      BY WritesFacts
    <3>3. step' \in [Workers -> 1 .. LastWrite] /\ held' \in [Workers -> SUBSET Roots]
      BY <2>12, <3>2 DEF Persist
    <3>4. worker' \in [Workers -> {"recv", "work", "reporting", "failed", "exited"}]
      BY <2>12 DEF Persist
    <3>5. QED
      BY <2>12, <3>1, <3>3, <3>4 DEF Persist, feederVars
  <2>13. ASSUME NEW w \in Workers, Fail(w)
         PROVE  TypeOK'
    <3>1. rows' \in [Tables -> SUBSET Roots]
      BY <2>13, <2>11 DEF Fail
    <3>2. QED
      BY <2>13, <3>1 DEF Fail, feederVars
  <2>14. ASSUME NEW w \in Workers, ReportError(w)
         PROVE  TypeOK'
    BY <2>14 DEF ReportError, feederVars
  <2>15. CASE Return
    BY <2>15 DEF Return, workerVars, feederVars
  <2>16. CASE Returned \/ UNCHANGED vars
    BY <2>16 DEF Returned, vars
  <2>17. QED
    BY <2>2, <2>3, <2>4, <2>5, <2>6, <2>7, <2>8, <2>9, <2>10, <2>12, <2>13, <2>14,
       <2>15, <2>16 DEF Next, Feeder, Worker
<1>3. QED
  BY <1>1, <1>2, PTL DEF Spec

-----------------------------------------------------------------------------
(* The feeder leaves a class only when the cursor is at its end, and reaches *)
(* the close without an error only after the last Building root was sent.    *)
FeederInv == /\ (feed = "flush" \/ (feed = "emit" /\ lastPage)) => afterID = Count(class)
             /\ feedErrCh => feed \in {"close", "done"}
             /\ feed \in {"close", "done"} /\ ~feedErrCh
                   => class = "Building" /\ sent = Count(class)

(* feedRootBatches leaves a class only at the end of its cursor, and closes the
   channel without an error only after the last root of both classes was sent. *)
THEOREM FeederCorrect == Spec => []FeederInv
<1>1. Init => FeederInv
  BY DEF Init, FeederInv
<1>2. TypeOK /\ FeederInv /\ [Next]_vars => FeederInv'
  <2> SUFFICES ASSUME TypeOK, FeederInv, [Next]_vars PROVE FeederInv'
    OBVIOUS
  <2> USE DEF FeederInv
  <2>0. Count(class) \in Nat /\ afterID \in Nat /\ sent \in Nat
        /\ sent <= afterID /\ afterID <= Count(class) /\ ChunkSize \in Nat
    BY CountNat, PoolAssumption DEF TypeOK
  <2>1. CASE GetPage
    <3> DEFINE left == Count(class) - afterID
               n == IF left < ChunkSize THEN left ELSE ChunkSize
    <3>1. /\ feed' = IF n = 0 THEN "flush" ELSE "emit"
          /\ afterID' = afterID + n /\ lastPage' = (n < ChunkSize)
          /\ feed = "page" /\ class' = class /\ feedErrCh' = feedErrCh
      BY <2>1 DEF GetPage
    <3>2. left \in Nat /\ n \in Nat /\ n <= ChunkSize /\ (n < ChunkSize => n = left)
      BY <2>0
    <3>3. n = 0 => left = 0
      BY <3>2, PoolAssumption
    <3>4. feedErrCh' = FALSE
      BY <3>1 DEF TypeOK
    <3>5. afterID' = Count(class)' <=> n = left
      BY <3>1, <2>0, <3>2
    <3>6. feed' = "flush" => n = left
      BY <3>1, <3>2, <3>3
    <3>7. lastPage' => n = left
      BY <3>1, <3>2
    <3>8. feed' \notin {"close", "done"}
      BY <3>1
    <3> QED
      BY <3>4, <3>5, <3>6, <3>7, <3>8
  <2>2. CASE PageFails
    BY <2>2 DEF PageFails
  <2>3. CASE EmitFull
    BY <2>3 DEF EmitFull
  <2>4. CASE NextPage
    BY <2>4 DEF NextPage
  <2>5. CASE EmitRest
    BY <2>5 DEF EmitRest
  <2>6. CASE EndClass
    <3>1. class \in {"Substation", "Building"}
      BY DEF TypeOK, Classes
    <3>2. QED
      BY <2>6, <3>1, <2>0 DEF EndClass
  <2>7. CASE CloseBatches
    BY <2>7 DEF CloseBatches
  <2>8. ASSUME NEW w \in Workers, Worker(w)
        PROVE  FeederInv'
    BY <2>8 DEF Worker, Receive, Drained, Persist, Fail, ReportError, feederVars
  <2>9. CASE Return \/ Returned \/ UNCHANGED vars
    BY <2>9 DEF Return, Returned, feederVars, vars
  <2>10. QED
    BY <2>1, <2>2, <2>3, <2>4, <2>5, <2>6, <2>7, <2>8, <2>9 DEF Next, Feeder
<1>3. QED
  BY <1>1, <1>2, TypeCorrect, PTL DEF Spec

(* A worker that has left the loop normally has seen the closed and empty    *)
(* channel, an idle worker holds nothing, a failed worker has its error in   *)
(* workErrCh, and nothing but the feeder moves once RunPassA has returned.   *)
WorkerInv ==
    /\ \A w \in Workers :
          /\ worker[w] \in {"recv", "exited"} => held[w] = {}
          /\ worker[w] = "exited" => feed = "done" /\ batches = <<>>
          /\ w \in workErrCh <=> worker[w] = "failed"
    /\ result # "running" => \A w \in Workers : worker[w] \in {"exited", "failed"}
    /\ result = "ok" => ~feedErrCh /\ workErrCh = {}

(* A worker leaves normally only from a closed and empty channel, its error is in
   workErrCh exactly when it failed, and RunPassA returns nil only after every worker
   has left and only if neither error channel holds anything. *)
THEOREM WorkersCorrect == Spec => []WorkerInv
<1>1. Init => WorkerInv
  BY DEF Init, WorkerInv
<1>2. TypeOK /\ WorkerInv /\ [Next]_vars => WorkerInv'
  <2> SUFFICES ASSUME TypeOK, WorkerInv, [Next]_vars PROVE WorkerInv'
    OBVIOUS
  <2> USE DEF WorkerInv
  <2>1. \A w \in Workers : worker[w] \in {"recv", "work", "reporting", "failed", "exited"}
    BY DEF TypeOK
  <2>2. ASSUME Feeder PROVE WorkerInv'
    <3>1. feed # "done" /\ UNCHANGED <<worker, held, workErrCh, result>>
      BY <2>2 DEF Feeder, GetPage, PageFails, EmitFull, NextPage, EmitRest, EndClass,
                  CloseBatches, workerVars
    <3>2. \A w \in Workers : worker[w] # "exited"
      BY <3>1
    <3>3. result # "ok"
      <4>1. PICK w \in Workers : TRUE
        BY PoolAssumption
      <4>2. QED
        BY <3>2, <4>1
    <3>4. QED
      BY <3>1, <3>2, <3>3
  <2>3. ASSUME NEW w \in Workers, Receive(w) PROVE WorkerInv'
    <3>1. /\ worker[w] = "recv" /\ batches # <<>> /\ result = "running"
          /\ worker' = [worker EXCEPT ![w] = "work"]
          /\ \E b : held' = [held EXCEPT ![w] = b]
          /\ UNCHANGED <<feed, feedErrCh, workErrCh, result>>
      BY <2>3 DEF Receive, feederVars
    <3>2. \A v \in Workers : worker[v] # "exited"
      BY <3>1
    <3>3. \A v \in Workers : v # w => worker'[v] = worker[v] /\ held'[v] = held[v]
      BY <3>1 DEF TypeOK
    <3>4. worker'[w] = "work" /\ w \notin workErrCh
      BY <3>1 DEF TypeOK
    <3>5. QED
      BY <3>1, <3>2, <3>3, <3>4
  <2>4. ASSUME NEW w \in Workers, Drained(w) PROVE WorkerInv'
    BY <2>4 DEF Drained, feederVars, TypeOK
  <2>5. ASSUME NEW w \in Workers, Persist(w) PROVE WorkerInv'
    <3>1. /\ worker[w] = "work" /\ result = "running"
          /\ UNCHANGED <<feed, feedErrCh, workErrCh, result, batches>>
      BY <2>5 DEF Persist, feederVars
    <3>2. \A v \in Workers : v # w => worker'[v] = worker[v] /\ held'[v] = held[v]
      BY <2>5 DEF Persist, TypeOK
    <3>3. worker'[w] = "work" \/ (worker'[w] = "recv" /\ held'[w] = {})
      BY <2>5, <3>1 DEF Persist, TypeOK
    <3>4. QED
      BY <3>1, <3>2, <3>3
  <2>6. ASSUME NEW w \in Workers, Fail(w) PROVE WorkerInv'
    BY <2>6 DEF Fail, feederVars, TypeOK
  <2>7. ASSUME NEW w \in Workers, ReportError(w) PROVE WorkerInv'
    BY <2>7 DEF ReportError, feederVars, TypeOK
  <2>8. CASE Return
    BY <2>8 DEF Return, feederVars, workerVars
  <2>9. CASE Returned \/ UNCHANGED vars
    BY <2>9 DEF Returned, vars
  <2>10. QED
    BY <2>2, <2>3, <2>4, <2>5, <2>6, <2>7, <2>8, <2>9 DEF Next, Worker
<1>3. QED
  BY <1>1, <1>2, TypeCorrect, PTL DEF Spec

-----------------------------------------------------------------------------
(* The roots the feeder has sent: the whole Substation class once it pages   *)
(* Buildings, and the first `sent` roots of the class it pages.              *)
Emitted == {r \in Roots : \/ r[1] = class /\ r[2] <= sent
                          \/ class = "Building" /\ r[1] = "Substation"}

(* What was sent is exactly what is in the channel, held by a worker or      *)
(* persisted: nothing is dropped and nothing appears from elsewhere.         *)
SentIsKept ==
    /\ \A i \in 1 .. Len(batches) : batches[i] \subseteq Emitted
    /\ \A w \in Workers : held[w] \subseteq Emitted
    /\ \A t \in Tables : rows[t] \subseteq Emitted
    /\ \A r \in Emitted : \/ r \in rows["groups"]
                          \/ \E w \in Workers : r \in held[w]
                          \/ \E i \in 1 .. Len(batches) : r \in batches[i]

(* A root is a class and a position in it. *)
LEMMA RootShape == \A r \in Roots : /\ r[1] \in Classes /\ r[2] \in 1 .. Count(r[1])
                                    /\ r = <<r[1], r[2]>>
<1>1. SUFFICES ASSUME NEW r \in Roots
               PROVE  r[1] \in Classes /\ r[2] \in 1 .. Count(r[1]) /\ r = <<r[1], r[2]>>
  OBVIOUS
<1>2. PICK c \in Classes : r \in Ids(c, 1, Count(c))
  BY DEF Roots
<1>3. r[1] = c /\ r[2] \in 1 .. Count(c) /\ r = <<r[1], r[2]>>
  BY <1>2 DEF Ids
<1>4. QED
  BY <1>3

(* A send moves the next n pending roots, none sent before, into the channel. *)
LEMMA EmitSends ==
  ASSUME TypeOK, NEW n \in Nat, n <= afterID - sent, Emit(n), class' = class
  PROVE  LET b == Ids(class, sent + 1, sent + n)
         IN  /\ b \in SUBSET Roots /\ b \cap Emitted = {}
             /\ Emitted' = Emitted \cup b
             /\ Len(batches') = Len(batches) + 1
             /\ batches'[Len(batches) + 1] = b
             /\ \A i \in 1 .. Len(batches) : batches'[i] = batches[i]
<1> DEFINE b == Ids(class, sent + 1, sent + n)
<1>0. class \in Classes /\ Count(class) \in Nat /\ sent \in Nat /\ afterID \in Nat
      /\ sent + n <= Count(class) /\ sent' = sent + n
  BY CountNat DEF TypeOK, Emit
<1>1. b \in SUBSET Roots
  BY <1>0, RootsFacts
<1>2. \A r \in Roots : r \in b <=> r[1] = class /\ sent < r[2] /\ r[2] <= sent + n
  <2>1. SUFFICES ASSUME NEW r \in Roots
                 PROVE  r \in b <=> r[1] = class /\ sent < r[2] /\ r[2] <= sent + n
    OBVIOUS
  <2>2. r = <<r[1], r[2]>> /\ r[2] \in Nat
    BY RootShape, CountNat
  <2>3. r \in b <=> r[1] = class /\ r[2] \in (sent + 1) .. (sent + n)
    BY <2>2 DEF Ids
  <2>4. QED
    BY <2>2, <2>3, <1>0
<1>3. \A r \in Roots : r[2] \in Nat
  BY RootShape, CountNat
<1>4. b \cap Emitted = {}
  <2>1. SUFFICES ASSUME NEW r \in Roots, r \in b, r \in Emitted PROVE FALSE
    BY <1>1
  <2>2. r[1] = class /\ sent < r[2] /\ r[2] \in Nat
    BY <2>1, <1>2, <1>3
  <2>3. class = "Building" /\ r[1] = "Substation"
    BY <2>1, <2>2, <1>0 DEF Emitted
  <2>4. QED
    BY <2>2, <2>3
<1>5. Emitted' = Emitted \cup b
  <2>1. ASSUME NEW r \in Roots
        PROVE  r \in Emitted' <=> r \in Emitted \/ r \in b
    <3>1. r \in Emitted' <=> \/ r[1] = class /\ r[2] <= sent + n
                             \/ class = "Building" /\ r[1] = "Substation"
      BY <1>0 DEF Emitted
    <3>2. r \in Emitted <=> \/ r[1] = class /\ r[2] <= sent
                            \/ class = "Building" /\ r[1] = "Substation"
      BY DEF Emitted
    <3>3. r[2] <= sent + n <=> r[2] <= sent \/ (sent < r[2] /\ r[2] <= sent + n)
      BY <1>0, <1>3
    <3>4. QED
      BY <3>1, <3>2, <3>3, <1>2
  <2>2. Emitted' \subseteq Roots /\ Emitted \subseteq Roots
    BY DEF Emitted
  <2>3. QED
    BY <2>1, <2>2, <1>1
<1>6. batches' = Append(batches, b) /\ batches \in Seq(SUBSET Roots)
  BY DEF Emit, TypeOK
<1>7. /\ Len(batches') = Len(batches) + 1
      /\ batches'[Len(batches) + 1] = b
      /\ \A i \in 1 .. Len(batches) : batches'[i] = batches[i]
  BY <1>1, <1>6, AppendProperties
<1>8. QED
  BY <1>1, <1>4, <1>5, <1>7

(* Taking the head leaves the tail, element by element. *)
LEMMA TailShifts ==
  ASSUME batches \in Seq(SUBSET Roots), batches # <<>>
  PROVE  /\ Head(batches) = batches[1] /\ 1 \in 1 .. Len(batches)
         /\ Len(Tail(batches)) = Len(batches) - 1
         /\ \A i \in 1 .. Len(Tail(batches)) :
               i + 1 \in 1 .. Len(batches) /\ Tail(batches)[i] = batches[i + 1]
         /\ \A i \in 1 .. Len(batches) : i # 1 =>
               i - 1 \in 1 .. Len(Tail(batches)) /\ Tail(batches)[i - 1] = batches[i]
<1>1. Len(batches) \in Nat /\ Len(batches) # 0
  BY EmptySeq, LenProperties
<1>2. Head(batches) = batches[1] /\ 1 \in 1 .. Len(batches)
  BY <1>1, HeadTailProperties
<1>3. Len(Tail(batches)) = Len(batches) - 1
  BY HeadTailProperties
<1>4. \A i \in 1 .. Len(Tail(batches)) : Tail(batches)[i] = batches[i + 1]
  BY HeadTailProperties
<1>5. QED
  BY <1>1, <1>2, <1>3, <1>4

(* Together with TypeOK, the two are inductive: a batch that was just sent is *)
(* new, and a batch that moves to a worker leaves the channel.                *)
THEOREM RootsKept == Spec => [](SentIsKept /\ EachRootOnce)
<1> DEFINE Inv == SentIsKept /\ EachRootOnce
<1>1. Init => Inv
  <2>1. ASSUME Init PROVE Emitted = {} /\ Len(batches) = 0
    <3>1. \A r \in Roots : r[2] \in Nat /\ ~(r[2] <= 0)
      BY RootShape, CountNat
    <3>2. QED
      BY <2>1, <3>1 DEF Init, Emitted
  <2>2. ASSUME Init
        PROVE  /\ 1 .. Len(batches) = {} /\ \A w \in Workers : held[w] = {}
               /\ \A t \in Tables : rows[t] = {}
    BY <2>1, <2>2 DEF Init
  <2>3. QED
    BY <2>1, <2>2 DEF SentIsKept, EachRootOnce
<1>2. TypeOK /\ FeederInv /\ WorkerInv /\ Inv /\ [Next]_vars => Inv'
  <2> SUFFICES ASSUME TypeOK, FeederInv, WorkerInv, Inv, [Next]_vars PROVE Inv'
    OBVIOUS
  <2>0. "groups" \in Tables /\ \A k \in 1 .. LastWrite : Writes[k] \in Tables
    BY WritesFacts
  <2>1. ASSUME NEW n \in Nat, n <= afterID - sent, Emit(n), class' = class,
               UNCHANGED <<held, rows>>
        PROVE  Inv'
    <3> DEFINE b == Ids(class, sent + 1, sent + n)
    <3>1. /\ b \in SUBSET Roots /\ b \cap Emitted = {} /\ Emitted' = Emitted \cup b
          /\ Len(batches') = Len(batches) + 1 /\ batches'[Len(batches) + 1] = b
          /\ \A i \in 1 .. Len(batches) : batches'[i] = batches[i]
      BY <2>1, EmitSends
    <3>2. Len(batches) \in Nat
      BY LenProperties DEF TypeOK
    <3>3. \A i \in 1 .. Len(batches') :
             \/ i = Len(batches) + 1 /\ batches'[i] = b
             \/ i \in 1 .. Len(batches) /\ batches'[i] = batches[i]
      BY <3>1, <3>2
    <3>4. 1 .. Len(batches') = (1 .. Len(batches)) \cup {Len(batches) + 1}
      BY <3>1, <3>2
    <3> HIDE DEF b
    <3>5. SentIsKept'
      BY <2>1, <3>1, <3>3, <3>4 DEF SentIsKept
    <3>6. EachRootOnce'
      BY <2>1, <3>1, <3>3 DEF SentIsKept, EachRootOnce
    <3>7. QED
      BY <3>5, <3>6
  <2>2. ASSUME UNCHANGED <<batches, held, rows>>, Emitted' = Emitted
        PROVE  Inv'
    BY <2>2 DEF SentIsKept, EachRootOnce
  <2>3. CASE EmitFull
    <3>1. BatchSize \in Nat /\ BatchSize <= afterID - sent /\ Emit(BatchSize)
          /\ UNCHANGED <<class, held, rows>>
      BY <2>3, PoolAssumption DEF EmitFull, workerVars
    <3>2. QED
      BY <2>1, <3>1
  <2>4. CASE EmitRest
    <3>1. afterID - sent \in Nat /\ Emit(afterID - sent) /\ UNCHANGED <<class, held, rows>>
      BY <2>4 DEF EmitRest, workerVars, TypeOK
    <3>2. QED
      BY <2>1, <3>1 DEF TypeOK
  <2>5. CASE EndClass
    <3>1. UNCHANGED <<batches, held, rows>> /\ afterID = sent /\ afterID = Count(class)
      BY <2>5 DEF EndClass, workerVars, FeederInv
    <3>2. CASE class = "Building"
      BY <2>5, <3>1, <3>2, <2>2 DEF EndClass, Emitted
    <3>3. CASE class # "Building"
      <4>1. class = "Substation" /\ class' = "Building" /\ sent' = 0
        BY <2>5, <3>3 DEF EndClass, TypeOK, Classes
      <4>2. \A r \in Roots : r \in Emitted <=> r[1] = "Substation"
        BY <4>1, <3>1, RootShape DEF Emitted, TypeOK
      <4>3. \A r \in Roots : r \in Emitted' <=> r[1] = "Substation"
        <5>1. \A r \in Roots : ~(r[2] <= 0)
          BY RootShape, CountNat
        <5>2. QED
          BY <4>1, <5>1 DEF Emitted
      <4>4. Emitted' = Emitted
        BY <4>2, <4>3 DEF Emitted
      <4>5. QED
        BY <4>4, <3>1, <2>2
    <3>4. QED
      BY <3>2, <3>3
  <2>6. CASE GetPage \/ PageFails \/ NextPage \/ CloseBatches
    <3>1. UNCHANGED <<batches, held, rows, class, sent>>
      BY <2>6 DEF GetPage, PageFails, NextPage, CloseBatches, workerVars
    <3>2. QED
      BY <3>1, <2>2 DEF Emitted
  <2>7. ASSUME NEW w \in Workers, Receive(w) PROVE Inv'
    <3>1. /\ batches # <<>> /\ batches' = Tail(batches)
          /\ held' = [held EXCEPT ![w] = batches[1]]
          /\ UNCHANGED <<rows, class, sent>> /\ held[w] = {}
          /\ 1 \in 1 .. Len(batches)
      BY <2>7, TailShifts DEF Receive, feederVars, TypeOK, WorkerInv
    <3>2. /\ \A i \in 1 .. Len(batches') :
                i + 1 \in 1 .. Len(batches) /\ i + 1 # 1 /\ batches'[i] = batches[i + 1]
          /\ \A i \in 1 .. Len(batches) : i # 1 =>
                i - 1 \in 1 .. Len(batches') /\ batches'[i - 1] = batches[i]
      BY <3>1, TailShifts DEF TypeOK
    <3>3. held'[w] = batches[1] /\ \A v \in Workers : v # w => held'[v] = held[v]
      BY <3>1 DEF TypeOK
    <3>4. Emitted' = Emitted
      BY <3>1 DEF Emitted
    <3>5. SentIsKept'
      <4>1. \A i \in 1 .. Len(batches') : batches'[i] \subseteq Emitted'
        BY <3>2, <3>4 DEF SentIsKept
      <4>2. \A v \in Workers : held'[v] \subseteq Emitted'
        BY <3>1, <3>3, <3>4 DEF SentIsKept
      <4>3. \A t \in Tables : rows'[t] \subseteq Emitted'
        BY <3>1, <3>4 DEF SentIsKept
      <4>4. ASSUME NEW r \in Emitted'
            PROVE  \/ r \in rows'["groups"] \/ \E v \in Workers : r \in held'[v]
                   \/ \E i \in 1 .. Len(batches') : r \in batches'[i]
        <5>1. CASE r \in rows["groups"]
          BY <5>1, <3>1
        <5>2. CASE \E v \in Workers : r \in held[v]
          BY <5>2, <3>1, <3>3
        <5>3. CASE \E i \in 1 .. Len(batches) : r \in batches[i]
          BY <5>3, <3>2, <3>3
        <5>4. QED
          BY <4>4, <3>4, <5>1, <5>2, <5>3 DEF SentIsKept
      <4>5. QED
        BY <4>1, <4>2, <4>3, <4>4 DEF SentIsKept
    <3>6. EachRootOnce'
      <4>1. \A i, j \in 1 .. Len(batches') : i # j => batches'[i] \cap batches'[j] = {}
        <5>1. SUFFICES ASSUME NEW i \in 1 .. Len(batches'), NEW j \in 1 .. Len(batches'),
                              i # j
                       PROVE  batches'[i] \cap batches'[j] = {}
          OBVIOUS
        <5>2. /\ i + 1 \in 1 .. Len(batches) /\ batches'[i] = batches[i + 1]
              /\ j + 1 \in 1 .. Len(batches) /\ batches'[j] = batches[j + 1]
          BY <3>2
        <5>3. i + 1 # j + 1
          BY <5>1
        <5>4. batches[i + 1] \cap batches[j + 1] = {}
          BY <5>2, <5>3 DEF EachRootOnce
        <5>5. QED
          BY <5>2, <5>4
      <4>2. \A u, v \in Workers : u # v => held'[u] \cap held'[v] = {}
        BY <3>1, <3>3 DEF EachRootOnce
      <4>3. \A i \in 1 .. Len(batches') :
               /\ \A v \in Workers : batches'[i] \cap held'[v] = {}
               /\ \A t \in Tables : batches'[i] \cap rows'[t] = {}
        BY <3>1, <3>2, <3>3 DEF EachRootOnce
      <4>4. QED
        BY <4>1, <4>2, <4>3 DEF EachRootOnce
    <3>7. QED
      BY <3>5, <3>6
  <2>8. ASSUME NEW w \in Workers, NEW S \in SUBSET held[w], worker[w] = "work",
               rows' = [rows EXCEPT ![Writes[step[w]]] = @ \cup S],
               UNCHANGED <<batches, class, sent>>,
               held' = held \/ (held' = [held EXCEPT ![w] = {}] /\ S = held[w]
                                /\ Writes[step[w]] = "groups")
        PROVE  Inv'
    <3>1. Emitted' = Emitted
      BY <2>8 DEF Emitted
    <3>2. \A t \in Tables : rows[t] \subseteq rows'[t] /\ rows'[t] \subseteq rows[t] \cup held[w]
      BY <2>8, <2>0 DEF TypeOK
    <3>3. \A v \in Workers : held'[v] \subseteq held[v] /\ (v # w => held'[v] = held[v])
      BY <2>8 DEF TypeOK
    <3>4. \A r \in held[w] : r \in held'[w] \/ r \in rows'["groups"]
      BY <2>8, <2>0 DEF TypeOK
    <3>5. SentIsKept'
      <4>1. \A i \in 1 .. Len(batches') : batches'[i] \subseteq Emitted'
        BY <2>8, <3>1 DEF SentIsKept
      <4>2. \A v \in Workers : held'[v] \subseteq Emitted'
        BY <3>3, <3>1 DEF SentIsKept
      <4>3. \A t \in Tables : rows'[t] \subseteq Emitted'
        BY <3>2, <3>1 DEF SentIsKept
      <4>4. ASSUME NEW r \in Emitted'
            PROVE  \/ r \in rows'["groups"] \/ \E v \in Workers : r \in held'[v]
                   \/ \E i \in 1 .. Len(batches') : r \in batches'[i]
        BY <4>4, <3>1, <3>2, <3>3, <3>4, <2>0, <2>8 DEF SentIsKept
      <4>5. QED
        BY <4>1, <4>2, <4>3, <4>4 DEF SentIsKept
    <3>6. EachRootOnce'
      BY <2>8, <3>2, <3>3 DEF EachRootOnce
    <3>7. QED
      BY <3>5, <3>6
  <2>9. ASSUME NEW w \in Workers, Persist(w) PROVE Inv'
    <3>1. /\ rows' = [rows EXCEPT ![Writes[step[w]]] = @ \cup held[w]]
          /\ UNCHANGED <<batches, class, sent>> /\ worker[w] = "work"
      BY <2>9 DEF Persist, feederVars
    <3>2. step[w] < LastWrite \/ Writes[step[w]] = "groups"
      BY WritesFacts DEF TypeOK
    <3>3. held' = held \/ (held' = [held EXCEPT ![w] = {}] /\ Writes[step[w]] = "groups")
      BY <2>9, <3>2 DEF Persist
    <3>4. QED
      BY <3>1, <3>3, <2>8
  <2>10. ASSUME NEW w \in Workers, Fail(w) PROVE Inv'
    <3>1. PICK S \in SUBSET held[w] : rows' = [rows EXCEPT ![Writes[step[w]]] = @ \cup S]
      BY <2>10 DEF Fail
    <3>2. UNCHANGED <<batches, class, sent, held>> /\ worker[w] = "work"
      BY <2>10 DEF Fail, feederVars
    <3>3. QED
      BY <3>1, <3>2, <2>8
  <2>11. ASSUME NEW w \in Workers, Drained(w) \/ ReportError(w) PROVE Inv'
    <3>1. UNCHANGED <<batches, held, rows, class, sent>>
      BY <2>11 DEF Drained, ReportError, feederVars
    <3>2. QED
      BY <3>1, <2>2 DEF Emitted
  <2>12. CASE Return \/ Returned \/ UNCHANGED vars
    <3>1. UNCHANGED <<batches, held, rows, class, sent>>
      BY <2>12 DEF Return, Returned, vars, feederVars, workerVars
    <3>2. QED
      BY <3>1, <2>2 DEF Emitted
  <2>13. QED
    BY <2>3, <2>4, <2>5, <2>6, <2>7, <2>9, <2>10, <2>11, <2>12 DEF Next, Feeder, Worker
<1>3. QED
  BY <1>1, <1>2, TypeCorrect, FeederCorrect, WorkersCorrect, PTL DEF Spec

(* No root is processed twice, whatever the pages, the batches and the       *)
(* failures.                                                                 *)
THEOREM RootsOnce == Spec => []EachRootOnce
  BY RootsKept, PTL

-----------------------------------------------------------------------------
(* A worker at write k has made the writes before it for its whole batch.    *)
WritesDone == /\ \A w \in Workers : \A k \in 1 .. step[w] - 1 : held[w] \subseteq rows[Writes[k]]
              /\ \A k \in 1 .. LastWrite - 1 : rows[Writes[k + 1]] \subseteq rows[Writes[k]]

(* No table occurs twice in the list of writes. *)
LEMMA WritesDistinct == \A i, j \in 1 .. LastWrite : Writes[i] = Writes[j] => i = j
<1>1. 1 .. LastWrite = {1, 2, 3, 4, 5, 6, 7}
  BY WritesFacts
<1>2. QED
  BY <1>1, WritesFacts

(* Committing part of a worker's batch at its current write keeps the order. *)
LEMMA CommitKeepsOrder ==
  ASSUME TypeOK, WritesDone, NEW w \in Workers, NEW S \in SUBSET held[w],
         rows' = [rows EXCEPT ![Writes[step[w]]] = @ \cup S]
  PROVE  /\ \A t \in Tables : rows[t] \subseteq rows'[t]
         /\ S \subseteq rows'[Writes[step[w]]]
         /\ \A k \in 1 .. LastWrite - 1 : rows'[Writes[k + 1]] \subseteq rows'[Writes[k]]
<1>0. step[w] \in 1 .. LastWrite /\ LastWrite = 7 /\ \A k \in 1 .. LastWrite : Writes[k] \in Tables
  BY WritesFacts DEF TypeOK
<1>1. \A t \in Tables : rows'[t] = IF t = Writes[step[w]] THEN rows[t] \cup S ELSE rows[t]
  BY <1>0 DEF TypeOK
<1>2. ASSUME NEW k \in 1 .. LastWrite - 1
      PROVE  rows'[Writes[k + 1]] \subseteq rows'[Writes[k]]
  <2>1. k \in 1 .. LastWrite /\ k + 1 \in 1 .. LastWrite
    BY <1>0
  <2>2. rows[Writes[k + 1]] \subseteq rows[Writes[k]] /\ rows[Writes[k]] \subseteq rows'[Writes[k]]
    BY <2>1, <1>0, <1>1 DEF WritesDone
  <2>3. CASE k + 1 = step[w]
    <3>1. held[w] \subseteq rows[Writes[k]]
      <4>1. k \in 1 .. step[w] - 1
        BY <2>3, <1>0
      <4>2. QED
        BY <4>1 DEF WritesDone
    <3>2. QED
      BY <2>1, <2>2, <3>1, <1>0, <1>1
  <2>4. CASE k + 1 # step[w]
    <3>1. Writes[k + 1] # Writes[step[w]]
      BY <2>1, <2>4, <1>0, WritesDistinct
    <3>2. QED
      BY <3>1, <2>1, <2>2, <1>0, <1>1
  <2>5. QED
    BY <2>3, <2>4
<1>3. QED
  BY <1>0, <1>1, <1>2

(* A worker at a write has committed the earlier writes for its whole batch, and
   so a later table never holds a root an earlier one lacks. *)
THEOREM WritesInOrder == Spec => []WritesDone
<1>1. Init => WritesDone
  <2>1. Init => \A w \in Workers : 1 .. step[w] - 1 = {}
    BY DEF Init
  <2>2. Init => \A k \in 1 .. LastWrite - 1 : rows[Writes[k + 1]] = {}
    BY WritesFacts DEF Init
  <2>3. QED
    BY <2>1, <2>2 DEF WritesDone
<1>2. TypeOK /\ WritesDone /\ [Next]_vars => WritesDone'
  <2> SUFFICES ASSUME TypeOK, WritesDone, [Next]_vars PROVE WritesDone'
    OBVIOUS
  <2>0. LastWrite = 7 /\ (\A k \in 1 .. LastWrite : Writes[k] \in Tables)
        /\ (\A v \in Workers : step[v] \in 1 .. LastWrite)
    BY WritesFacts DEF TypeOK
  <2>1. ASSUME UNCHANGED <<held, step, rows>> PROVE WritesDone'
    BY <2>1 DEF WritesDone
  <2>2. ASSUME NEW w \in Workers, Receive(w) PROVE WritesDone'
    <3>1. step' = [step EXCEPT ![w] = 1] /\ rows' = rows
          /\ \E b : held' = [held EXCEPT ![w] = b]
      BY <2>2 DEF Receive
    <3>2. 1 .. step'[w] - 1 = {}
      BY <3>1 DEF TypeOK
    <3>3. \A v \in Workers : v # w => step'[v] = step[v] /\ held'[v] = held[v]
      BY <3>1 DEF TypeOK
    <3>4. QED
      BY <3>1, <3>2, <3>3 DEF WritesDone
  <2>3. ASSUME NEW w \in Workers, Persist(w) PROVE WritesDone'
    <3>1. /\ \A t \in Tables : rows[t] \subseteq rows'[t]
          /\ held[w] \subseteq rows'[Writes[step[w]]]
          /\ \A k \in 1 .. LastWrite - 1 : rows'[Writes[k + 1]] \subseteq rows'[Writes[k]]
      BY <2>3, CommitKeepsOrder DEF Persist
    <3>2. ASSUME NEW v \in Workers, NEW k \in 1 .. step'[v] - 1
          PROVE  held'[v] \subseteq rows'[Writes[k]]
      <4>1. CASE step[w] < LastWrite
        <5>1. held' = held /\ step' = [step EXCEPT ![w] = @ + 1]
          BY <2>3, <4>1 DEF Persist
        <5>2. CASE v = w /\ k = step[w]
          BY <5>1, <5>2, <3>1
        <5>3. CASE ~(v = w /\ k = step[w])
          <6>1. k \in 1 .. step[v] - 1 /\ k \in 1 .. LastWrite
            BY <5>1, <5>3, <2>0, <3>2 DEF TypeOK
          <6>2. held[v] \subseteq rows[Writes[k]]
            BY <6>1 DEF WritesDone
          <6>3. QED
            BY <5>1, <6>1, <6>2, <3>1, <2>0
        <5>4. QED
          BY <5>2, <5>3
      <4>2. CASE ~(step[w] < LastWrite)
        <5>1. step' = step /\ held' = [held EXCEPT ![w] = {}]
          BY <2>3, <4>2 DEF Persist
        <5>2. k \in 1 .. LastWrite /\ k \in 1 .. step[v] - 1
          BY <5>1, <2>0, <3>2
        <5>3. held'[v] \subseteq held[v] /\ held[v] \subseteq rows[Writes[k]]
          BY <5>1, <5>2 DEF WritesDone, TypeOK
        <5>4. QED
          BY <5>2, <5>3, <3>1, <2>0
      <4>3. QED
        BY <4>1, <4>2
    <3>3. QED
      BY <3>1, <3>2 DEF WritesDone
  <2>4. ASSUME NEW w \in Workers, Fail(w) PROVE WritesDone'
    <3>1. PICK S \in SUBSET held[w] : rows' = [rows EXCEPT ![Writes[step[w]]] = @ \cup S]
      BY <2>4 DEF Fail
    <3>2. /\ \A t \in Tables : rows[t] \subseteq rows'[t]
          /\ \A k \in 1 .. LastWrite - 1 : rows'[Writes[k + 1]] \subseteq rows'[Writes[k]]
      BY <3>1, CommitKeepsOrder
    <3>3. UNCHANGED <<held, step>>
      BY <2>4 DEF Fail
    <3>4. ASSUME NEW v \in Workers, NEW k \in 1 .. step[v] - 1
          PROVE  held[v] \subseteq rows'[Writes[k]]
      <4>1. k \in 1 .. LastWrite
        BY <2>0, <3>4
      <4>2. held[v] \subseteq rows[Writes[k]]
        BY <3>4 DEF WritesDone
      <4>3. QED
        BY <4>1, <4>2, <3>2, <2>0
    <3>5. QED
      BY <3>2, <3>3, <3>4 DEF WritesDone
  <2>5. ASSUME NEW w \in Workers, Drained(w) \/ ReportError(w) PROVE WritesDone'
    BY <2>5, <2>1 DEF Drained, ReportError
  <2>6. CASE Feeder \/ Return \/ Returned \/ UNCHANGED vars
    <3>1. UNCHANGED <<held, step, rows>>
      BY <2>6 DEF Feeder, GetPage, PageFails, EmitFull, NextPage, EmitRest, EndClass,
                  CloseBatches, Return, Returned, workerVars, vars
    <3>2. QED
      BY <3>1, <2>1
  <2>7. QED
    BY <2>2, <2>3, <2>4, <2>5, <2>6 DEF Next, Worker
<1>3. QED
  BY <1>1, <1>2, TypeCorrect, PTL DEF Spec

(* No row of a later table without the rows of the earlier ones.             *)
THEOREM OrderKept == Spec => []RowsInOrder
<1>1. WritesDone => RowsInOrder
  <2>1. SUFFICES ASSUME WritesDone PROVE RowsInOrder
    OBVIOUS
  <2>2. \A k \in {2, 3, 4, 5, 6} : rows[Writes[k + 1]] \subseteq rows[Writes[k]]
    BY <2>1, WritesFacts DEF WritesDone
  <2>3. 2 + 1 = 3 /\ 3 + 1 = 4 /\ 4 + 1 = 5 /\ 5 + 1 = 6 /\ 6 + 1 = 7
    OBVIOUS
  <2>4. /\ rows[Writes[3]] \subseteq rows[Writes[2]] /\ rows[Writes[4]] \subseteq rows[Writes[3]]
        /\ rows[Writes[5]] \subseteq rows[Writes[4]] /\ rows[Writes[6]] \subseteq rows[Writes[5]]
        /\ rows[Writes[7]] \subseteq rows[Writes[6]]
    BY <2>2, <2>3
  <2>5. QED
    BY <2>4, WritesFacts DEF RowsInOrder
<1>2. QED
  BY <1>1, WritesInOrder, PTL

-----------------------------------------------------------------------------
(* RunPassA implements StationImport: every step commits roots and perhaps   *)
(* fails, returns, or changes nothing the caller can see.                    *)
THEOREM PassAImplementsImport == Spec => ImplementsImport
<1> DEFINE IInv == TypeOK /\ FeederInv /\ WorkerInv /\ SentIsKept
<1>1. Init => Import!Init
  BY WritesFacts DEF Init, Import!Init, Faulted
<1>2. IInv /\ [Next]_vars => [Import!Next]_(Import!vars)
  <2> SUFFICES ASSUME IInv, [Next]_vars PROVE [Import!Next]_(Import!vars)
    OBVIOUS
  <2>0. "groups" \in Tables /\ \A k \in 1 .. LastWrite : Writes[k] \in Tables
    BY WritesFacts
  <2>1. ASSUME rows'["groups"] = rows["groups"], Faulted' = Faulted, result' = result
        PROVE  UNCHANGED Import!vars
    BY <2>1 DEF Import!vars
  <2>2. CASE GetPage \/ EmitFull \/ NextPage \/ EmitRest \/ EndClass \/ CloseBatches
    <3>1. UNCHANGED <<rows, worker, feedErrCh, result>>
      BY <2>2 DEF GetPage, EmitFull, NextPage, EmitRest, EndClass, CloseBatches, workerVars
    <3>2. QED
      BY <3>1, <2>1 DEF Faulted
  <2>3. CASE PageFails
    <3>1. /\ feed = "page" /\ feedErrCh' = TRUE
          /\ UNCHANGED <<rows, worker, result>>
      BY <2>3 DEF PageFails, workerVars
    <3>2. Faulted'
      BY <3>1 DEF Faulted
    <3>3. CASE result = "running"
      <4>1. {} \in SUBSET (Roots \ rows["groups"]) /\ rows'["groups"] = rows["groups"] \cup {}
        BY <3>1
      <4>2. Faulted' = TRUE
        BY <3>1 DEF Faulted
      <4>3. Import!Work
        BY <3>1, <3>3, <4>1, <4>2 DEF Import!Work
      <4>4. QED
        BY <4>3 DEF Import!Next
    <3>4. CASE result # "running"
      <4>1. \A w \in Workers : worker[w] = "failed"
        BY <3>1, <3>4 DEF WorkerInv
      <4>2. PICK w \in Workers : TRUE
        BY PoolAssumption
      <4>3. Faulted
        BY <4>1, <4>2 DEF Faulted
      <4>4. QED
        BY <3>1, <3>2, <4>3, <2>1 DEF Faulted
    <3>5. QED
      BY <3>3, <3>4
  <2>4. ASSUME NEW w \in Workers, Receive(w) \/ Drained(w) \/ ReportError(w)
        PROVE  UNCHANGED Import!vars
    <3>1. UNCHANGED <<rows, feedErrCh, result>>
      BY <2>4 DEF Receive, Drained, ReportError, feederVars
    <3>2. \A v \in Workers : worker'[v] \in {"reporting", "failed"}
                               <=> worker[v] \in {"reporting", "failed"}
      BY <2>4 DEF Receive, Drained, ReportError, TypeOK
    <3>3. Faulted' <=> Faulted
      BY <3>1, <3>2 DEF Faulted
    <3>4. Faulted \in BOOLEAN /\ Faulted' \in BOOLEAN
      BY <3>1 DEF Faulted, TypeOK
    <3>5. QED
      BY <3>1, <3>3, <3>4, <2>1
  <2>5. ASSUME NEW w \in Workers, NEW S \in SUBSET held[w], worker[w] = "work",
               rows' = [rows EXCEPT ![Writes[step[w]]] = @ \cup S],
               result' = result, Faulted' \in {Faulted, TRUE}
        PROVE  Import!Next
    <3>1. result = "running"
      BY <2>5 DEF WorkerInv, TypeOK
    <3>2. rows'["groups"] \subseteq rows["groups"] \cup S
          /\ rows["groups"] \subseteq rows'["groups"]
      BY <2>5, <2>0 DEF TypeOK
    <3>3. rows'["groups"] = rows["groups"] \cup (rows'["groups"] \ rows["groups"])
          /\ rows'["groups"] \ rows["groups"] \in SUBSET (Roots \ rows["groups"])
      BY <3>2, <2>5 DEF TypeOK
    <3>4. QED
      BY <3>1, <3>3, <2>5 DEF Import!Next, Import!Work
  <2>6. ASSUME NEW w \in Workers, Persist(w)
        PROVE  Import!Next
    <3>1. /\ worker[w] = "work" /\ UNCHANGED <<feedErrCh, result>>
          /\ rows' = [rows EXCEPT ![Writes[step[w]]] = @ \cup held[w]]
      BY <2>6 DEF Persist, feederVars
    <3>2. \A v \in Workers : worker'[v] \in {"reporting", "failed"}
                               <=> worker[v] \in {"reporting", "failed"}
      BY <2>6, <3>1 DEF Persist, TypeOK
    <3>3. Faulted' <=> Faulted
      BY <3>1, <3>2 DEF Faulted
    <3>4. Faulted \in BOOLEAN /\ Faulted' \in BOOLEAN
      BY <3>1 DEF Faulted, TypeOK
    <3>5. QED
      BY <3>1, <3>3, <3>4, <2>5
  <2>7. ASSUME NEW w \in Workers, Fail(w)
        PROVE  Import!Next
    <3>1. /\ worker[w] = "work" /\ result' = result /\ worker'[w] = "reporting"
      BY <2>7 DEF Fail, TypeOK
    <3>2. Faulted' = TRUE
      BY <3>1 DEF Faulted
    <3>3. PICK S \in SUBSET held[w] : rows' = [rows EXCEPT ![Writes[step[w]]] = @ \cup S]
      BY <2>7 DEF Fail
    <3>4. QED
      BY <3>1, <3>2, <3>3, <2>5
  <2>8. CASE Return
    <3>1. /\ result = "running" /\ \A w \in Workers : worker[w] \in {"exited", "failed"}
          /\ result' = IF feedErrCh \/ workErrCh # {} THEN "error" ELSE "ok"
          /\ UNCHANGED <<feedErrCh, worker, rows>>
      BY <2>8 DEF Return, feederVars, workerVars
    <3>2. Faulted <=> feedErrCh \/ workErrCh # {}
      BY <3>1 DEF Faulted, WorkerInv, TypeOK
    <3>3. rows'["groups"] = rows["groups"] /\ Faulted' = Faulted
      BY <3>1 DEF Faulted
    <3>4. CASE Faulted
      BY <3>1, <3>2, <3>3, <3>4 DEF Import!Next, Import!GiveUp
    <3>5. CASE ~Faulted
      <4>1. \A w \in Workers : worker[w] = "exited" /\ held[w] = {}
        BY <3>1, <3>5 DEF Faulted, WorkerInv
      <4>2. PICK w \in Workers : TRUE
        BY PoolAssumption
      <4>3. feed = "done" /\ batches = <<>>
        BY <4>1, <4>2 DEF WorkerInv
      <4>4. class = "Building" /\ sent = Count(class)
        BY <4>3, <3>5 DEF FeederInv, Faulted
      <4>5. Emitted = Roots
        BY <4>4, RootShape, CountNat DEF Emitted, Classes
      <4>6. 1 .. Len(batches) = {}
        BY <4>3
      <4>7. rows["groups"] = Roots
        BY <4>1, <4>5, <4>6, <2>0 DEF SentIsKept, TypeOK
      <4>8. QED
        BY <3>1, <3>2, <3>3, <3>5, <4>7 DEF Import!Next, Import!Succeed
    <3>6. QED
      BY <3>4, <3>5
  <2>9. CASE Returned \/ UNCHANGED vars
    BY <2>9, <2>1 DEF Returned, vars, Faulted
  <2>10. QED
    BY <2>2, <2>3, <2>4, <2>6, <2>7, <2>8, <2>9 DEF Next, Feeder, Worker
<1>3. QED
  BY <1>1, <1>2, TypeCorrect, FeederCorrect, WorkersCorrect, RootsKept, PTL
  DEF Spec, ImplementsImport, Import!Spec

-----------------------------------------------------------------------------
(* Why RunPassA ends. Everything a step can do is counted in advance: pages  *)
(* and sends of the feeder, roots to take, writes to make, workers to fail,  *)
(* report or exit, and the answer. Every step leaves less of it, and unless  *)
(* RunPassA has ended some goroutine is free to take one.                    *)

\* At most so many steps the feeder has ahead of it, by where it is, what is left of the
\* class after the cursor and what is pending; pages are not empty, and the last is short.
FeederAhead ==
    LET left == Count(class) - afterID
        pending == afterID - sent
        building == IF class = "Substation" THEN 4 * NumBuildings + 4 ELSE 0
    IN  building + (IF feed = "page" THEN 4 * left + pending + 3
                    ELSE IF feed = "emit" THEN 4 * left + pending + 5
                    ELSE IF feed = "flush" THEN 4 * left + pending + 2
                    ELSE IF feed = "close" THEN 1 ELSE 0)

\* What is ahead of the goroutines: roots to take, writes to make, errors to report.
Taken(r) == r \in rows["groups"] \/ \E w \in Workers : r \in held[w]
Ahead == [steps |-> 1 .. FeederAhead,
          roots |-> {r \in Roots : ~Taken(r)},
          writes |-> {p \in Roots \X Tables : p[1] \notin rows[p[2]]},
          working |-> {w \in Workers : worker[w] \in {"recv", "work"}},
          leaving |-> {w \in Workers : worker[w] \notin {"exited", "failed"}},
          answers |-> {a \in {"answer"} : result = "running"}]
LessAhead == Ahead' # Ahead /\ \A k \in DOMAIN Ahead : Ahead'[k] \subseteq Ahead[k]

\* A batch has roots; what a worker has not written yet is in none of those tables.
BatchesFull ==
    /\ \A i \in 1 .. Len(batches) : batches[i] # {}
    /\ \A w \in Workers : worker[w] = "work" =>
          /\ held[w] # {}
          /\ \A k \in step[w] .. LastWrite : held[w] \cap rows[Writes[k]] = {}

\* What keeps a goroutine from its next step is the channel, or the others.
FeederCanGo ==
    \/ feed \in {"page", "close"}
    \/ feed = "emit" /\ (afterID - sent < BatchSize \/ Len(batches) < BatchesCap)
    \/ feed = "flush" /\ (afterID = sent \/ Len(batches) < BatchesCap)
WorkerCanGo(w) ==
    \/ worker[w] = "work"
    \/ worker[w] = "recv" /\ (batches # <<>> \/ feed = "done")
    \/ worker[w] = "reporting" /\ Cardinality(workErrCh) < WorkErrCap
Ended ==
    /\ result # "running"
    /\ feed = "done" \/ \A w \in Workers : worker[w] \in {"reporting", "failed"}
SomebodyCanGo ==
    ~Ended => \/ FeederCanGo \/ \E w \in Workers : WorkerCanGo(w)
              \/ result = "running" /\ \A w \in Workers : worker[w] \in {"exited", "failed"}

LEMMA FeederAheadNat == TypeOK => FeederAhead \in Nat
<1> SUFFICES ASSUME TypeOK PROVE FeederAhead \in Nat
  OBVIOUS
<1>1. Count(class) - afterID \in Nat /\ afterID - sent \in Nat /\ NumBuildings \in Nat
  BY CountNat, PoolAssumption DEF TypeOK
<1> QED BY <1>1 DEF FeederAhead

\* A step of the feeder leaves it fewer.
LEMMA FeederAdvances ==
    ASSUME TypeOK, FeederInv, Feeder
    PROVE  FeederAhead' \in Nat /\ FeederAhead' < FeederAhead
<1> DEFINE left == Count(class) - afterID
           pending == afterID - sent
           building == IF class = "Substation" THEN 4 * NumBuildings + 4 ELSE 0
<1>0. /\ left \in Nat /\ pending \in Nat /\ building \in Nat /\ afterID \in Nat /\ sent \in Nat
      /\ Count(class) \in Nat /\ ChunkSize \in Nat \ {0} /\ BatchSize \in Nat \ {0}
      /\ class \in {"Substation", "Building"}
  BY CountNat, PoolAssumption DEF TypeOK, Classes
<1>1. CASE GetPage
  <2> DEFINE n == IF left < ChunkSize THEN left ELSE ChunkSize
  <2>1. /\ feed = "page" /\ class' = class /\ sent' = sent /\ afterID' = afterID + n
        /\ feed' = IF n = 0 THEN "flush" ELSE "emit"
    BY <1>1 DEF GetPage
  <2>2. n \in Nat /\ n <= left
    BY <1>0
  <2>3. FeederAhead = building + (4 * left + pending + 3)
    BY <2>1 DEF FeederAhead
  <2> HIDE DEF n
  <2>4. Count(class)' - afterID' = left - n /\ afterID' - sent' = pending + n
    BY <1>0, <2>1, <2>2
  <2>5. CASE n = 0
    <3>1. FeederAhead' = building + (4 * (left - n) + (pending + n) + 2)
      BY <2>1, <2>4, <2>5 DEF FeederAhead
    <3> QED BY <1>0, <2>2, <2>3, <2>5, <3>1
  <2>6. CASE n # 0
    <3>1. FeederAhead' = building + (4 * (left - n) + (pending + n) + 5)
      BY <2>1, <2>4, <2>6 DEF FeederAhead
    <3> QED BY <1>0, <2>2, <2>3, <2>6, <3>1
  <2> QED BY <2>5, <2>6
<1>2. CASE PageFails
  <2>1. FeederAhead = building + (4 * left + pending + 3) /\ FeederAhead' = building + 1
    BY <1>2 DEF PageFails, FeederAhead
  <2> QED BY <1>0, <2>1
<1>3. CASE EmitFull
  <2>1. FeederAhead = building + (4 * left + pending + 5)
    BY <1>3 DEF EmitFull, FeederAhead
  <2>2. BatchSize <= pending /\ sent' = sent + BatchSize /\ UNCHANGED <<feed, class, afterID>> /\ feed = "emit"
    BY <1>3 DEF EmitFull, Emit
  <2>3. afterID' - sent' = pending - BatchSize
    BY <1>0, <2>2
  <2>4. FeederAhead' = building + (4 * left + (pending - BatchSize) + 5)
    BY <2>2, <2>3 DEF FeederAhead
  <2> QED BY <1>0, <2>1, <2>2, <2>4
<1>4. CASE NextPage
  <2>1. /\ FeederAhead = building + (4 * left + pending + 5)
        /\ \/ FeederAhead' = building + (4 * left + pending + 3)
           \/ FeederAhead' = building + (4 * left + pending + 2)
    BY <1>4 DEF NextPage, FeederAhead
  <2> QED BY <1>0, <2>1
<1>5. CASE EmitRest
  <2>1. FeederAhead = building + (4 * left + pending + 2)
    BY <1>5 DEF EmitRest, FeederAhead
  <2>2. pending # 0 /\ sent' = sent + pending /\ UNCHANGED <<feed, class, afterID>> /\ feed = "flush"
    BY <1>0, <1>5 DEF EmitRest, Emit
  <2>3. afterID' - sent' = 0
    BY <1>0, <2>2
  <2>4. FeederAhead' = building + (4 * left + 0 + 2)
    BY <2>2, <2>3 DEF FeederAhead
  <2> QED BY <1>0, <2>1, <2>2, <2>4
<1>6. CASE EndClass
  <2>1. FeederAhead = building + (4 * left + pending + 2)
    BY <1>6 DEF EndClass, FeederAhead
  <2>2. CASE class = "Substation"
    <3>1. class' = "Building" /\ afterID' = 0 /\ sent' = 0 /\ feed' = "page"
      BY <1>6, <2>2 DEF EndClass
    <3>2. FeederAhead' = 0 + (4 * (NumBuildings - 0) + (0 - 0) + 3)
      BY <3>1 DEF FeederAhead, Count
    <3>3. building = 4 * NumBuildings + 4 /\ NumBuildings \in Nat
      BY <2>2, PoolAssumption
    <3> QED BY <1>0, <2>1, <3>2, <3>3
  <2>3. CASE class # "Substation"
    <3>1. FeederAhead' = building + 1
      BY <1>6, <2>3 DEF EndClass, FeederAhead
    <3> QED BY <1>0, <2>1, <3>1
  <2> QED BY <2>2, <2>3
<1>7. CASE CloseBatches
  <2>1. FeederAhead = building + 1 /\ FeederAhead' = building + 0
    BY <1>7 DEF CloseBatches, FeederAhead
  <2> QED BY <1>0, <2>1
<1> QED BY <1>1, <1>2, <1>3, <1>4, <1>5, <1>6, <1>7 DEF Feeder

\* Batches are sent with roots, and what a worker takes is in no table.
LEMMA BatchesFullStep ==
    ASSUME TypeOK, EachRootOnce, WorkerInv, BatchesFull, [Next]_vars
    PROVE  BatchesFull'
<1> USE DEF BatchesFull
<1>1. CASE GetPage \/ PageFails \/ NextPage \/ EndClass \/ CloseBatches \/ Return \/ Returned \/ UNCHANGED vars
  BY <1>1 DEF GetPage, PageFails, NextPage, EndClass, CloseBatches, Return, Returned, vars, feederVars, workerVars
<1>2. CASE EmitFull \/ EmitRest
  <2>1. PICK n \in Nat \ {0} : n <= afterID - sent /\ Emit(n)
    <3>1. CASE EmitFull
      BY <3>1, PoolAssumption DEF EmitFull
    <3>2. CASE EmitRest
      <4>1. afterID - sent \in Nat \ {0} /\ Emit(afterID - sent) /\ afterID - sent <= afterID - sent
        BY <3>2 DEF EmitRest, TypeOK
      <4> QED BY <4>1
    <3> QED BY <1>2, <3>1, <3>2
  <2>2. class' = class /\ UNCHANGED <<worker, held, step, rows>>
    BY <1>2 DEF EmitFull, EmitRest, workerVars
  <2> DEFINE b == Ids(class, sent + 1, sent + n)
  <2>3. /\ Len(batches') = Len(batches) + 1 /\ batches'[Len(batches) + 1] = b
        /\ \A i \in 1 .. Len(batches) : batches'[i] = batches[i]
    BY <2>1, <2>2, EmitSends
  <2>4. b # {}
    <3>1. sent + 1 \in (sent + 1) .. (sent + n)
      BY <2>1 DEF TypeOK
    <3>2. <<class, sent + 1>> \in b
      BY <3>1 DEF Ids
    <3> QED BY <3>2
  <2>5. Len(batches) \in Nat
    BY LenProperties DEF TypeOK
  <2>6. \A i \in 1 .. Len(batches') : i \in 1 .. Len(batches) \/ i = Len(batches) + 1
    BY <2>3, <2>5
  <2> HIDE DEF b
  <2> QED BY <2>2, <2>3, <2>4, <2>6
<1>3. ASSUME NEW w \in Workers, Receive(w) PROVE BatchesFull'
  <2>1. /\ worker[w] = "recv" /\ batches # <<>> /\ batches' = Tail(batches) /\ rows' = rows
        /\ worker' = [worker EXCEPT ![w] = "work"] /\ held' = [held EXCEPT ![w] = Head(batches)]
        /\ step' = [step EXCEPT ![w] = 1]
    BY <1>3 DEF Receive
  <2>2. /\ Head(batches) = batches[1] /\ 1 \in 1 .. Len(batches)
        /\ \A i \in 1 .. Len(batches') : i + 1 \in 1 .. Len(batches) /\ batches'[i] = batches[i + 1]
    BY <2>1, TailShifts DEF TypeOK
  <2>3. \A i \in 1 .. Len(batches') : batches'[i] # {}
    BY <2>2
  <2>4. held'[w] = batches[1] /\ \A k \in step'[w] .. LastWrite : held'[w] \cap rows'[Writes[k]] = {}
    <3>1. held'[w] = batches[1] /\ step'[w] = 1
      BY <2>1, <2>2 DEF TypeOK
    <3> QED BY <2>1, <2>2, <3>1, WritesFacts DEF EachRootOnce
  <2>5. \A v \in Workers : v # w => worker'[v] = worker[v] /\ held'[v] = held[v] /\ step'[v] = step[v]
    BY <2>1 DEF TypeOK
  <2> QED BY <2>1, <2>2, <2>3, <2>4, <2>5
<1>4. ASSUME NEW w \in Workers, Drained(w) \/ ReportError(w) PROVE BatchesFull'
  BY <1>4 DEF Drained, ReportError, TypeOK
<1>5. ASSUME NEW w \in Workers, Persist(w) \/ Fail(w) PROVE BatchesFull'
  <2>1. PICK S \in SUBSET held[w] : rows' = [rows EXCEPT ![Writes[step[w]]] = @ \cup S]
    BY <1>5 DEF Persist, Fail
  <2>2. worker[w] = "work" /\ batches' = batches
    BY <1>5 DEF Persist, Fail
  <2>3. ASSUME NEW v \in Workers, v # w, worker'[v] = "work"
        PROVE  held'[v] # {} /\ \A k \in step'[v] .. LastWrite : held'[v] \cap rows'[Writes[k]] = {}
    <3>1. worker[v] = "work" /\ held'[v] = held[v] /\ step'[v] = step[v]
      BY <1>5, <2>3 DEF Persist, Fail, TypeOK
    <3>2. held[v] \cap held[w] = {}
      BY <2>3 DEF EachRootOnce
    <3>3. ASSUME NEW k \in step[v] .. LastWrite PROVE held[v] \cap rows'[Writes[k]] = {}
      <4>1. k \in 1 .. LastWrite
        BY <3>3, WritesFacts DEF TypeOK
      <4>2. rows'[Writes[k]] \subseteq rows[Writes[k]] \cup S
        BY <2>1, <4>1, WritesFacts DEF TypeOK
      <4>3. held[v] \cap rows[Writes[k]] = {}
        BY <3>1, <3>3
      <4> QED BY <3>2, <4>2, <4>3
    <3> QED BY <3>1, <3>3
  <2>4. ASSUME worker'[w] = "work"
        PROVE  held'[w] # {} /\ \A k \in step'[w] .. LastWrite : held'[w] \cap rows'[Writes[k]] = {}
    <3>1. held'[w] = held[w] /\ step'[w] = step[w] + 1 /\ step[w] \in 1 .. LastWrite
      BY <1>5, <2>4 DEF Persist, Fail, TypeOK
    <3>2. ASSUME NEW k \in step[w] + 1 .. LastWrite PROVE held[w] \cap rows'[Writes[k]] = {}
      <4>1. k \in 1 .. LastWrite /\ k # step[w] /\ k \in step[w] .. LastWrite
        BY <3>1, <3>2, WritesFacts
      <4>2. Writes[k] # Writes[step[w]]
        BY <3>1, <4>1, WritesDistinct
      <4>3. rows'[Writes[k]] = rows[Writes[k]]
        BY <2>1, <4>1, <4>2, WritesFacts DEF TypeOK
      <4> QED BY <2>2, <4>1, <4>3
    <3> QED BY <2>2, <3>1, <3>2
  <2> QED BY <2>2, <2>3, <2>4
<1> QED BY <1>1, <1>2, <1>3, <1>4, <1>5 DEF Next, Feeder, Worker

\* No batch in the channel and none at a worker is ever empty, and a worker's roots are
\* in no table it has still to write.
THEOREM BatchesAlwaysFull == Spec => []BatchesFull
<1>1. Init => BatchesFull
  <2>1. Init => Len(batches) = 0
    BY DEF Init
  <2>2. Init => \A w \in Workers : worker[w] # "work"
    BY DEF Init
  <2> QED BY <2>1, <2>2 DEF BatchesFull
<1>2. TypeOK /\ EachRootOnce /\ WorkerInv /\ BatchesFull /\ [Next]_vars => BatchesFull'
  BY BatchesFullStep
<1> QED BY <1>1, <1>2, TypeCorrect, RootsOnce, WorkersCorrect, PTL DEF Spec

\* Less is ahead when every part shrinks and one part has lost something.
LEMMA LessWhen ==
    ASSUME Ahead'.steps \subseteq Ahead.steps, Ahead'.roots \subseteq Ahead.roots,
           Ahead'.writes \subseteq Ahead.writes, Ahead'.working \subseteq Ahead.working,
           Ahead'.leaving \subseteq Ahead.leaving, Ahead'.answers \subseteq Ahead.answers,
           \/ Ahead'.steps # Ahead.steps \/ Ahead'.roots # Ahead.roots
           \/ Ahead'.writes # Ahead.writes \/ Ahead'.working # Ahead.working
           \/ Ahead'.leaving # Ahead.leaving \/ Ahead'.answers # Ahead.answers
    PROVE  LessAhead
<1>1. DOMAIN Ahead = {"steps", "roots", "writes", "working", "leaving", "answers"}
  BY DEF Ahead
<1>2. /\ Ahead'["steps"] \subseteq Ahead["steps"] /\ Ahead'["roots"] \subseteq Ahead["roots"]
      /\ Ahead'["writes"] \subseteq Ahead["writes"] /\ Ahead'["working"] \subseteq Ahead["working"]
      /\ Ahead'["leaving"] \subseteq Ahead["leaving"] /\ Ahead'["answers"] \subseteq Ahead["answers"]
  OBVIOUS
<1>3. Ahead' # Ahead
  OBVIOUS
<1> QED BY <1>1, <1>2, <1>3 DEF LessAhead

\* A step leaves the parts alone whose variables it leaves alone.
LEMMA FeederParts ==
    UNCHANGED <<feed, class, afterID, sent>> => Ahead'.steps = Ahead.steps
<1> SUFFICES ASSUME UNCHANGED <<feed, class, afterID, sent>> PROVE Ahead'.steps = Ahead.steps
  OBVIOUS
<1>1. FeederAhead' = FeederAhead
  BY DEF FeederAhead
<1> QED BY <1>1 DEF Ahead

LEMMA WorkerParts ==
    /\ UNCHANGED <<rows, held>> => Ahead'.roots = Ahead.roots
    /\ UNCHANGED rows => Ahead'.writes = Ahead.writes
    /\ UNCHANGED worker => Ahead'.working = Ahead.working /\ Ahead'.leaving = Ahead.leaving
    /\ UNCHANGED result => Ahead'.answers = Ahead.answers
<1>1. UNCHANGED <<rows, held>> => Ahead'.roots = Ahead.roots
  BY DEF Ahead, Taken
<1>2. UNCHANGED rows => Ahead'.writes = Ahead.writes
  BY DEF Ahead
<1>3. UNCHANGED worker => Ahead'.working = Ahead.working /\ Ahead'.leaving = Ahead.leaving
  BY DEF Ahead
<1>4. UNCHANGED result => Ahead'.answers = Ahead.answers
  BY DEF Ahead
<1> QED BY <1>1, <1>2, <1>3, <1>4

\* Committing roots at the current write, the worker keeping or having committed them all,
\* takes writes away and gives no root back.
LEMMA CommitParts ==
    ASSUME TypeOK, NEW w \in Workers, NEW S \in SUBSET held[w],
           rows' = [rows EXCEPT ![Writes[step[w]]] = @ \cup S],
           \/ held' = held
           \/ /\ held' = [held EXCEPT ![w] = {}] /\ S = held[w] /\ Writes[step[w]] = "groups"
    PROVE  Ahead'.roots \subseteq Ahead.roots /\ Ahead'.writes \subseteq Ahead.writes
<1>1. \A t \in Tables : rows[t] \subseteq rows'[t]
  BY DEF TypeOK
<1>2. "groups" \in Tables
  BY WritesFacts
<1>3. ASSUME NEW r \in Roots, Taken(r) PROVE r \in rows'["groups"] \/ \E v \in Workers : r \in held'[v]
  <2>1. CASE r \in rows["groups"]
    BY <1>1, <1>2, <2>1
  <2>2. CASE \E v \in Workers : r \in held[v]
    <3>1. PICK v \in Workers : r \in held[v]
      BY <2>2
    <3>2. CASE held' = held
      BY <3>1, <3>2
    <3>3. CASE held' = [held EXCEPT ![w] = {}] /\ S = held[w] /\ Writes[step[w]] = "groups"
      <4>1. v # w => held'[v] = held[v]
        BY <3>3 DEF TypeOK
      <4>2. rows'["groups"] = rows["groups"] \cup held[w]
        BY <1>2, <3>3 DEF TypeOK
      <4> QED BY <3>1, <4>1, <4>2
    <3> QED BY <3>2, <3>3
  <2> QED BY <1>3, <2>1, <2>2 DEF Taken
<1>4. Ahead'.roots = {r \in Roots : ~(r \in rows'["groups"] \/ \E v \in Workers : r \in held'[v])}
  BY DEF Ahead, Taken
<1>5. Ahead.roots = {r \in Roots : ~Taken(r)}
  BY DEF Ahead
<1>6. /\ Ahead'.writes = {p \in Roots \X Tables : p[1] \notin rows'[p[2]]}
      /\ Ahead.writes = {p \in Roots \X Tables : p[1] \notin rows[p[2]]}
  BY DEF Ahead
<1>7. Ahead'.roots \subseteq Ahead.roots
  BY <1>3, <1>4, <1>5
<1>8. Ahead'.writes \subseteq Ahead.writes
  BY <1>1, <1>6
<1> QED BY <1>7, <1>8

\* A worker that moves on makes the sets of workers no larger.
LEMMA LeaverParts ==
    ASSUME TypeOK, NEW w \in Workers, NEW s, worker' = [worker EXCEPT ![w] = s],
           worker[w] \notin {"exited", "failed"},
           s \in {"recv", "work"} => worker[w] \in {"recv", "work"}
    PROVE  /\ Ahead'.working \subseteq Ahead.working /\ Ahead'.leaving \subseteq Ahead.leaving
           /\ s \notin {"recv", "work"} => w \notin Ahead'.working
           /\ s \in {"exited", "failed"} => w \notin Ahead'.leaving
           /\ worker[w] \in {"recv", "work"} => w \in Ahead.working
           /\ w \in Ahead.leaving
<1>1. worker'[w] = s /\ \A v \in Workers : v # w => worker'[v] = worker[v]
  BY DEF TypeOK
<1>2. /\ Ahead'.working = {v \in Workers : worker'[v] \in {"recv", "work"}}
      /\ Ahead.working = {v \in Workers : worker[v] \in {"recv", "work"}}
      /\ Ahead'.leaving = {v \in Workers : worker'[v] \notin {"exited", "failed"}}
      /\ Ahead.leaving = {v \in Workers : worker[v] \notin {"exited", "failed"}}
  BY DEF Ahead
<1> QED BY <1>1, <1>2

\* Each step of RunPassA leaves less ahead: a step of the feeder, a batch taken, a write,
\* an error, a report, an exit or the answer is never undone.
LEMMA StepCounts ==
    ASSUME TypeOK, FeederInv, WorkerInv, EachRootOnce, BatchesFull, Next
    PROVE  LessAhead \/ UNCHANGED vars
<1>1. CASE Feeder
  <2>1. UNCHANGED <<rows, held, worker, result>>
    BY <1>1 DEF Feeder, GetPage, PageFails, EmitFull, NextPage, EmitRest, EndClass, CloseBatches, workerVars
  <2>2. FeederAhead \in Nat /\ FeederAhead' \in Nat /\ FeederAhead' < FeederAhead
    BY <1>1, FeederAdvances, FeederAheadNat
  <2>3. Ahead.steps = 1 .. FeederAhead /\ Ahead'.steps = 1 .. FeederAhead'
    BY DEF Ahead
  <2> HIDE DEF FeederAhead
  <2>4. Ahead'.steps \subseteq Ahead.steps
    BY <2>2, <2>3
  <2>5. FeederAhead \in Ahead.steps /\ FeederAhead \notin Ahead'.steps
    BY <2>2, <2>3
  <2> QED BY <2>1, <2>4, <2>5, LessWhen, WorkerParts
<1>2. ASSUME NEW w \in Workers, Receive(w) PROVE LessAhead
  <2>1. /\ worker[w] = "recv" /\ batches # <<>> /\ worker' = [worker EXCEPT ![w] = "work"]
        /\ held' = [held EXCEPT ![w] = Head(batches)]
        /\ UNCHANGED <<feed, class, afterID, sent, rows, result>>
    BY <1>2 DEF Receive, feederVars
  <2>2. Head(batches) = batches[1] /\ 1 \in 1 .. Len(batches) /\ batches[1] \in SUBSET Roots
    BY <2>1, TailShifts DEF TypeOK
  <2>3. PICK r \in Roots : r \in batches[1]
    BY <2>2 DEF BatchesFull
  <2>4. ~Taken(r)
    <3>1. r \notin rows["groups"]
      BY <2>2, <2>3, WritesFacts DEF EachRootOnce
    <3>2. \A v \in Workers : r \notin held[v]
      BY <2>2, <2>3 DEF EachRootOnce
    <3> QED BY <3>1, <3>2 DEF Taken
  <2>5. held[w] = {} /\ held'[w] = batches[1] /\ \A v \in Workers : v # w => held'[v] = held[v]
    BY <2>1, <2>2 DEF TypeOK, WorkerInv
  <2>6. Ahead'.roots = {q \in Roots : ~(q \in rows'["groups"] \/ \E v \in Workers : q \in held'[v])}
    BY DEF Ahead, Taken
  <2>7. Ahead.roots = {q \in Roots : ~(q \in rows["groups"] \/ \E v \in Workers : q \in held[v])}
    BY DEF Ahead, Taken
  <2>8. Ahead'.roots \subseteq Ahead.roots
    BY <2>1, <2>5, <2>6, <2>7
  <2>9. r \in Ahead.roots /\ r \notin Ahead'.roots
    BY <2>3, <2>4, <2>5, <2>6, <2>7 DEF Taken
  <2>10. Ahead'.working \subseteq Ahead.working /\ Ahead'.leaving \subseteq Ahead.leaving
    BY <2>1, LeaverParts
  <2> QED BY <2>1, <2>8, <2>9, <2>10, LessWhen, WorkerParts, FeederParts
<1>3. ASSUME NEW w \in Workers, Drained(w) PROVE LessAhead
  <2>1. /\ worker[w] = "recv" /\ worker' = [worker EXCEPT ![w] = "exited"]
        /\ UNCHANGED <<feed, class, afterID, sent, held, rows, result>>
    BY <1>3 DEF Drained, feederVars
  <2>2. "exited" \notin {"recv", "work"} /\ worker[w] \in {"recv", "work"} /\ worker[w] \notin {"exited", "failed"}
    BY <2>1
  <2>3. /\ Ahead'.working \subseteq Ahead.working /\ Ahead'.leaving \subseteq Ahead.leaving
        /\ w \in Ahead.working /\ w \notin Ahead'.working
    BY <2>1, <2>2, LeaverParts
  <2> QED BY <2>1, <2>3, LessWhen, WorkerParts, FeederParts
<1>4. ASSUME NEW w \in Workers, Persist(w) PROVE LessAhead
  <2>1. /\ worker[w] = "work" /\ rows' = [rows EXCEPT ![Writes[step[w]]] = @ \cup held[w]]
        /\ UNCHANGED <<feed, class, afterID, sent, result>>
    BY <1>4 DEF Persist, feederVars
  <2>2. /\ step[w] \in 1 .. LastWrite /\ Writes[step[w]] \in Tables /\ held[w] \subseteq Roots
        /\ step[w] \in step[w] .. LastWrite /\ LastWrite = 7
    BY WritesFacts DEF TypeOK
  <2>3. \/ held' = held /\ worker' = worker
        \/ /\ held' = [held EXCEPT ![w] = {}] /\ worker' = [worker EXCEPT ![w] = "recv"]
           /\ Writes[step[w]] = "groups"
    BY <1>4, <2>2, WritesFacts DEF Persist
  <2>4. Ahead'.roots \subseteq Ahead.roots /\ Ahead'.writes \subseteq Ahead.writes
    BY <2>1, <2>3, CommitParts
  <2>5. PICK r \in held[w] : r \notin rows[Writes[step[w]]]
    BY <2>1, <2>2 DEF BatchesFull
  <2>6. r \in rows'[Writes[step[w]]]
    BY <2>1, <2>2 DEF TypeOK
  <2>7. <<r, Writes[step[w]]>> \in Ahead.writes /\ <<r, Writes[step[w]]>> \notin Ahead'.writes
    BY <2>2, <2>5, <2>6 DEF Ahead
  <2>8. Ahead'.working \subseteq Ahead.working /\ Ahead'.leaving \subseteq Ahead.leaving
    BY <2>1, <2>3, LeaverParts, WorkerParts
  <2> QED BY <2>1, <2>4, <2>7, <2>8, LessWhen, WorkerParts, FeederParts
<1>5. ASSUME NEW w \in Workers, Fail(w) PROVE LessAhead
  <2>1. /\ worker[w] = "work" /\ worker' = [worker EXCEPT ![w] = "reporting"]
        /\ UNCHANGED <<feed, class, afterID, sent, held, result>>
    BY <1>5 DEF Fail, feederVars
  <2>2. PICK S \in SUBSET held[w] : rows' = [rows EXCEPT ![Writes[step[w]]] = @ \cup S]
    BY <1>5 DEF Fail
  <2>3. Ahead'.roots \subseteq Ahead.roots /\ Ahead'.writes \subseteq Ahead.writes
    BY <2>1, <2>2, CommitParts
  <2>4. "reporting" \notin {"recv", "work"} /\ worker[w] \in {"recv", "work"} /\ worker[w] \notin {"exited", "failed"}
    BY <2>1
  <2>5. /\ Ahead'.working \subseteq Ahead.working /\ Ahead'.leaving \subseteq Ahead.leaving
        /\ w \in Ahead.working /\ w \notin Ahead'.working
    BY <2>1, <2>4, LeaverParts
  <2> QED BY <2>1, <2>3, <2>5, LessWhen, WorkerParts, FeederParts
<1>6. ASSUME NEW w \in Workers, ReportError(w) PROVE LessAhead
  <2>1. /\ worker[w] = "reporting" /\ worker' = [worker EXCEPT ![w] = "failed"]
        /\ UNCHANGED <<feed, class, afterID, sent, held, rows, result>>
    BY <1>6 DEF ReportError, feederVars
  <2>2. /\ Ahead'.working \subseteq Ahead.working /\ Ahead'.leaving \subseteq Ahead.leaving
        /\ w \in Ahead.leaving /\ w \notin Ahead'.leaving
    BY <2>1, LeaverParts
  <2> QED BY <2>1, <2>2, LessWhen, WorkerParts, FeederParts
<1>7. CASE Return
  <2>1. /\ result = "running" /\ result' # "running"
        /\ UNCHANGED <<feed, class, afterID, sent, held, rows, worker>>
    BY <1>7 DEF Return, feederVars, workerVars
  <2>2. Ahead'.answers \subseteq Ahead.answers /\ "answer" \in Ahead.answers /\ "answer" \notin Ahead'.answers
    BY <2>1 DEF Ahead
  <2> QED BY <2>1, <2>2, LessWhen, WorkerParts, FeederParts
<1> QED BY <1>1, <1>2, <1>3, <1>4, <1>5, <1>6, <1>7 DEF Next, Worker, Returned

\* RunPassA never undoes or repeats work: every step of the feeder, of a worker and of
\* RunPassA itself leaves strictly less ahead, whatever fails.
THEOREM EveryStepCounts == Spec => [][LessAhead]_vars
<1>1. /\ TypeOK /\ FeederInv /\ WorkerInv /\ EachRootOnce /\ BatchesFull /\ [Next]_vars
      => [LessAhead]_vars
  BY StepCounts
<1> QED BY <1>1, TypeCorrect, FeederCorrect, WorkersCorrect, RootsOnce, BatchesAlwaysFull, PTL DEF Spec

\* What is ahead is finite at every moment, so a run of the goroutines has finitely many steps.
THEOREM AheadIsFinite == Spec => [](\A k \in DOMAIN Ahead : IsFiniteSet(Ahead[k]))
<1>1. IsFiniteSet(Roots)
  <2>1. \A c \in Classes : IsFiniteSet(Ids(c, 1, Count(c)))
    <3> SUFFICES ASSUME NEW c \in Classes PROVE IsFiniteSet(Ids(c, 1, Count(c)))
      OBVIOUS
    <3>1. 1 \in Int /\ Count(c) \in Int
      BY CountNat
    <3>2. IsFiniteSet(1 .. Count(c))
      BY <3>1, FS_Interval
    <3>3. IsFiniteSet({c})
      BY FS_Singleton
    <3> QED BY <3>2, <3>3, FS_Product DEF Ids
  <2>2. Roots = Ids("Substation", 1, Count("Substation")) \cup Ids("Building", 1, Count("Building"))
    BY DEF Roots, Classes
  <2> QED BY <2>1, <2>2, FS_Union DEF Classes
<1>2. IsFiniteSet(Tables)
  <2>1. /\ IsFiniteSet({"sink", "flags"}) /\ IsFiniteSet({"containers", "equipment"})
        /\ IsFiniteSet({"nodes", "edges"}) /\ IsFiniteSet({"groups"})
    <3>1. ASSUME NEW a, NEW b PROVE IsFiniteSet({a}) /\ IsFiniteSet({a, b})
      <4>1. IsFiniteSet({a}) /\ {a} \cup {b} = {a, b}
        BY FS_Singleton
      <4> QED BY <4>1, FS_AddElement
    <3> QED BY <3>1, Zenon
  <2>2. Tables = {"sink", "flags"} \cup {"containers", "equipment"} \cup {"nodes", "edges"} \cup {"groups"}
    BY WritesFacts
  <2> QED BY <2>1, <2>2, FS_Union
<1>3. IsFiniteSet(Roots \X Tables) /\ IsFiniteSet({"answer"})
  BY <1>1, <1>2, FS_Product, FS_Singleton
<1>4. TypeOK => \A k \in DOMAIN Ahead : IsFiniteSet(Ahead[k])
  <2> SUFFICES ASSUME TypeOK PROVE \A k \in DOMAIN Ahead : IsFiniteSet(Ahead[k])
    OBVIOUS
  <2>1. DOMAIN Ahead = {"steps", "roots", "writes", "working", "leaving", "answers"}
    BY DEF Ahead
  <2>2. IsFiniteSet(Ahead["steps"])
    <3>1. Ahead["steps"] = 1 .. FeederAhead
      BY DEF Ahead
    <3>2. IsFiniteSet(1 .. FeederAhead)
      BY FeederAheadNat, FS_Interval
    <3> QED BY <3>1, <3>2
  <2>3. /\ Ahead["roots"] \subseteq Roots /\ Ahead["writes"] \subseteq Roots \X Tables
        /\ Ahead["working"] \subseteq Workers /\ Ahead["leaving"] \subseteq Workers
        /\ Ahead["answers"] \subseteq {"answer"}
    BY DEF Ahead
  <2>4. /\ IsFiniteSet(Ahead["roots"]) /\ IsFiniteSet(Ahead["writes"])
        /\ IsFiniteSet(Ahead["working"]) /\ IsFiniteSet(Ahead["leaving"])
        /\ IsFiniteSet(Ahead["answers"])
    BY <1>1, <1>3, <2>3, FS_Subset, PoolAssumption
  <2> QED BY <2>1, <2>2, <2>4
<1> QED BY <1>4, TypeCorrect, PTL

\* Nobody waits on everybody: unless RunPassA has ended, the feeder, a worker or RunPassA
\* itself is not kept from its next step, however full the channel is and whoever failed.
THEOREM SomebodyCanAlwaysGo == Spec => []SomebodyCanGo
<1>1. TypeOK /\ WorkerInv => SomebodyCanGo
  <2> SUFFICES ASSUME TypeOK, WorkerInv, ~Ended, ~FeederCanGo, \A w \in Workers : ~WorkerCanGo(w)
               PROVE  result = "running" /\ \A w \in Workers : worker[w] \in {"exited", "failed"}
    BY DEF SomebodyCanGo
  <2>1. Cardinality(Workers) \in Nat \ {0} /\ BatchesCap \in Nat \ {0}
    BY PoolAssumption, FS_CardinalityType, FS_EmptySet DEF BatchesCap
  <2>2. ASSUME NEW w \in Workers PROVE worker[w] # "reporting"
    <3>1. SUFFICES ASSUME worker[w] = "reporting" PROVE FALSE
      OBVIOUS
    <3>2. w \notin workErrCh /\ workErrCh \subseteq Workers
      BY <3>1 DEF WorkerInv, TypeOK
    <3>3. Cardinality(workErrCh) < Cardinality(Workers)
      <4>1. Cardinality(workErrCh) <= Cardinality(Workers)
            /\ (Cardinality(workErrCh) = Cardinality(Workers) => workErrCh = Workers)
            /\ Cardinality(workErrCh) \in Nat
        BY <3>2, FS_Subset, FS_CardinalityType, PoolAssumption
      <4> QED BY <2>1, <3>2, <4>1
    <3> QED BY <3>1, <3>3 DEF WorkerCanGo, WorkErrCap
  <2>3. ASSUME NEW w \in Workers PROVE worker[w] # "recv"
    <3>1. SUFFICES ASSUME worker[w] = "recv" PROVE FALSE
      OBVIOUS
    <3>2. batches = <<>> /\ feed # "done"
      BY <3>1 DEF WorkerCanGo
    <3>3. Len(batches) < BatchesCap
      BY <2>1, <3>2
    <3> QED BY <3>2, <3>3 DEF FeederCanGo, TypeOK
  <2>4. \A w \in Workers : worker[w] \in {"exited", "failed"}
    <3>1. \A w \in Workers : worker[w] # "work"
      BY DEF WorkerCanGo
    <3> QED BY <2>2, <2>3, <3>1 DEF TypeOK
  <2>5. result = "running"
    <3>1. SUFFICES ASSUME result # "running" PROVE FALSE
      OBVIOUS
    <3>2. feed # "done" /\ \E w \in Workers : worker[w] \notin {"reporting", "failed"}
      BY <3>1 DEF Ended
    <3> QED BY <2>4, <3>2 DEF WorkerInv
  <2> QED BY <2>4, <2>5
<1> QED BY <1>1, TypeCorrect, WorkersCorrect, PTL
=============================================================================
