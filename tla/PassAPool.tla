----------------------------- MODULE PassAPool -----------------------------
(***************************************************************************)
(* RunPassA: a feeder goroutine pages the Substation and then the Building *)
(* root IDs out of the staging store, groups them into batches and sends   *)
(* the batches down a buffered channel; a fixed pool of workers takes one  *)
(* batch at a time, runs ProcessStationBatch on it and hands the result to *)
(* onBatchResult (pkg/impl/hjsonimport), which persists it table by table. *)
(* Every write is a transaction of its own and may fail, so the order of   *)
(* the writes, the pages, the channel and the errors all interleave.       *)
(*                                                                         *)
(* A root is its class and its position in the cursor order of GetByClass. *)
(* What ProcessStationBatch computes for a root is abstracted to "its rows *)
(* of table t"; other modules of the project model the computation.        *)
(***************************************************************************)
EXTENDS Integers, Sequences, FiniteSets

CONSTANTS Workers,          \* the goroutines of the pool
          NumSubstations,   \* distinct Substation IDs in the staging store
          NumBuildings,     \* distinct Building IDs in the staging store
          ChunkSize,        \* IDs per page, after RunPassA's defaulting
          BatchSize         \* roots per batch, after RunPassA's defaulting

ASSUME PoolAssumption == /\ IsFiniteSet(Workers) /\ Workers # {}
                         /\ NumSubstations \in Nat /\ NumBuildings \in Nat
                         /\ ChunkSize \in Nat \ {0} /\ BatchSize \in Nat \ {0}

Classes == {"Substation", "Building"}
Count(c) == IF c = "Substation" THEN NumSubstations ELSE NumBuildings
Ids(c, lo, hi) == {c} \X (lo .. hi)
Roots == UNION {Ids(c, 1, Count(c)) : c \in Classes}

\* Capacities of the two channels the workers share with other goroutines.
BatchesCap == 2 * Cardinality(Workers)
OneErrorSlot == 1
WorkErrCap == Cardinality(Workers)

\* The writes made for one batch, in the order of ProcessStationBatch (attributes
\* and geometry through the sink, then the flags) and then of onBatchResult.
EdgesBeforeNodes == <<"sink", "flags", "containers", "equipment",
                      "edges", "nodes", "groups">>
Writes == <<"sink", "flags", "containers", "equipment",
            "nodes", "edges", "groups">>
Tables == {Writes[k] : k \in 1 .. Len(Writes)}
LastWrite == Len(Writes)

VARIABLES feed,       \* where the feeder is
          class,      \* the class feedRootBatches is paging
          afterID,    \* the cursor: IDs of the class read so far
          lastPage,   \* the page just read was shorter than ChunkSize
          sent,       \* IDs of the class emitted so far; pending is sent+1 .. afterID
          batches,    \* the buffered channel of root batches
          feedErrCh,  \* a paging error waits in feedErrCh
          worker,     \* where each worker is
          held,       \* the batch a worker is processing, or failed on
          step,       \* the write a worker makes next
          workErrCh,  \* workers whose error is in workErrCh
          rows,       \* rows[t]: the roots all of whose rows of table t are committed
          result      \* what RunPassA returned, or "running"

feederVars == <<feed, class, afterID, lastPage, sent, feedErrCh>>
workerVars == <<worker, held, step, workErrCh, rows>>
vars == <<feed, class, afterID, lastPage, sent, feedErrCh, batches,
          worker, held, step, workErrCh, rows, result>>

Init == /\ feed = "page" /\ class = "Substation"
        /\ afterID = 0 /\ lastPage = FALSE /\ sent = 0 /\ feedErrCh = FALSE
        /\ batches = <<>>
        /\ worker = [w \in Workers |-> "recv"]
        /\ held = [w \in Workers |-> {}]
        /\ step = [w \in Workers |-> 1]
        /\ workErrCh = {}
        /\ rows = [t \in Tables |-> {}]
        /\ result = "running"

-----------------------------------------------------------------------------
(* The feeder goroutine: feedRootBatches for each class, then close.       *)

\* GetByClass returns the next page; an empty page ends the class at once.
GetPage == /\ feed = "page"
           /\ LET left == Count(class) - afterID
                  n == IF left < ChunkSize THEN left ELSE ChunkSize
              IN /\ feed' = IF n = 0 THEN "flush" ELSE "emit"
                 /\ afterID' = afterID + n
                 /\ lastPage' = (n < ChunkSize)
           /\ UNCHANGED <<class, sent, feedErrCh, batches, workerVars, result>>

\* GetByClass fails: the error goes to feedErrCh (capacity 1, used once).
PageFails == /\ feed = "page"
             /\ feedErrCh' = TRUE
             /\ feed' = "close"
             /\ UNCHANGED <<class, afterID, lastPage, sent, batches, workerVars, result>>

\* One send of pending[:n] to the channel, which blocks while the channel is full.
ResendsLast(n) == /\ Len(batches) < BatchesCap
                  /\ batches' = Append(batches, Ids(class, sent + 1, sent + n))
                  /\ sent' = sent + (IF n > 1 THEN n - 1 ELSE n)
FromZero(n) == /\ Len(batches) < BatchesCap
               /\ batches' = Append(batches, Ids(class, sent, sent + n - 1))
               /\ sent' = sent + n
Emit(n) == /\ Len(batches) < BatchesCap
           /\ batches' = Append(batches, Ids(class, sent + 1, sent + n))
           /\ sent' = sent + n

EmitFull == /\ feed = "emit"
            /\ afterID - sent >= BatchSize
            /\ Emit(BatchSize)
            /\ UNCHANGED <<feed, class, afterID, lastPage, feedErrCh, workerVars, result>>

\* Fewer than BatchSize IDs are pending: they wait for the next page, if any.
NextPage == /\ feed = "emit"
            /\ afterID - sent < BatchSize
            /\ feed' = IF lastPage THEN "flush" ELSE "page"
            /\ UNCHANGED <<class, afterID, lastPage, sent, feedErrCh, batches, workerVars, result>>

EmitRest == /\ feed = "flush"
            /\ afterID > sent
            /\ Emit(afterID - sent)
            /\ UNCHANGED <<feed, class, afterID, lastPage, feedErrCh, workerVars, result>>

EndClass == /\ feed = "flush"
            /\ afterID = sent
            /\ IF class = "Substation"
               THEN class' = "Building" /\ afterID' = 0 /\ sent' = 0 /\ feed' = "page"
               ELSE feed' = "close" /\ UNCHANGED <<class, afterID, sent>>
            /\ UNCHANGED <<lastPage, feedErrCh, batches, workerVars, result>>

\* The deferred close(batches).
CloseBatches == /\ feed = "close"
                /\ feed' = "done"
                /\ UNCHANGED <<class, afterID, lastPage, sent, feedErrCh, batches, workerVars, result>>

Feeder == GetPage \/ PageFails \/ EmitFull \/ NextPage \/ EmitRest \/ EndClass \/ CloseBatches

-----------------------------------------------------------------------------
(* A worker goroutine.                                                      *)

StopsOnFirstError(w) == /\ worker[w] = "recv"
                        /\ batches # <<>> /\ workErrCh = {}
                        /\ held' = [held EXCEPT ![w] = Head(batches)]
                        /\ batches' = Tail(batches)
                        /\ step' = [step EXCEPT ![w] = 1]
                        /\ worker' = [worker EXCEPT ![w] = "work"]
                        /\ UNCHANGED <<feederVars, workErrCh, rows, result>>
Receive(w) == /\ worker[w] = "recv"
              /\ batches # <<>>
              /\ held' = [held EXCEPT ![w] = Head(batches)]
              /\ batches' = Tail(batches)
              /\ step' = [step EXCEPT ![w] = 1]
              /\ worker' = [worker EXCEPT ![w] = "work"]
              /\ UNCHANGED <<feederVars, workErrCh, rows, result>>

\* `for rb := range batches` ends once the channel is closed and empty.
Drained(w) == /\ worker[w] = "recv"
              /\ batches = <<>> /\ feed = "done"
              /\ worker' = [worker EXCEPT ![w] = "exited"]
              /\ UNCHANGED <<feederVars, batches, held, step, workErrCh, rows, result>>

\* The next write commits; after the last one the worker asks for another batch.
Persist(w) == /\ worker[w] = "work"
              /\ rows' = [rows EXCEPT ![Writes[step[w]]] = @ \cup held[w]]
              /\ IF step[w] < LastWrite
                 THEN step' = [step EXCEPT ![w] = @ + 1] /\ UNCHANGED <<worker, held>>
                 ELSE /\ worker' = [worker EXCEPT ![w] = "recv"]
                      /\ held' = [held EXCEPT ![w] = {}]
                      /\ UNCHANGED step
              /\ UNCHANGED <<feederVars, batches, workErrCh, result>>

\* A read or the next write fails. A write is cut into several transactions
\* (persistChunkSize rows each), so some of the batch may have been committed.
Fail(w) == /\ worker[w] = "work"
           /\ \E S \in SUBSET held[w] :
                 rows' = [rows EXCEPT ![Writes[step[w]]] = @ \cup S]
           /\ worker' = [worker EXCEPT ![w] = "reporting"]
           /\ UNCHANGED <<feederVars, batches, held, step, workErrCh, result>>

\* workErrCh <- err, then the goroutine returns; the others are not told.
ReportError(w) == /\ worker[w] = "reporting"
                  /\ Cardinality(workErrCh) < WorkErrCap
                  /\ workErrCh' = workErrCh \cup {w}
                  /\ worker' = [worker EXCEPT ![w] = "failed"]
                  /\ UNCHANGED <<feederVars, batches, held, step, rows, result>>

Worker(w) == Receive(w) \/ Drained(w) \/ Persist(w) \/ Fail(w) \/ ReportError(w)

-----------------------------------------------------------------------------
(* RunPassA itself: wg.Wait, then the first error found, if any.            *)

IgnoresFeedErr == /\ result = "running"
                  /\ \A w \in Workers : worker[w] \in {"exited", "failed"}
                  /\ result' = IF workErrCh # {} THEN "error" ELSE "ok"
                  /\ UNCHANGED <<feederVars, batches, workerVars>>
Return == /\ result = "running"
          /\ \A w \in Workers : worker[w] \in {"exited", "failed"}
          /\ result' = IF feedErrCh \/ workErrCh # {} THEN "error" ELSE "ok"
          /\ UNCHANGED <<feederVars, batches, workerVars>>

\* The caller has its answer and nothing more is required of the goroutines.
Returned == result # "running" /\ UNCHANGED vars

Next == Feeder \/ (\E w \in Workers : Worker(w)) \/ Return \/ Returned

\* Every goroutine keeps running, and every database call answers, with a result
\* or with an error.
Fairness == /\ WF_vars(Feeder) /\ WF_vars(Return)
            /\ \A w \in Workers : WF_vars(Worker(w))

Spec == Init /\ [][Next]_vars /\ Fairness

-----------------------------------------------------------------------------
(* Properties.                                                              *)

\* Every variable holds a value of its kind; a batch holds known roots only.
TypeOK == /\ feed \in {"page", "emit", "flush", "close", "done"}
          /\ class \in Classes
          /\ afterID \in Nat /\ sent \in Nat
          /\ sent <= afterID /\ afterID <= Count(class)
          /\ lastPage \in BOOLEAN /\ feedErrCh \in BOOLEAN
          /\ batches \in Seq(SUBSET Roots)
          /\ worker \in [Workers -> {"recv", "work", "reporting", "failed", "exited"}]
          /\ held \in [Workers -> SUBSET Roots]
          /\ step \in [Workers -> 1 .. LastWrite]
          /\ workErrCh \in SUBSET Workers
          /\ rows \in [Tables -> SUBSET Roots]
          /\ result \in {"running", "ok", "error"}

\* No root is ever handed to two workers or handed out twice: the batches in
\* the channel, the batches being processed and the roots already persisted
\* never overlap, whatever the pages, the batch size and the failures
\* (feedRootBatches slices one pending list; RunPassA's workers share it).
EachRootOnce ==
    /\ \A i, j \in 1 .. Len(batches) : i # j => batches[i] \cap batches[j] = {}
    /\ \A w, v \in Workers : w # v => held[w] \cap held[v] = {}
    /\ \A i \in 1 .. Len(batches) :
          /\ \A w \in Workers : batches[i] \cap held[w] = {}
          /\ \A t \in Tables : batches[i] \cap rows[t] = {}

\* Whatever fails and wherever, a root with rows of a later table has all its
\* rows of the earlier ones: no edge is left without its nodes and no equipment
\* without its container row (the order of onBatchResult's upserts).
RowsInOrder ==
    /\ rows["edges"] \subseteq rows["nodes"]
    /\ rows["nodes"] \subseteq rows["equipment"]
    /\ rows["equipment"] \subseteq rows["containers"]
    /\ rows["groups"] \subseteq rows["edges"]
    /\ rows["containers"] \subseteq rows["flags"]

Faulted == feedErrCh \/ \E w \in Workers : worker[w] \in {"reporting", "failed"}

\* RunPassA implements its abstract promise: nil means every root is persisted
\* and nothing failed, an error means something failed, and no goroutine writes
\* after the return.
Import == INSTANCE StationImport
             WITH persisted <- rows["groups"], faulted <- Faulted
ImplementsImport == Import!Spec

\* RunPassA returns, also when workers fail while the feeder is blocked on a full
\* channel and when every worker fails; and the feeder goroutine ends unless every
\* worker has failed: a surviving worker drains the channel to its end even after
\* another one reported an error.
PoolEnds == <>(/\ result # "running"
               /\ feed = "done" \/ \A w \in Workers : worker[w] \in {"reporting", "failed"})
=============================================================================
