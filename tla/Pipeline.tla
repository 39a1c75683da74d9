------------------------------ MODULE Pipeline ------------------------------
(***************************************************************************)
(* internal/pipeline between the export handlers of internal/receiver and  *)
(* the store, together with the shutdown of both.                          *)
(*                                                                         *)
(* Each exporter stands for one export request handled by a goroutine of   *)
(* the receiver: it offers its items one by one to a bounded queue and     *)
(* never waits.  A single goroutine, Pipeline.Run, moves items from the    *)
(* queues into batches and the batches into the store.  Shutdown cancels   *)
(* one context; the receiver and the pipeline react to it independently.   *)
(***************************************************************************)
EXTENDS Naturals, Sequences, FiniteSets

CONSTANTS
  Item,           \* spans and metrics
  Exporter,
  Payload,        \* [Exporter -> Seq(Item)]: what an export carries
  LaneOf,         \* [Exporter -> Lane]
  TransportOf,    \* [Exporter -> {"grpc", "http"}]
  QueueSize,      \* [Lane -> Nat]: the capacities of queue and metricQueue
  BatchSize,      \* pipeline.batch_size
  RateLimit,      \* pipeline.max_spans_per_second; 0 disables the limiter
  MaxTries,       \* bound on how often an exporter sends its payload
  CanStop         \* whether the process is asked to shut down

Lane == {"span", "metric"}

ASSUME PayloadAssumption == Payload \in [Exporter -> Seq(Item)]
ASSUME LaneAssumption == LaneOf \in [Exporter -> Lane]
ASSUME TransportAssumption == TransportOf \in [Exporter -> {"grpc", "http"}]
(* Config.Validate demands a positive batch size and a queue that can hold *)
(* one; the metric queue is never smaller than a thousand.                 *)
ASSUME SizesAssumption ==
  /\ QueueSize \in [Lane -> Nat \ {0}]
  /\ BatchSize \in Nat \ {0}
  /\ RateLimit \in Nat
ASSUME BoundsAssumption == MaxTries \in Nat /\ CanStop \in BOOLEAN

VARIABLES
  handler,        \* [Exporter -> HandlerState]: the export's goroutine
  queue,          \* [Lane -> Seq(Item)]: the channels
  batch,          \* [Lane -> Seq(Item)]: local to Run
  tokens,         \* the rate limiter's whole tokens
  runner,         \* where Run stands
  stats,          \* the counters Stats reports
  stopping,       \* the context given to every component is cancelled
  rcv,            \* where Receiver.Run stands
  fate            \* history: what became of the items, by outcome

vars == <<handler, queue, batch, tokens, runner, stats, stopping, rcv, fate>>

(* gone: the request's own context is cancelled.                           *)
HandlerState ==
  [pc : {"ready", "offer", "count", "replied", "refused"},
   pos : Nat, gone : BOOLEAN, tries : Nat]

(* todo: the lanes still to be drained or written, spans before metrics;   *)
(* last: Run returns afterwards.                                           *)
RunnerState ==
  [pc : {"run", "drain", "write", "stopped"},
   todo : SUBSET Lane,
   last : BOOLEAN]

(* shed: dropped and counted; lost: in a batch whose write failed; acked:  *)
(* part of an export that was answered with success; held: queued or       *)
(* batched at the moment of shutdown.                                      *)
Outcome == {"shed", "stored", "lost", "acked", "held"}

(* The counters of both Stats; requests, batches and times are left out. *)
Counter == {"spansAccepted", "spansRejected", "queued", "droppedRate",
            "droppedQueue", "written", "metricsAccepted", "metricsDropped",
            "metricsWritten", "writeErrors"}

Accepted == [span |-> "spansAccepted", metric |-> "metricsAccepted"]
Dropped == [span |-> "droppedQueue", metric |-> "metricsDropped"]
Written == [span |-> "written", metric |-> "metricsWritten"]

Bump(c, n) == stats' = [stats EXCEPT ![c] = @ + n]

Items(s) == {s[i] : i \in DOMAIN s}

Note(outcome, items) == fate' = [fate EXCEPT ![outcome] = @ \cup items]

Current(e) == Payload[e][handler[e].pos]

Init ==
  /\ handler = [e \in Exporter |->
                  [pc |-> "ready", pos |-> 1, gone |-> FALSE, tries |-> 0]]
  /\ queue = [l \in Lane |-> <<>>]
  /\ batch = [l \in Lane |-> <<>>]
  /\ tokens = RateLimit
  /\ runner = [pc |-> "run", todo |-> {}, last |-> FALSE]
  /\ stats = [c \in Counter |-> 0]
  /\ stopping = FALSE
  /\ rcv = "serving"
  /\ fate = [o \in Outcome |-> {}]

(* App.Run returns once every component has; the process is then gone. *)
Exited == rcv = "stopped" /\ runner.pc = "stopped"

-----------------------------------------------------------------------------
(* Export handlers: ingest, ingestMetrics, Consume and ConsumeMetrics.     *)

(* A request arrives.  GracefulStop refuses new gRPC calls at once; the    *)
(* HTTP server goes on accepting until gRPC has stopped.                   *)
Export(e) ==
  /\ handler[e].pc = "ready"
  /\ handler[e].tries < MaxTries
  /\ Payload[e] # <<>>
  /\ rcv \in (IF TransportOf[e] = "grpc" THEN {"serving"}
                                         ELSE {"serving", "grpcStop"})
  /\ handler' = [handler EXCEPT ![e].pc = "offer", ![e].pos = 1,
                                ![e].gone = FALSE, ![e].tries = @ + 1]
  /\ Bump(Accepted[LaneOf[e]], Len(Payload[e]))
  /\ UNCHANGED <<queue, batch, tokens, runner, stopping, rcv, fate>>

(* The client hangs up, or its deadline passes, while it is being served. *)
ClientGone(e) ==
  /\ ~ Exited
  /\ handler[e].pc \in {"offer", "count"}
  /\ ~ handler[e].gone
  /\ handler' = [handler EXCEPT ![e].gone = TRUE]
  /\ UNCHANGED <<queue, batch, tokens, runner, stats, stopping, rcv, fate>>

(* Fault: the loop steps over the item that follows. *)
AdvanceSkips(e, done) ==
  IF handler[e].pos + 1 >= Len(Payload[e])
  THEN /\ handler' = [handler EXCEPT ![e].pc = "replied"]
       /\ fate' = [done EXCEPT !["acked"] = @ \cup Items(Payload[e])]
  ELSE /\ handler' = [handler EXCEPT ![e].pc = "offer", ![e].pos = @ + 2]
       /\ fate' = done

(* The loop of Consume moves on; after the last item the export is         *)
(* answered with success.                                                  *)
Advance(e, done) ==
  IF handler[e].pos = Len(Payload[e])
  THEN /\ handler' = [handler EXCEPT ![e].pc = "replied"]
       /\ fate' = [done EXCEPT !["acked"] = @ \cup Items(Payload[e])]
  ELSE /\ handler' = [handler EXCEPT ![e].pc = "offer", ![e].pos = @ + 1]
       /\ fate' = done

Offering(e) == ~ Exited /\ handler[e].pc = "offer"

Limited(e) == LaneOf[e] = "span" /\ RateLimit > 0

(* allow: one token per span, taken before anything else is looked at. *)
Admitted(e) == Offering(e) /\ (Limited(e) => tokens > 0)

TakeToken(e) == tokens' = IF Limited(e) THEN tokens - 1 ELSE tokens

RateLimited(e) ==
  /\ Offering(e)
  /\ Limited(e)
  /\ tokens = 0
  /\ Bump("droppedRate", 1)
  /\ Advance(e, [fate EXCEPT !["shed"] = @ \cup {Current(e)}])
  /\ UNCHANGED <<queue, batch, tokens, runner, stopping, rcv>>

(* The send on the channel.  Spans are counted as queued afterwards, when  *)
(* Run may already have taken them out again.                              *)
Enqueue(e) ==
  LET l == LaneOf[e]
  IN /\ Admitted(e)
     /\ Len(queue[l]) < QueueSize[l]
     /\ TakeToken(e)
     /\ queue' = [queue EXCEPT ![l] = Append(@, Current(e))]
     /\ IF l = "span"
        THEN handler' = [handler EXCEPT ![e].pc = "count"] /\ UNCHANGED fate
        ELSE Advance(e, fate)
     /\ UNCHANGED <<batch, runner, stats, stopping, rcv>>

(* Fault: the span is sent but not counted. *)
CountQueuedForgets(e) ==
  /\ ~ Exited
  /\ handler[e].pc = "count"
  /\ Advance(e, fate)
  /\ UNCHANGED <<queue, batch, tokens, runner, stats, stopping, rcv>>

CountQueued(e) ==
  /\ ~ Exited
  /\ handler[e].pc = "count"
  /\ Bump("queued", 1)
  /\ Advance(e, fate)
  /\ UNCHANGED <<queue, batch, tokens, runner, stopping, rcv>>

(* The default branch: the item is dropped rather than waited for. *)
QueueFull(e) ==
  LET l == LaneOf[e]
  IN /\ Admitted(e)
     /\ Len(queue[l]) >= QueueSize[l]
     /\ ~ handler[e].gone
     /\ TakeToken(e)
     /\ Bump(Dropped[l], 1)
     /\ Advance(e, [fate EXCEPT !["shed"] = @ \cup {Current(e)}])
     /\ UNCHANGED <<queue, batch, runner, stopping, rcv>>

(* ctx.Done, which a select may choose even when the queue has room.  The  *)
(* export is answered Unavailable, although items before this one are in   *)
(* the queue; every span of it is counted as rejected.                     *)
ContextDone(e) ==
  /\ Admitted(e)
  /\ handler[e].gone
  /\ TakeToken(e)
  /\ handler' = [handler EXCEPT ![e].pc = "refused"]
  /\ Bump("spansRejected", IF LaneOf[e] = "span" THEN Len(Payload[e]) ELSE 0)
  /\ UNCHANGED <<queue, batch, runner, stopping, rcv, fate>>

(* The SDK sends a refused payload again. *)
Retry(e) ==
  /\ handler[e].pc = "refused"
  /\ handler[e].tries < MaxTries
  /\ handler' = [handler EXCEPT ![e].pc = "ready"]
  /\ UNCHANGED <<queue, batch, tokens, runner, stats, stopping, rcv, fate>>

(* Time refills the bucket up to one second's worth. *)
Refill ==
  /\ tokens < RateLimit
  /\ tokens' = tokens + 1
  /\ UNCHANGED <<handler, queue, batch, runner, stats, stopping, rcv, fate>>

-----------------------------------------------------------------------------
(* Pipeline.Run.                                                           *)

First(lanes) == IF "span" \in lanes THEN "span" ELSE "metric"

NonEmpty(b) == {l \in Lane : b[l] # <<>>}

(* Fault: the size trigger looks at the batch before the append. *)
FillsLate(l) == Len(batch[l]) >= BatchSize

(* One more item makes the batch as large as it may get. *)
Fills(l) == Len(batch[l]) + 1 >= BatchSize

(* Receive one item; a full batch is flushed at once. *)
Receive(l) ==
  /\ runner.pc = "run"
  /\ queue[l] # <<>>
  /\ batch' = [batch EXCEPT ![l] = Append(@, Head(queue[l]))]
  /\ queue' = [queue EXCEPT ![l] = Tail(@)]
  /\ runner' = IF Fills(l)
               THEN [runner EXCEPT !.pc = "write", !.todo = {l}]
               ELSE runner
  /\ UNCHANGED <<handler, tokens, stats, stopping, rcv, fate>>

(* Fault: there is no batch timeout, only the size trigger. *)
TickIgnored == FALSE /\ UNCHANGED vars

(* The batch timeout flushes whatever there is, spans first. *)
Tick ==
  /\ runner.pc = "run"
  /\ NonEmpty(batch) # {}
  /\ runner' = [runner EXCEPT !.pc = "write", !.todo = NonEmpty(batch)]
  /\ UNCHANGED <<handler, queue, batch, tokens, stats, stopping, rcv, fate>>

(* ctx.Done: drain both queues, flush both batches, return. *)
StartDrain ==
  /\ runner.pc = "run"
  /\ stopping
  /\ runner' = [pc |-> "drain", todo |-> Lane, last |-> TRUE]
  /\ UNCHANGED <<handler, queue, batch, tokens, stats, stopping, rcv, fate>>

(* One round of drain or drainMetrics; handlers may refill the queue       *)
(* between two of them.                                                    *)
DrainItem ==
  /\ runner.pc = "drain"
  /\ LET l == First(runner.todo)
     IN /\ queue[l] # <<>>
        /\ batch' = [batch EXCEPT ![l] = Append(@, Head(queue[l]))]
        /\ queue' = [queue EXCEPT ![l] = Tail(@)]
  /\ UNCHANGED <<handler, tokens, runner, stats, stopping, rcv, fate>>

(* Fault: drainMetrics is not called. *)
AnyLane(lanes) == TRUE

LastLane(lanes) == lanes = {First(lanes)}

(* The queue is found empty: on to the next, or to the final flushes. *)
DrainEnds ==
  /\ runner.pc = "drain"
  /\ queue[First(runner.todo)] = <<>>
  /\ runner' = IF LastLane(runner.todo)
               THEN [runner EXCEPT !.pc = "write", !.todo = NonEmpty(batch)]
               ELSE [runner EXCEPT !.todo = @ \ {First(@)}]
  /\ UNCHANGED <<handler, queue, batch, tokens, stats, stopping, rcv, fate>>

(* write and writeMetrics: a failed batch is lost, not retried.  A write   *)
(* that starts after the cancellation gets a context of its own.           *)
Write ==
  /\ runner.pc = "write"
  /\ runner.todo # {}
  /\ LET l == First(runner.todo)
     IN /\ batch' = [batch EXCEPT ![l] = <<>>]
        /\ \/ Note("stored", Items(batch[l])) /\ Bump(Written[l], Len(batch[l]))
           \/ Note("lost", Items(batch[l])) /\ Bump("writeErrors", 1)
  /\ runner' = [runner EXCEPT !.todo = @ \ {First(@)}]
  /\ UNCHANGED <<handler, queue, tokens, stopping, rcv>>

(* Fault: the ctx.Done case does not return. *)
FlushedForever ==
  /\ runner.pc = "write"
  /\ runner.todo = {}
  /\ runner' = [runner EXCEPT !.pc = "run"]
  /\ UNCHANGED <<handler, queue, batch, tokens, stats, stopping, rcv, fate>>

(* Every flush is done: back to the select, or return. *)
Flushed ==
  /\ runner.pc = "write"
  /\ runner.todo = {}
  /\ runner' = [runner EXCEPT !.pc = IF runner.last THEN "stopped" ELSE "run"]
  /\ UNCHANGED <<handler, queue, batch, tokens, stats, stopping, rcv, fate>>

-----------------------------------------------------------------------------
(* Shutdown.                                                               *)

(* SIGTERM cancels the context of every component. *)
Cancel ==
  /\ CanStop
  /\ ~ stopping
  /\ stopping' = TRUE
  /\ Note("held", UNION {Items(queue[l]) \cup Items(batch[l]) : l \in Lane})
  /\ UNCHANGED <<handler, queue, batch, tokens, runner, stats, rcv>>

Serving(e) == handler[e].pc \in {"offer", "count"}

StopGRPC ==
  /\ stopping
  /\ rcv = "serving"
  /\ rcv' = "grpcStop"
  /\ UNCHANGED <<handler, queue, batch, tokens, runner, stats, stopping, fate>>

(* GracefulStop returns when its calls have, or the grace period ends and  *)
(* Stop cancels the ones still being served.                               *)
StopHTTP ==
  /\ rcv = "grpcStop"
  /\ rcv' = "httpStop"
  /\ handler' = [e \in Exporter |->
       IF TransportOf[e] = "grpc" /\ Serving(e)
       THEN [handler[e] EXCEPT !.gone = TRUE] ELSE handler[e]]
  /\ UNCHANGED <<queue, batch, tokens, runner, stats, stopping, fate>>

(* Shutdown of the HTTP server returns when its requests have, or the      *)
(* grace period ends.                                                      *)
StopReceiver ==
  /\ rcv = "httpStop"
  /\ rcv' = "stopped"
  /\ UNCHANGED <<handler, queue, batch, tokens, runner, stats, stopping, fate>>

Handle(e) ==
  \/ RateLimited(e)
  \/ Enqueue(e)
  \/ CountQueued(e)
  \/ QueueFull(e)
  \/ ContextDone(e)

Run == (\E l \in Lane : Receive(l)) \/ Tick \/ StartDrain \/ DrainItem
         \/ DrainEnds \/ Write \/ Flushed

Shutdown == StopGRPC \/ StopHTTP \/ StopReceiver

Next ==
  \/ \E e \in Exporter : Export(e) \/ ClientGone(e) \/ Handle(e) \/ Retry(e)
  \/ Refill
  \/ Run
  \/ Cancel
  \/ Shutdown

Spec == Init /\ [][Next]_vars

(* Handlers run. *)
HandlersFair == \A e \in Exporter : WF_vars(Handle(e))

(* The writer runs too: writes return, and Go's select picks among its     *)
(* ready cases at random, so none is starved.                              *)
WriterFair ==
  /\ \A l \in Lane : SF_vars(Receive(l))
  /\ SF_vars(Tick)
  /\ SF_vars(StartDrain)
  /\ WF_vars(DrainItem \/ DrainEnds \/ Write \/ Flushed)

ShutdownFair == WF_vars(Shutdown)

FairSpec == Spec /\ HandlersFair /\ WriterFair /\ ShutdownFair

-----------------------------------------------------------------------------
(* Properties.                                                             *)

TypeOK ==
  /\ handler \in [Exporter -> HandlerState]
  /\ queue \in [Lane -> Seq(Item)]
  /\ batch \in [Lane -> Seq(Item)]
  /\ tokens \in 0 .. RateLimit
  /\ runner \in RunnerState
  /\ stats \in [Counter -> Nat]
  /\ stopping \in BOOLEAN
  /\ rcv \in {"serving", "grpcStop", "httpStop", "stopped"}
  /\ fate \in [Outcome -> SUBSET Item]

Held == UNION {Items(queue[l]) \cup Items(batch[l]) : l \in Lane}

(* How many items of its payload the handler of e is done with. *)
Passed(e) == CASE handler[e].pc \in {"offer", "refused"} -> handler[e].pos - 1
               [] handler[e].pc = "count" -> handler[e].pos
               [] handler[e].pc = "replied" -> Len(Payload[e])
               [] OTHER -> 0

(* Consume, Run and write between them never lose track of an item: each   *)
(* one a handler is done with is queued, batched, stored, part of a batch  *)
(* whose write failed, or was counted as dropped.                          *)
NothingVanishes ==
  \A e \in Exporter : \A i \in 1 .. Passed(e) :
    Payload[e][i] \in
      Held \cup fate["stored"] \cup fate["lost"] \cup fate["shed"]

(* Stats reconciles.  Every span counted as queued, or just sent by a      *)
(* handler that has not counted it yet, is written, queued or batched,     *)
(* unless a write failed; and once no export is being served, what the     *)
(* receiver accepted was queued, dropped or refused with its export.       *)
CountersReconcile ==
  /\ LET sent == stats["queued"]
                 + Cardinality({e \in Exporter : handler[e].pc = "count"})
         known == stats["written"] + Len(queue["span"]) + Len(batch["span"])
     IN known <= sent /\ (stats["writeErrors"] = 0 => known = sent)
  /\ LET settled == stats["queued"] + stats["droppedQueue"]
                    + stats["droppedRate"]
     IN (\A e \in Exporter : ~ Serving(e)) =>
          /\ settled <= stats["spansAccepted"]
          /\ stats["spansAccepted"] <= settled + stats["spansRejected"]

(* Memory stays bounded however slow the store is: no queue exceeds its    *)
(* capacity, and until shutdown no batch exceeds the batch size.           *)
BoundedMemory ==
  \A l \in Lane :
    /\ Len(queue[l]) <= QueueSize[l]
    /\ ~ runner.last => Len(batch[l]) <= BatchSize
    /\ runner.pc = "run" => Len(batch[l]) < BatchSize

(* What was queued or batched when shutdown began has been handed to the   *)
(* store by the time Run returns.                                          *)
DrainedAtShutdown ==
  runner.pc = "stopped" => fate["held"] \subseteq fate["stored"] \cup fate["lost"]

(* Until shutdown, an item that was queued reaches the store, or a write   *)
(* that failed, also when nothing follows that would fill its batch.       *)
Delivered ==
  \A x \in Item :
    x \in Held ~> x \in fate["stored"] \cup fate["lost"] \/ stopping

(* Once cancelled, both components return. *)
ShutdownCompletes == stopping ~> Exited

(* receiver.go and pipeline.go: exports that are in flight at shutdown     *)
(* finish, and their data is not lost in the queue.                        *)
CleanShutdown ==
  Exited => fate["acked"] \subseteq
              fate["stored"] \cup fate["lost"] \cup fate["shed"]
=============================================================================
