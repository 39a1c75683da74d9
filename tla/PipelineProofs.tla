--------------------------- MODULE PipelineProofs ---------------------------
(***************************************************************************)
(* Theorems about Pipeline, for every set of exporters, every payload and  *)
(* every queue and batch size.                                             *)
(***************************************************************************)
EXTENDS Pipeline, FiniteSetTheorems, TLAPS

(* Appending adds the item, *)
LEMMA ItemsAppend ==
  ASSUME NEW S, NEW s \in Seq(S), NEW x \in S
  PROVE  /\ Items(Append(s, x)) = Items(s) \cup {x}
         /\ Append(s, x) \in Seq(S)
         /\ Len(Append(s, x)) = Len(s) + 1
<1>1. /\ Append(s, x) \in Seq(S)
      /\ Len(Append(s, x)) = Len(s) + 1
      /\ Len(s) \in Nat
      /\ DOMAIN s = 1 .. Len(s)
      /\ DOMAIN Append(s, x) = 1 .. (Len(s) + 1)
  OBVIOUS
<1>2. /\ \A i \in 1 .. Len(s) : Append(s, x)[i] = s[i]
      /\ Append(s, x)[Len(s) + 1] = x
  BY <1>1
<1>3. Items(s) \cup {x} \subseteq Items(Append(s, x))
  BY <1>1, <1>2 DEF Items
<1>4. Items(Append(s, x)) \subseteq Items(s) \cup {x}
  BY <1>1, <1>2 DEF Items
<1> QED
  BY <1>1, <1>3, <1>4

(* taking the head removes it, *)
LEMMA ItemsHeadTail ==
  ASSUME NEW S, NEW s \in Seq(S), s # <<>>
  PROVE  /\ Items(s) = {Head(s)} \cup Items(Tail(s))
         /\ Head(s) \in S
         /\ Tail(s) \in Seq(S)
         /\ Len(Tail(s)) = Len(s) - 1
<1>1. Len(s) \in Nat \ {0} /\ DOMAIN s = 1 .. Len(s)
  OBVIOUS
<1>2. Tail(s) \in Seq(S) /\ Len(Tail(s)) = Len(s) - 1 /\ Head(s) \in S
  BY <1>1
<1>3. \A i \in 1 .. (Len(s) - 1) : Tail(s)[i] = s[i + 1]
  BY <1>1
<1>4. Items(Tail(s)) \subseteq Items(s) /\ Head(s) \in Items(s)
  BY <1>1, <1>2, <1>3 DEF Items
<1>5. ASSUME NEW i \in 1 .. Len(s), i # 1
      PROVE  s[i] \in Items(Tail(s))
  <2>1. i - 1 \in 1 .. (Len(s) - 1) /\ (i - 1) + 1 = i
    BY <1>1, <1>5
  <2>2. DOMAIN Tail(s) = 1 .. (Len(s) - 1)
    BY <1>1, <1>2
  <2>3. Tail(s)[i - 1] = s[i]
    BY <1>3, <2>1
  <2> QED
    BY <2>1, <2>2, <2>3 DEF Items
<1>6. Items(s) \subseteq {Head(s)} \cup Items(Tail(s))
  BY <1>1, <1>5 DEF Items
<1> QED
  BY <1>2, <1>4, <1>6

(* and what a sequence holds are members of its type. *)
LEMMA ItemsType ==
  ASSUME NEW S, NEW s \in Seq(S)
  PROVE  Items(s) \subseteq S
BY DEF Items

(* An empty sequence holds nothing. *)
LEMMA ItemsEmpty == Items(<<>>) = {}
BY DEF Items

-----------------------------------------------------------------------------
(* Type correctness.  A handler that is serving stands at an item of its   *)
(* payload, so that what it offers is an item.                             *)
TypeInv ==
  /\ TypeOK
  /\ \A e \in Exporter : Serving(e) => handler[e].pos \in 1 .. Len(Payload[e])

(* What a handler offers is an item. *)
LEMMA CurrentType ==
  ASSUME TypeInv, NEW e \in Exporter, Serving(e)
  PROVE  Current(e) \in Item
BY PayloadAssumption DEF TypeInv, Current

(* So is all that an export carries. *)
LEMMA PayloadItems ==
  ASSUME NEW e \in Exporter
  PROVE  Items(Payload[e]) \subseteq Item
BY PayloadAssumption, ItemsType

(* The lane that comes first is a lane. *)
LEMMA FirstType == ASSUME NEW s PROVE First(s) \in Lane
BY DEF First, Lane

(* The counters and the histories are updated within their types. *)
LEMMA BumpType ==
  ASSUME stats \in [Counter -> Nat], NEW c \in Counter, NEW n \in Nat, Bump(c, n)
  PROVE  stats' \in [Counter -> Nat]
BY DEF Bump

(* Likewise the histories. *)
LEMMA NoteType ==
  ASSUME fate \in [Outcome -> SUBSET Item], NEW o \in Outcome,
         NEW items \in SUBSET Item, Note(o, items)
  PROVE  fate' \in [Outcome -> SUBSET Item]
BY DEF Note

(* Every lane has its counters. *)
LEMMA CountersType ==
  ASSUME NEW l \in Lane
  PROVE  Accepted[l] \in Counter /\ Dropped[l] \in Counter /\ Written[l] \in Counter
BY DEF Lane, Accepted, Dropped, Written, Counter

(* The part of TypeInv that speaks of the handlers. *)
HandlersTyped ==
  /\ handler \in [Exporter -> HandlerState]
  /\ \A e \in Exporter : Serving(e) => handler[e].pos \in 1 .. Len(Payload[e])

(* Advance keeps the handlers typed. *)
LEMMA AdvanceType ==
  ASSUME TypeInv, NEW e \in Exporter, Serving(e),
         NEW done \in [Outcome -> SUBSET Item], Advance(e, done)
  PROVE  HandlersTyped' /\ fate' \in [Outcome -> SUBSET Item]
<1>1. handler[e].pos \in 1 .. Len(Payload[e]) /\ Len(Payload[e]) \in Nat
  BY PayloadAssumption DEF TypeInv
<1>2. HandlersTyped
  BY DEF TypeInv, TypeOK, HandlersTyped
<1>3. CASE handler[e].pos = Len(Payload[e])
  <2>1. handler' = [handler EXCEPT ![e].pc = "replied"]
    BY <1>3 DEF Advance
  <2>2. handler' \in [Exporter -> HandlerState]
    BY <1>2, <2>1 DEF HandlersTyped, HandlerState
  <2>3. ASSUME NEW x \in Exporter, Serving(x)' PROVE x # e /\ handler'[x] = handler[x]
    BY <1>2, <2>1, <2>3 DEF HandlersTyped, HandlerState, Serving
  <2>4. ASSUME NEW x \in Exporter, Serving(x)'
        PROVE  handler'[x].pos \in 1 .. Len(Payload[x])
    BY <1>2, <2>3, <2>4 DEF HandlersTyped, Serving
  <2>5. HandlersTyped'
    BY <2>2, <2>4 DEF HandlersTyped
  <2>6. fate' \in [Outcome -> SUBSET Item]
    BY <1>3, PayloadItems DEF Advance, Outcome
  <2> QED
    BY <2>5, <2>6
<1>4. CASE handler[e].pos # Len(Payload[e])
  <2>1. handler[e].pos + 1 \in 1 .. Len(Payload[e])
    BY <1>1, <1>4
  <2>2. HandlersTyped'
    BY <1>2, <1>4, <2>1 DEF Advance, HandlersTyped, HandlerState, Serving
  <2> QED
    BY <1>4, <2>2 DEF Advance
<1> QED
  BY <1>3, <1>4

(* The initial state is typed. *)
LEMMA InitTypeInv == Init => TypeInv
<1> SUFFICES ASSUME Init PROVE TypeInv
  OBVIOUS
<1>1. handler \in [Exporter -> HandlerState] /\ \A e \in Exporter : ~ Serving(e)
  BY DEF Init, HandlerState, Serving
<1>2. queue \in [Lane -> Seq(Item)] /\ batch \in [Lane -> Seq(Item)]
  BY DEF Init
<1>3. tokens \in 0 .. RateLimit
  BY SizesAssumption DEF Init
<1>4. runner \in RunnerState
  BY DEF Init, RunnerState
<1>5. stats \in [Counter -> Nat] /\ fate \in [Outcome -> SUBSET Item]
  BY DEF Init
<1> QED
  BY <1>1, <1>2, <1>3, <1>4, <1>5 DEF Init, TypeInv, TypeOK

(* The steps of an export's goroutine. *)
LEMMA HandleTypeInv ==
  ASSUME TypeInv, NEW e \in Exporter, Handle(e)
  PROVE  TypeInv'
<1> USE DEF TypeOK
<1>0. /\ TypeOK
      /\ LaneOf[e] \in Lane
      /\ RateLimit \in Nat
      /\ Len(Payload[e]) \in Nat
  BY LaneAssumption, SizesAssumption, PayloadAssumption DEF TypeInv
<1> DEFINE shedding == [fate EXCEPT !["shed"] = @ \cup {Current(e)}]
<1>1. Serving(e) => shedding \in [Outcome -> SUBSET Item]
  BY <1>0, CurrentType
<1>2. TakeToken(e) /\ Admitted(e) => tokens' \in 0 .. RateLimit
  BY <1>0 DEF TakeToken, Admitted, Limited
<1>3. CASE RateLimited(e)
  <2>1. Serving(e) /\ Advance(e, shedding) /\ Bump("droppedRate", 1)
    BY <1>3 DEF RateLimited, Offering, Serving
  <2>2. HandlersTyped' /\ fate' \in [Outcome -> SUBSET Item]
    BY <1>1, <2>1, AdvanceType
  <2>3. stats' \in [Counter -> Nat]
    BY <1>0, <2>1, BumpType DEF Counter
  <2> QED
    BY <1>0, <1>3, <2>2, <2>3 DEF RateLimited, TypeInv, HandlersTyped
<1>4. CASE Enqueue(e)
  <2>1. Serving(e) /\ Admitted(e) /\ TakeToken(e)
    BY <1>4 DEF Enqueue, Admitted, Offering, Serving
  <2>2. queue' \in [Lane -> Seq(Item)]
    <3>1. Append(queue[LaneOf[e]], Current(e)) \in Seq(Item)
      BY <1>0, <2>1, CurrentType, ItemsAppend
    <3> QED
      BY <1>0, <1>4, <3>1 DEF Enqueue
  <2>3. HandlersTyped' /\ fate' \in [Outcome -> SUBSET Item]
    <3>1. CASE LaneOf[e] = "span"
      <4>1. handler' = [handler EXCEPT ![e].pc = "count"] /\ UNCHANGED fate
        BY <1>4, <3>1 DEF Enqueue
      <4>2. handler[e].pos \in 1 .. Len(Payload[e])
        BY <2>1 DEF TypeInv
      <4>3. HandlersTyped'
        BY <1>0, <4>1, <4>2 DEF HandlersTyped, HandlerState, Serving, TypeInv
      <4> QED
        BY <1>0, <4>1, <4>3
    <3>2. CASE LaneOf[e] # "span"
      <4>1. Advance(e, fate)
        BY <1>4, <3>2 DEF Enqueue
      <4> QED
        BY <1>0, <2>1, <4>1, AdvanceType
    <3> QED
      BY <3>1, <3>2
  <2> QED
    BY <1>0, <1>2, <1>4, <2>1, <2>2, <2>3 DEF Enqueue, TypeInv, HandlersTyped
<1>5. CASE CountQueued(e)
  <2>1. Serving(e) /\ Advance(e, fate) /\ Bump("queued", 1)
    BY <1>5 DEF CountQueued, Serving
  <2>2. HandlersTyped' /\ fate' \in [Outcome -> SUBSET Item]
    BY <1>0, <2>1, AdvanceType
  <2>3. stats' \in [Counter -> Nat]
    BY <1>0, <2>1, BumpType DEF Counter
  <2> QED
    BY <1>0, <1>5, <2>2, <2>3 DEF CountQueued, TypeInv, HandlersTyped
<1>6. CASE QueueFull(e)
  <2>1. /\ Serving(e) /\ Admitted(e) /\ TakeToken(e)
        /\ Advance(e, shedding) /\ Bump(Dropped[LaneOf[e]], 1)
    BY <1>6 DEF QueueFull, Admitted, Offering, Serving
  <2>2. HandlersTyped' /\ fate' \in [Outcome -> SUBSET Item]
    BY <1>1, <2>1, AdvanceType
  <2>3. stats' \in [Counter -> Nat]
    BY <1>0, <2>1, BumpType, CountersType
  <2> QED
    BY <1>0, <1>2, <1>6, <2>1, <2>2, <2>3
    DEF QueueFull, TypeInv, HandlersTyped
<1>7. CASE ContextDone(e)
  <2> DEFINE n == IF LaneOf[e] = "span" THEN Len(Payload[e]) ELSE 0
  <2>1. Admitted(e) /\ TakeToken(e) /\ Bump("spansRejected", n) /\ n \in Nat
    BY <1>0, <1>7 DEF ContextDone
  <2>2. stats' \in [Counter -> Nat]
    BY <1>0, <2>1, BumpType DEF Counter
  <2>3. HandlersTyped'
    BY <1>0, <1>7 DEF ContextDone, HandlersTyped, HandlerState, Serving, TypeInv
  <2> QED
    BY <1>0, <1>2, <1>7, <2>1, <2>2, <2>3
    DEF ContextDone, TypeInv, HandlersTyped
<1> QED
  BY <1>3, <1>4, <1>5, <1>6, <1>7 DEF Handle

(* The steps of Pipeline.Run. *)
LEMMA RunTypeInv ==
  ASSUME TypeInv, Run
  PROVE  TypeInv'
<1> USE DEF TypeOK
<1>0. TypeOK
  BY DEF TypeInv
<1>a. ASSUME NEW l \in Lane, queue[l] # <<>>,
             batch' = [batch EXCEPT ![l] = Append(@, Head(queue[l]))],
             queue' = [queue EXCEPT ![l] = Tail(@)]
      PROVE  batch' \in [Lane -> Seq(Item)] /\ queue' \in [Lane -> Seq(Item)]
  <2>1. Head(queue[l]) \in Item /\ Tail(queue[l]) \in Seq(Item)
    BY <1>0, <1>a, ItemsHeadTail
  <2>2. Append(batch[l], Head(queue[l])) \in Seq(Item)
    BY <1>0, <2>1, ItemsAppend
  <2> QED
    BY <1>0, <1>a, <2>1, <2>2
<1>1. ASSUME NEW l \in Lane, Receive(l) PROVE TypeInv'
  <2>1. batch' \in [Lane -> Seq(Item)] /\ queue' \in [Lane -> Seq(Item)]
    BY <1>a, <1>1 DEF Receive
  <2>2. runner' \in RunnerState
    BY <1>0, <1>1 DEF Receive, RunnerState
  <2> QED
    BY <1>0, <1>1, <2>1, <2>2 DEF Receive, TypeInv, Serving
<1>2. CASE Tick
  BY <1>0, <1>2 DEF Tick, NonEmpty, RunnerState, TypeInv, Serving
<1>3. CASE StartDrain
  BY <1>0, <1>3 DEF StartDrain, RunnerState, TypeInv, Serving
<1>4. CASE DrainItem
  <2>1. batch' \in [Lane -> Seq(Item)] /\ queue' \in [Lane -> Seq(Item)]
    BY <1>a, <1>4, FirstType DEF DrainItem
  <2> QED
    BY <1>0, <1>4, <2>1 DEF DrainItem, TypeInv, Serving
<1>5. CASE DrainEnds
  <2>1. runner' \in RunnerState
    BY <1>0, <1>5 DEF DrainEnds, NonEmpty, RunnerState
  <2> QED
    BY <1>0, <1>5, <2>1 DEF DrainEnds, TypeInv, Serving
<1>6. CASE Write
  <2> DEFINE l == First(runner.todo)
  <2>1. l \in Lane /\ batch[l] \in Seq(Item) /\ Items(batch[l]) \in SUBSET Item
    BY <1>0, FirstType, ItemsType
  <2>2. \/ Note("stored", Items(batch[l])) /\ Bump(Written[l], Len(batch[l]))
        \/ Note("lost", Items(batch[l])) /\ Bump("writeErrors", 1)
    BY <1>6 DEF Write
  <2>3. Len(batch[l]) \in Nat /\ Written[l] \in Counter
    BY <2>1, CountersType
  <2>4. stats' \in [Counter -> Nat]
    BY <1>0, <2>2, <2>3, BumpType DEF Counter
  <2>5. fate' \in [Outcome -> SUBSET Item]
    BY <1>0, <2>1, <2>2, NoteType DEF Outcome
  <2>6. batch' = [batch EXCEPT ![l] = <<>>] /\ <<>> \in Seq(Item)
    BY <1>6 DEF Write
  <2>7. batch' \in [Lane -> Seq(Item)]
    BY <1>0, <2>6
  <2>8. runner' \in RunnerState
    BY <1>0, <1>6 DEF Write, RunnerState
  <2> QED
    BY <1>0, <1>6, <2>4, <2>5, <2>7, <2>8 DEF Write, TypeInv, Serving
<1>7. CASE Flushed
  BY <1>0, <1>7 DEF Flushed, RunnerState, TypeInv, Serving
<1> QED
  BY <1>1, <1>2, <1>3, <1>4, <1>5, <1>6, <1>7 DEF Run

(* Every step keeps the types. *)
LEMMA NextTypeInv ==
  ASSUME TypeInv, [Next]_vars
  PROVE  TypeInv'
<1> USE DEF TypeOK
<1>0. TypeOK /\ RateLimit \in Nat
  BY SizesAssumption DEF TypeInv
<1>1. ASSUME NEW e \in Exporter, Export(e) PROVE TypeInv'
  <2>1. Len(Payload[e]) \in Nat \ {0} /\ Accepted[LaneOf[e]] \in Counter
    BY <1>1, PayloadAssumption, LaneAssumption, CountersType DEF Export
  <2>2. stats' \in [Counter -> Nat]
    BY <1>0, <1>1, <2>1, BumpType DEF Export
  <2>3. HandlersTyped'
    BY <1>0, <1>1, <2>1 DEF Export, HandlersTyped, HandlerState, Serving, TypeInv
  <2> QED
    BY <1>0, <1>1, <2>2, <2>3 DEF Export, TypeInv, HandlersTyped
<1>2. ASSUME NEW e \in Exporter, ClientGone(e) PROVE TypeInv'
  BY <1>0, <1>2 DEF ClientGone, HandlerState, Serving, TypeInv
<1>3. ASSUME NEW e \in Exporter, Retry(e) PROVE TypeInv'
  BY <1>0, <1>3 DEF Retry, HandlerState, Serving, TypeInv
<1>4. CASE Refill
  BY <1>0, <1>4 DEF Refill, Serving, TypeInv
<1>5. CASE Cancel
  <2>1. UNION {Items(queue[l]) \cup Items(batch[l]) : l \in Lane} \in SUBSET Item
    BY <1>0, ItemsType
  <2>2. fate' \in [Outcome -> SUBSET Item]
    BY <1>0, <1>5, <2>1, NoteType DEF Cancel, Outcome
  <2> QED
    BY <1>0, <1>5, <2>2 DEF Cancel, Serving, TypeInv
<1>6. CASE StopGRPC
  BY <1>0, <1>6 DEF StopGRPC, Serving, TypeInv
<1>7. CASE StopHTTP
  <2>1. HandlersTyped'
    BY <1>0, <1>7 DEF StopHTTP, HandlersTyped, HandlerState, Serving, TypeInv
  <2> QED
    BY <1>0, <1>7, <2>1 DEF StopHTTP, TypeInv, HandlersTyped
<1>8. CASE StopReceiver
  BY <1>0, <1>8 DEF StopReceiver, Serving, TypeInv
<1>9. CASE UNCHANGED vars
  BY <1>0, <1>9 DEF vars, Serving, TypeInv
<1> QED
  BY <1>1, <1>2, <1>3, <1>4, <1>5, <1>6, <1>7, <1>8, <1>9,
     HandleTypeInv, RunTypeInv DEF Next, Shutdown

(* The types hold throughout. *)
LEMMA SpecTypeInv == Spec => []TypeInv
BY InitTypeInv, NextTypeInv, PTL DEF Spec

(* Every variable of the pipeline and of the receiver's shutdown keeps its *)
(* type: no counter, token count or handler position leaves its range.     *)
THEOREM TypeCorrect == Spec => []TypeOK
<1>1. TypeInv => TypeOK
  BY DEF TypeInv
<1> QED
  BY <1>1, SpecTypeInv, PTL

-----------------------------------------------------------------------------
(* Bounded memory.  BoundedMemory alone is not inductive: that a flush     *)
(* leaves room in every batch takes the batches it does not write, which   *)
(* had room when it began.                                                 *)

(* Run has left its select for good exactly when last is set. *)
PhaseInv ==
  /\ runner.pc = "run" => ~ runner.last
  /\ runner.pc \in {"drain", "stopped"} => runner.last
  /\ runner.last => stopping

BoundInv ==
  \A l \in Lane :
    /\ Len(queue[l]) <= QueueSize[l]
    /\ ~ runner.last => Len(batch[l]) <= BatchSize
    /\ ~ runner.last /\ (runner.pc = "run" \/ l \notin runner.todo)
         => Len(batch[l]) < BatchSize

(* The writer's state is touched by nobody else. *)
LEMMA OthersLeaveWriter ==
  ASSUME [Next]_vars, ~ Run
  PROVE  /\ UNCHANGED <<batch, runner>>
         /\ stopping => stopping'
<1>1. ASSUME NEW e \in Exporter, Export(e) \/ ClientGone(e) \/ Retry(e)
      PROVE  UNCHANGED <<batch, runner, stopping>>
  BY <1>1 DEF Export, ClientGone, Retry
<1>2. ASSUME NEW e \in Exporter, Handle(e)
      PROVE  UNCHANGED <<batch, runner, stopping>>
  BY <1>2 DEF Handle, RateLimited, Enqueue, CountQueued, QueueFull, ContextDone
<1>3. CASE Refill \/ Shutdown \/ UNCHANGED vars
  BY <1>3 DEF Refill, Shutdown, StopGRPC, StopHTTP, StopReceiver, vars
<1>4. CASE Cancel
  BY <1>4 DEF Cancel
<1> QED
  BY <1>1, <1>2, <1>3, <1>4 DEF Next

(* Every step preserves PhaseInv. *)
LEMMA NextPhaseInv ==
  ASSUME TypeInv, PhaseInv, [Next]_vars
  PROVE  PhaseInv'
<1>0. runner \in RunnerState
  BY DEF TypeInv, TypeOK
<1>1. CASE Run
  <2>1. ASSUME NEW l \in Lane, Receive(l) PROVE PhaseInv'
    BY <1>0, <2>1 DEF Receive, PhaseInv, RunnerState
  <2>2. CASE Tick
    BY <1>0, <2>2 DEF Tick, PhaseInv, RunnerState
  <2>3. CASE StartDrain
    BY <1>0, <2>3 DEF StartDrain, PhaseInv
  <2>4. CASE DrainItem
    BY <2>4 DEF DrainItem, PhaseInv
  <2>5. CASE DrainEnds
    BY <1>0, <2>5 DEF DrainEnds, PhaseInv, RunnerState
  <2>6. CASE Write
    BY <1>0, <2>6 DEF Write, PhaseInv, RunnerState
  <2>7. CASE Flushed
    BY <1>0, <2>7 DEF Flushed, PhaseInv, RunnerState
  <2> QED
    BY <1>1, <2>1, <2>2, <2>3, <2>4, <2>5, <2>6, <2>7 DEF Run
<1>2. CASE ~ Run
  BY <1>2, OthersLeaveWriter DEF PhaseInv
<1> QED
  BY <1>1, <1>2

(* Every step preserves BoundInv. *)
LEMMA NextBoundInv ==
  ASSUME TypeInv, PhaseInv, BoundInv, [Next]_vars
  PROVE  BoundInv'
<1>0. /\ TypeOK
      /\ BatchSize \in Nat \ {0}
      /\ \A l \in Lane : /\ QueueSize[l] \in Nat
                         /\ Len(queue[l]) \in Nat
                         /\ Len(batch[l]) \in Nat
                         /\ queue[l] \in Seq(Item) /\ batch[l] \in Seq(Item)
  BY SizesAssumption DEF TypeInv, TypeOK
<1>a. ASSUME NEW l \in Lane, queue[l] # <<>>,
             batch' = [batch EXCEPT ![l] = Append(@, Head(queue[l]))],
             queue' = [queue EXCEPT ![l] = Tail(@)]
      PROVE  \A m \in Lane :
               /\ Len(queue'[m]) = IF m = l THEN Len(queue[m]) - 1 ELSE Len(queue[m])
               /\ Len(batch'[m]) = IF m = l THEN Len(batch[m]) + 1 ELSE Len(batch[m])
  <2>1. Head(queue[l]) \in Item /\ Len(Tail(queue[l])) = Len(queue[l]) - 1
    BY <1>0, <1>a, ItemsHeadTail
  <2>2. Len(Append(batch[l], Head(queue[l]))) = Len(batch[l]) + 1
    BY <1>0, <2>1, ItemsAppend
  <2> QED
    BY <1>0, <1>a, <2>1, <2>2 DEF TypeOK
<1>1. ASSUME NEW l \in Lane, Receive(l) PROVE BoundInv'
  <2>1. ~ runner.last /\ runner.pc = "run" /\ runner \in RunnerState
    BY <1>0, <1>1 DEF Receive, PhaseInv, TypeOK
  <2>2. \A m \in Lane :
          /\ Len(queue'[m]) <= QueueSize[m]
          /\ Len(batch'[m]) = IF m = l THEN Len(batch[m]) + 1 ELSE Len(batch[m])
    <3>1. \A m \in Lane :
            /\ Len(queue'[m]) = IF m = l THEN Len(queue[m]) - 1 ELSE Len(queue[m])
            /\ Len(batch'[m]) = IF m = l THEN Len(batch[m]) + 1 ELSE Len(batch[m])
      BY <1>1, <1>a DEF Receive
    <3> QED
      BY <1>0, <3>1 DEF BoundInv
  <2>3. \A m \in Lane : Len(batch[m]) < BatchSize
    BY <2>1 DEF BoundInv
  <2>4. CASE Fills(l)
    BY <1>0, <1>1, <2>1, <2>2, <2>3, <2>4
    DEF Receive, RunnerState, BoundInv
  <2>5. CASE ~ Fills(l)
    BY <1>0, <1>1, <2>1, <2>2, <2>3, <2>5
    DEF Receive, Fills, BoundInv
  <2> QED
    BY <2>4, <2>5
<1>2. CASE Tick
  BY <1>0, <1>2 DEF Tick, BoundInv, TypeOK, RunnerState, PhaseInv
<1>3. CASE StartDrain
  BY <1>0, <1>3 DEF StartDrain, BoundInv
<1>4. CASE DrainItem
  <2>1. runner.last /\ runner' = runner
    BY <1>4 DEF DrainItem, PhaseInv
  <2>2. \A m \in Lane : Len(queue'[m]) <= QueueSize[m]
    BY <1>0, <1>4, <1>a, FirstType DEF DrainItem, BoundInv
  <2> QED
    BY <2>1, <2>2 DEF BoundInv
<1>5. CASE DrainEnds
  <2>1. runner.last /\ runner'.last
    BY <1>0, <1>5 DEF DrainEnds, PhaseInv, TypeOK, RunnerState
  <2> QED
    BY <1>5, <2>1 DEF DrainEnds, BoundInv
<1>6. CASE Write
  <2> DEFINE l == First(runner.todo)
  <2>1. /\ l \in Lane /\ queue' = queue
        /\ batch' = [batch EXCEPT ![l] = <<>>]
        /\ runner.pc = "write" /\ runner'.pc = "write"
        /\ runner'.last = runner.last
        /\ runner'.todo = runner.todo \ {l}
    BY <1>0, <1>6, FirstType DEF Write, TypeOK, RunnerState
  <2>2. \A m \in Lane : Len(batch'[m]) = IF m = l THEN 0 ELSE Len(batch[m])
    BY <1>0, <2>1 DEF TypeOK
  <2> QED
    BY <1>0, <2>1, <2>2 DEF BoundInv
<1>7. CASE Flushed
  <2>1. runner'.last = runner.last /\ runner.todo = {} /\ UNCHANGED <<queue, batch>>
    BY <1>0, <1>7 DEF Flushed, TypeOK, RunnerState
  <2> QED
    BY <2>1 DEF BoundInv
<1>8. CASE ~ Run
  <2>1. UNCHANGED <<batch, runner>>
    BY <1>8, OthersLeaveWriter
  <2>2. CASE UNCHANGED queue
    BY <2>1, <2>2 DEF BoundInv
  <2>3. ASSUME NEW e \in Exporter, Enqueue(e) PROVE BoundInv'
    <3>1. LaneOf[e] \in Lane /\ Current(e) \in Item
      BY <2>3, LaneAssumption, CurrentType
      DEF Enqueue, Admitted, Offering, Serving
    <3>2. Len(Append(queue[LaneOf[e]], Current(e))) = Len(queue[LaneOf[e]]) + 1
      BY <1>0, <3>1, ItemsAppend
    <3>3. \A m \in Lane : Len(queue'[m]) <= QueueSize[m]
      BY <1>0, <2>3, <3>1, <3>2 DEF Enqueue, BoundInv, TypeOK
    <3> QED
      BY <2>1, <3>3 DEF BoundInv
  <2> QED
    BY <1>8, <2>2, <2>3
    DEF Next, Export, ClientGone, Handle, RateLimited, CountQueued, QueueFull,
        ContextDone, Retry, Refill, Cancel, Shutdown, StopGRPC, StopHTTP,
        StopReceiver, vars
<1> QED
  BY <1>1, <1>2, <1>3, <1>4, <1>5, <1>6, <1>7, <1>8 DEF Run

(* Memory stays bounded for every queue size, batch size and number of     *)
(* concurrent exports, however long the store takes over a write.          *)
THEOREM MemoryBounded == Spec => []BoundedMemory
<1>1. Init => PhaseInv /\ BoundInv
  <2> SUFFICES ASSUME Init PROVE PhaseInv /\ BoundInv
    OBVIOUS
  <2>1. \A l \in Lane : Len(queue[l]) = 0 /\ Len(batch[l]) = 0
    BY DEF Init
  <2> QED
    BY <2>1, SizesAssumption DEF Init, PhaseInv, BoundInv
<1>2. TypeInv /\ PhaseInv /\ BoundInv => BoundedMemory
  BY DEF BoundInv, BoundedMemory, PhaseInv
<1> QED
  BY <1>1, <1>2, SpecTypeInv, NextPhaseInv, NextBoundInv, PTL DEF Spec

-----------------------------------------------------------------------------
(* Where items go.                                                         *)

(* Moving one item from a queue to its batch. *)
Moved(l) ==
  /\ queue[l] # <<>>
  /\ batch' = [batch EXCEPT ![l] = Append(@, Head(queue[l]))]
  /\ queue' = [queue EXCEPT ![l] = Tail(@)]

(* The item is in the batch afterwards. *)
LEMMA MovedItems ==
  ASSUME TypeInv, NEW l \in Lane, Moved(l)
  PROVE  \A m \in Lane :
           /\ Items(batch[m]) \subseteq Items(batch'[m])
           /\ Items(queue[m]) \subseteq Items(batch'[m]) \cup Items(queue'[m])
<1>1. queue \in [Lane -> Seq(Item)] /\ batch \in [Lane -> Seq(Item)]
  BY DEF TypeInv, TypeOK
<1>2. Head(queue[l]) \in Item /\ Items(queue[l]) = {Head(queue[l])} \cup Items(Tail(queue[l]))
  BY <1>1, ItemsHeadTail DEF Moved
<1>3. Items(Append(batch[l], Head(queue[l]))) = Items(batch[l]) \cup {Head(queue[l])}
  BY <1>1, <1>2, ItemsAppend
<1>4. Items(batch'[l]) = Items(batch[l]) \cup {Head(queue[l])}
  BY <1>1, <1>3 DEF Moved
<1>5. Items(queue'[l]) = Items(Tail(queue[l]))
  BY <1>1 DEF Moved
<1>6. \A m \in Lane : m # l => batch'[m] = batch[m] /\ queue'[m] = queue[m]
  BY <1>1 DEF Moved
<1> QED
  BY <1>2, <1>4, <1>5, <1>6

(* Advance settles nothing but the acknowledgement. *)
LEMMA AdvanceFate ==
  ASSUME NEW e \in Exporter, NEW done \in [Outcome -> SUBSET Item],
         Advance(e, done)
  PROVE  \A o \in Outcome \ {"acked"} : fate'[o] = done[o]
BY DEF Advance, Outcome

(* Nobody but Run takes items out of a queue or settles what became of     *)
(* them.                                                                   *)
LEMMA OthersKeepItems ==
  ASSUME TypeInv, [Next]_vars, ~ Run
  PROVE  /\ \A l \in Lane : Items(queue[l]) \subseteq Items(queue'[l])
         /\ fate'["stored"] = fate["stored"]
         /\ fate'["lost"] = fate["lost"]
         /\ fate["shed"] \subseteq fate'["shed"]
         /\ ~ Cancel => fate'["held"] = fate["held"]
<1>0. /\ queue \in [Lane -> Seq(Item)]
      /\ fate \in [Outcome -> SUBSET Item]
      /\ {"stored", "lost", "shed", "held"} \subseteq Outcome \ {"acked"}
  BY DEF TypeInv, TypeOK, Outcome
<1>1. ASSUME NEW e \in Exporter, Serving(e),
             Advance(e, [fate EXCEPT !["shed"] = @ \cup {Current(e)}])
      PROVE  /\ \A o \in {"stored", "lost", "held"} : fate'[o] = fate[o]
             /\ fate'["shed"] = fate["shed"] \cup {Current(e)}
  <2> DEFINE done == [fate EXCEPT !["shed"] = @ \cup {Current(e)}]
  <2>1. done \in [Outcome -> SUBSET Item] /\ done["shed"] = fate["shed"] \cup {Current(e)}
    BY <1>0, <1>1, CurrentType
  <2>2. \A o \in {"stored", "lost", "held"} : done[o] = fate[o]
    BY <1>0
  <2>3. \A o \in Outcome \ {"acked"} : fate'[o] = done[o]
    BY <1>1, <2>1, AdvanceFate
  <2> QED
    BY <1>0, <2>1, <2>2, <2>3
<1>2. ASSUME NEW e \in Exporter, Export(e) \/ ClientGone(e) \/ Retry(e)
      PROVE  UNCHANGED <<queue, fate>>
  BY <1>2 DEF Export, ClientGone, Retry
<1>3. ASSUME NEW e \in Exporter, RateLimited(e) \/ QueueFull(e)
      PROVE  /\ UNCHANGED queue
             /\ \A o \in {"stored", "lost", "held"} : fate'[o] = fate[o]
             /\ fate["shed"] \subseteq fate'["shed"]
  <2>1. Serving(e) /\ Advance(e, [fate EXCEPT !["shed"] = @ \cup {Current(e)}])
                   /\ UNCHANGED queue
    BY <1>3 DEF RateLimited, QueueFull, Admitted, Offering, Serving
  <2> QED
    BY <1>1, <2>1
<1>4. ASSUME NEW e \in Exporter, CountQueued(e) \/ ContextDone(e)
      PROVE  UNCHANGED queue /\ \A o \in Outcome \ {"acked"} : fate'[o] = fate[o]
  BY <1>0, <1>4, AdvanceFate DEF CountQueued, ContextDone
<1>5. ASSUME NEW e \in Exporter, Enqueue(e)
      PROVE  /\ \A l \in Lane : Items(queue[l]) \subseteq Items(queue'[l])
             /\ \A o \in Outcome \ {"acked"} : fate'[o] = fate[o]
  <2>1. LaneOf[e] \in Lane /\ Current(e) \in Item
    BY <1>5, LaneAssumption, CurrentType DEF Enqueue, Admitted, Offering, Serving
  <2>2. Items(queue[LaneOf[e]]) \subseteq Items(Append(queue[LaneOf[e]], Current(e)))
    BY <1>0, <2>1, ItemsAppend
  <2>3. queue' = [queue EXCEPT ![LaneOf[e]] = Append(@, Current(e))]
    BY <1>5 DEF Enqueue
  <2>4. \A l \in Lane : Items(queue[l]) \subseteq Items(queue'[l])
    BY <1>0, <2>1, <2>2, <2>3
  <2>5. UNCHANGED fate \/ Advance(e, fate)
    BY <1>5 DEF Enqueue
  <2> QED
    BY <1>0, <2>4, <2>5, AdvanceFate
<1>6. CASE Refill \/ Shutdown \/ UNCHANGED vars
  BY <1>6 DEF Refill, Shutdown, StopGRPC, StopHTTP, StopReceiver, vars
<1>7. CASE Cancel
  BY <1>0, <1>7 DEF Cancel, Note
<1>8. ASSUME NEW e \in Exporter,
             Export(e) \/ ClientGone(e) \/ Handle(e) \/ Retry(e)
      PROVE  /\ \A l \in Lane : Items(queue[l]) \subseteq Items(queue'[l])
             /\ \A o \in {"stored", "lost", "held"} : fate'[o] = fate[o]
             /\ fate["shed"] \subseteq fate'["shed"]
  BY <1>0, <1>2, <1>3, <1>4, <1>5, <1>8 DEF Handle
<1> QED
  BY <1>6, <1>7, <1>8 DEF Next

-----------------------------------------------------------------------------
(* Shutdown.  Where an item that was held when the context was cancelled   *)
(* may still be, phase by phase of Run's last moments: anywhere until the  *)
(* drain, then in a batch or in a queue still to be drained, then in a     *)
(* batch still to be written.                                              *)
Covered(x) ==
  \/ x \in fate["stored"] \cup fate["lost"]
  \/ \E l \in Lane :
       /\ x \in Items(batch[l])
       /\ runner.last /\ runner.pc # "drain" => l \in runner.todo
  \/ \E l \in Lane :
       /\ x \in Items(queue[l])
       /\ runner.last => runner.pc = "drain" /\ l \in runner.todo

HeldInv ==
  /\ runner.pc = "stopped" => runner.todo = {}
  /\ \A x \in fate["held"] : Covered(x)

(* First picks from a set that is not empty. *)
LEMMA FirstMember ==
  ASSUME NEW s \in SUBSET Lane, s # {}
  PROVE  First(s) \in s
BY DEF First, Lane

(* The steps of Run preserve HeldInv, *)
LEMMA RunHeldInv ==
  ASSUME TypeInv, PhaseInv, HeldInv, Run
  PROVE  HeldInv'
<1>0. /\ runner \in RunnerState
      /\ batch \in [Lane -> Seq(Item)]
      /\ fate \in [Outcome -> SUBSET Item]
      /\ {"stored", "lost", "held"} \subseteq Outcome
  BY DEF TypeInv, TypeOK, Outcome
<1>1. ASSUME NEW l \in Lane, Receive(l) PROVE HeldInv'
  <2>1. Moved(l) /\ fate' = fate /\ runner.pc = "run"
    BY <1>1 DEF Receive, Moved
  <2>2. ~ runner.last /\ ~ runner'.last /\ runner'.pc # "stopped"
    BY <1>0, <1>1, <2>1 DEF Receive, PhaseInv, RunnerState
  <2>3. \A x \in fate["held"] : Covered(x)'
    BY <2>1, <2>2, MovedItems DEF HeldInv, Covered
  <2> QED
    BY <2>1, <2>2, <2>3 DEF HeldInv
<1>2. CASE Tick
  <2>1. ~ runner.last /\ ~ runner'.last /\ runner'.pc # "stopped"
        /\ UNCHANGED <<queue, batch, fate>>
    BY <1>0, <1>2 DEF Tick, PhaseInv, RunnerState
  <2> QED
    BY <2>1 DEF HeldInv, Covered
<1>3. CASE StartDrain
  <2>1. ~ runner.last /\ runner'.pc = "drain" /\ runner'.todo = Lane
        /\ UNCHANGED <<queue, batch, fate>>
    BY <1>3 DEF StartDrain, PhaseInv
  <2> QED
    BY <2>1 DEF HeldInv, Covered
<1>4. CASE DrainItem
  <2>1. Moved(First(runner.todo)) /\ First(runner.todo) \in Lane
        /\ UNCHANGED <<fate, runner>> /\ runner.pc = "drain"
    BY <1>4, FirstType DEF DrainItem, Moved
  <2>2. \A x \in fate["held"] : Covered(x)'
    BY <2>1, MovedItems DEF HeldInv, Covered
  <2> QED
    BY <2>1, <2>2 DEF HeldInv
<1>5. CASE DrainEnds
  <2> DEFINE l == First(runner.todo)
  <2>1. /\ runner.pc = "drain" /\ runner.last /\ runner'.last
        /\ UNCHANGED <<queue, batch, fate>>
        /\ Items(queue[l]) = {}
    BY <1>0, <1>5, ItemsEmpty DEF DrainEnds, PhaseInv, RunnerState
  <2>2. CASE LastLane(runner.todo)
    <3>1. runner'.pc = "write" /\ runner'.todo = NonEmpty(batch)
      BY <1>0, <1>5, <2>2 DEF DrainEnds, RunnerState
    <3>2. \A m \in Lane : Items(batch[m]) # {} => m \in NonEmpty(batch)
      BY ItemsEmpty DEF NonEmpty
    <3>3. \A m \in Lane : m \in runner.todo => Items(queue[m]) = {}
      BY <2>1, <2>2 DEF LastLane
    <3> QED
      BY <2>1, <3>1, <3>2, <3>3 DEF HeldInv, Covered
  <2>3. CASE ~ LastLane(runner.todo)
    <3>1. runner'.pc = "drain" /\ runner'.todo = runner.todo \ {l}
      BY <1>0, <1>5, <2>3 DEF DrainEnds, RunnerState
    <3> QED
      BY <2>1, <3>1 DEF HeldInv, Covered
  <2> QED
    BY <2>2, <2>3
<1>6. CASE Write
  <2> DEFINE l == First(runner.todo)
  <2>1. /\ l \in runner.todo /\ l \in Lane
        /\ runner.pc = "write" /\ runner'.pc = "write"
        /\ runner'.last = runner.last /\ runner'.todo = runner.todo \ {l}
        /\ UNCHANGED queue
    BY <1>0, <1>6, FirstMember, FirstType DEF Write, RunnerState
  <2>2. Note("stored", Items(batch[l])) \/ Note("lost", Items(batch[l]))
    BY <1>6 DEF Write
  <2>3. /\ fate'["held"] = fate["held"]
        /\ fate'["stored"] \cup fate'["lost"]
             = fate["stored"] \cup fate["lost"] \cup Items(batch[l])
    BY <1>0, <2>2 DEF Note
  <2>4. \A m \in Lane : m # l => batch'[m] = batch[m]
    BY <1>0, <1>6 DEF Write
  <2>5. \A x \in fate["held"] : Covered(x)'
    BY <2>1, <2>3, <2>4 DEF HeldInv, Covered
  <2> QED
    BY <2>1, <2>3, <2>5 DEF HeldInv
<1>7. CASE Flushed
  <2>1. /\ runner.pc = "write" /\ runner.todo = {} /\ runner'.todo = {}
        /\ runner'.last = runner.last /\ runner'.pc \in {"run", "stopped"}
        /\ UNCHANGED <<queue, batch, fate>>
    BY <1>0, <1>7 DEF Flushed, RunnerState
  <2> QED
    BY <2>1 DEF HeldInv, Covered
<1> QED
  BY <1>1, <1>2, <1>3, <1>4, <1>5, <1>6, <1>7 DEF Run

(* and so do all others. *)
LEMMA NextHeldInv ==
  ASSUME TypeInv, PhaseInv, HeldInv, [Next]_vars
  PROVE  HeldInv'
<1>1. CASE ~ Run
  <2>1. /\ UNCHANGED <<batch, runner>>
        /\ \A l \in Lane : Items(queue[l]) \subseteq Items(queue'[l])
        /\ fate'["stored"] = fate["stored"] /\ fate'["lost"] = fate["lost"]
    BY <1>1, OthersLeaveWriter, OthersKeepItems
  <2>2. \A x : Covered(x) => Covered(x)'
    BY <2>1 DEF Covered
  <2>3. CASE Cancel
    <3>1. /\ fate'["held"] = fate["held"] \cup Held
          /\ ~ runner.last
          /\ UNCHANGED <<queue, batch, runner>>
      BY <2>3 DEF Cancel, Note, Held, PhaseInv, TypeInv, TypeOK, Outcome
    <3>2. \A x \in Held : Covered(x)
      BY <3>1 DEF Covered, Held
    <3> QED
      BY <2>2, <3>1, <3>2 DEF HeldInv
  <2>4. CASE ~ Cancel
    <3>1. fate'["held"] = fate["held"]
      BY <1>1, <2>4, OthersKeepItems
    <3> QED
      BY <2>1, <2>2, <3>1 DEF HeldInv
  <2> QED
    BY <2>3, <2>4
<1> QED
  BY <1>1, RunHeldInv

(* Run returns only after everything that was queued or batched when the   *)
(* context was cancelled has been handed to the store.                     *)
THEOREM ShutdownDrains == Spec => []DrainedAtShutdown
<1>1. Init => PhaseInv /\ HeldInv
  <2> SUFFICES ASSUME Init PROVE PhaseInv /\ HeldInv
    OBVIOUS
  <2>1. fate["held"] = {}
    BY DEF Init, Outcome
  <2> QED
    BY <2>1 DEF Init, PhaseInv, HeldInv
<1>2. PhaseInv /\ HeldInv => DrainedAtShutdown
  BY DEF PhaseInv, HeldInv, Covered, DrainedAtShutdown
<1> QED
  BY <1>1, <1>2, SpecTypeInv, NextPhaseInv, NextHeldInv, PTL DEF Spec

-----------------------------------------------------------------------------
(* Nothing vanishes.                                                       *)

Accounted == Held \cup fate["stored"] \cup fate["lost"] \cup fate["shed"]

(* What is accounted for stays so. *)
LEMMA AccountedGrows ==
  ASSUME TypeInv, [Next]_vars
  PROVE  Accounted \subseteq Accounted'
<1>0. /\ batch \in [Lane -> Seq(Item)]
      /\ fate \in [Outcome -> SUBSET Item]
      /\ {"stored", "lost", "shed"} \subseteq Outcome
  BY DEF TypeInv, TypeOK, Outcome
<1>1. CASE ~ Run
  <2>1. /\ UNCHANGED batch
        /\ \A l \in Lane : Items(queue[l]) \subseteq Items(queue'[l])
        /\ fate'["stored"] = fate["stored"] /\ fate'["lost"] = fate["lost"]
        /\ fate["shed"] \subseteq fate'["shed"]
    BY <1>1, OthersLeaveWriter, OthersKeepItems
  <2> QED
    BY <2>1 DEF Accounted, Held
<1>2. ASSUME NEW l \in Lane, Moved(l), UNCHANGED fate
      PROVE  Accounted \subseteq Accounted'
  BY <1>2, MovedItems DEF Accounted, Held
<1>3. CASE Write
  <2> DEFINE l == First(runner.todo)
  <2>1. /\ l \in Lane /\ UNCHANGED queue
        /\ batch' = [batch EXCEPT ![l] = <<>>]
        /\ Note("stored", Items(batch[l])) \/ Note("lost", Items(batch[l]))
    BY <1>3, FirstType DEF Write
  <2>2. /\ fate["shed"] \subseteq fate'["shed"]
        /\ fate["stored"] \cup fate["lost"] \cup Items(batch[l])
             \subseteq fate'["stored"] \cup fate'["lost"]
    BY <1>0, <2>1 DEF Note
  <2>3. \A m \in Lane : m # l => batch'[m] = batch[m]
    BY <1>0, <2>1
  <2> QED
    BY <2>1, <2>2, <2>3 DEF Accounted, Held
<1>4. CASE Tick \/ StartDrain \/ DrainEnds \/ Flushed
  <2>1. UNCHANGED <<queue, batch, fate>>
    BY <1>4 DEF Tick, StartDrain, DrainEnds, Flushed
  <2> QED
    BY <2>1 DEF Accounted, Held
<1>5. ASSUME NEW l \in Lane, Receive(l) PROVE Accounted \subseteq Accounted'
  BY <1>2, <1>5 DEF Receive, Moved
<1>6. CASE DrainItem
  BY <1>2, <1>6, FirstType DEF DrainItem, Moved
<1> QED
  BY <1>1, <1>3, <1>4, <1>5, <1>6 DEF Run

(* A step lets a handler pass at most the item it stands at. *)
Passes(e) == \A i \in 1 .. Passed(e)' :
               i \in 1 .. Passed(e) \/ Payload[e][i] \in Accounted'

(* A handler that stands still passes nothing. *)
LEMMA KeepPasses ==
  ASSUME NEW e \in Exporter, handler'[e] = handler[e]
  PROVE  Passes(e)
BY DEF Passes, Passed

(* Advance passes the item it stands at. *)
LEMMA AdvancePasses ==
  ASSUME TypeInv, NEW e \in Exporter, Serving(e), NEW done, Advance(e, done),
         handler[e].pc = "count" \/ Current(e) \in Accounted'
  PROVE  \A d \in Exporter : Passes(d)
<1>0. /\ handler \in [Exporter -> HandlerState]
      /\ Len(Payload[e]) \in Nat
      /\ handler[e].pos \in 1 .. Len(Payload[e])
  BY PayloadAssumption DEF TypeInv, TypeOK
<1>1. \A d \in Exporter : d # e => handler'[d] = handler[d]
  BY <1>0 DEF Advance
<1>2. /\ handler[e].pc = "offer" => Passed(e) = handler[e].pos - 1
      /\ handler[e].pc = "count" => Passed(e) = handler[e].pos
      /\ handler[e].pc \in {"offer", "count"}
  BY DEF Passed, Serving
<1>3. Passed(e)' = handler[e].pos
  <2>1. CASE handler[e].pos = Len(Payload[e])
    <3>1. handler'[e].pc = "replied"
      BY <1>0, <2>1 DEF Advance, HandlerState
    <3> QED
      BY <2>1, <3>1 DEF Passed
  <2>2. CASE handler[e].pos # Len(Payload[e])
    <3>1. handler'[e].pc = "offer" /\ handler'[e].pos = handler[e].pos + 1
      BY <1>0, <2>2 DEF Advance, HandlerState
    <3> QED
      BY <1>0, <3>1 DEF Passed
  <2> QED
    BY <2>1, <2>2
<1>4. Passes(e)
  <2>1. CASE handler[e].pc = "count"
    BY <1>2, <1>3, <2>1 DEF Passes
  <2>2. CASE handler[e].pc = "offer"
    <3>1. Payload[e][handler[e].pos] \in Accounted'
      BY <2>2 DEF Current
    <3>2. \A i \in 1 .. handler[e].pos :
            i \in 1 .. (handler[e].pos - 1) \/ i = handler[e].pos
      BY <1>0
    <3> QED
      BY <1>2, <1>3, <2>2, <3>1, <3>2 DEF Passes
  <2> QED
    BY <1>2, <2>1, <2>2
<1> QED
  BY <1>1, <1>4, KeepPasses

(* So for every step of a handler, *)
LEMMA HandlePasses ==
  ASSUME TypeInv, NEW e \in Exporter, Handle(e)
  PROVE  \A d \in Exporter : Passes(d)
<1>0. /\ handler \in [Exporter -> HandlerState]
      /\ queue \in [Lane -> Seq(Item)]
      /\ fate \in [Outcome -> SUBSET Item]
      /\ "shed" \in Outcome /\ LaneOf[e] \in Lane
      /\ handler[e].pos \in Nat
  BY LaneAssumption DEF TypeInv, TypeOK, Outcome, HandlerState
<1>1. CASE RateLimited(e) \/ QueueFull(e)
  <2> DEFINE done == [fate EXCEPT !["shed"] = @ \cup {Current(e)}]
  <2>1. Serving(e) /\ Advance(e, done)
    BY <1>1 DEF RateLimited, QueueFull, Admitted, Offering, Serving
  <2>2. done \in [Outcome -> SUBSET Item] /\ Current(e) \in done["shed"]
    BY <1>0, <2>1, CurrentType
  <2>3. Current(e) \in fate'["shed"]
    BY <1>0, <2>1, <2>2, AdvanceFate
  <2> QED
    BY <2>1, <2>3, AdvancePasses DEF Accounted
<1>2. CASE Enqueue(e)
  <2>1. Serving(e) /\ handler[e].pc = "offer"
    BY <1>2 DEF Enqueue, Admitted, Offering, Serving
  <2>2. Current(e) \in Accounted'
    <3>1. Current(e) \in Items(Append(queue[LaneOf[e]], Current(e)))
      BY <1>0, <2>1, CurrentType, ItemsAppend
    <3>2. Current(e) \in Items(queue'[LaneOf[e]])
      BY <1>0, <1>2, <3>1 DEF Enqueue
    <3> QED
      BY <1>0, <3>2 DEF Accounted, Held
  <2>3. CASE LaneOf[e] = "span"
    <3>1. handler' = [handler EXCEPT ![e].pc = "count"]
      BY <1>2, <2>3 DEF Enqueue
    <3>2. Passed(e)' = handler[e].pos /\ Passed(e) = handler[e].pos - 1
      BY <1>0, <2>1, <3>1 DEF Passed, HandlerState
    <3>3. \A i \in 1 .. handler[e].pos :
            i \in 1 .. (handler[e].pos - 1) \/ i = handler[e].pos
      BY <1>0
    <3>4. Passes(e)
      BY <2>2, <3>2, <3>3 DEF Passes, Current
    <3>5. \A d \in Exporter : d # e => handler'[d] = handler[d]
      BY <1>0, <3>1
    <3> QED
      BY <3>4, <3>5, KeepPasses
  <2>4. CASE LaneOf[e] # "span"
    <3>1. Advance(e, fate)
      BY <1>2, <2>4 DEF Enqueue
    <3> QED
      BY <2>1, <2>2, <3>1, AdvancePasses
  <2> QED
    BY <2>3, <2>4
<1>3. CASE CountQueued(e)
  <2>1. Serving(e) /\ handler[e].pc = "count" /\ Advance(e, fate)
    BY <1>3 DEF CountQueued, Serving
  <2> QED
    BY <2>1, AdvancePasses
<1>4. CASE ContextDone(e)
  <2>1. handler[e].pc = "offer" /\ handler' = [handler EXCEPT ![e].pc = "refused"]
    BY <1>4 DEF ContextDone, Admitted, Offering
  <2>2. Passed(e)' = Passed(e)
    BY <1>0, <2>1 DEF Passed, HandlerState
  <2>3. \A d \in Exporter : d # e => handler'[d] = handler[d]
    BY <1>0, <2>1
  <2> QED
    BY <2>2, <2>3, KeepPasses DEF Passes
<1> QED
  BY <1>1, <1>2, <1>3, <1>4 DEF Handle

(* and every step of the system. *)
LEMMA NextPasses ==
  ASSUME TypeInv, [Next]_vars
  PROVE  \A d \in Exporter : Passes(d)
<1>0. handler \in [Exporter -> HandlerState]
  BY DEF TypeInv, TypeOK
<1>1. ASSUME NEW e \in Exporter, Export(e) \/ Retry(e) PROVE \A d \in Exporter : Passes(d)
  <2>1. Passed(e)' = 0
    BY <1>0, <1>1 DEF Export, Retry, Passed, HandlerState
  <2>2. \A d \in Exporter : d # e => handler'[d] = handler[d]
    BY <1>0, <1>1 DEF Export, Retry
  <2> QED
    BY <2>1, <2>2, KeepPasses DEF Passes
<1>2. ASSUME \A d \in Exporter : handler'[d].pc = handler[d].pc
                                 /\ handler'[d].pos = handler[d].pos
      PROVE  \A d \in Exporter : Passes(d)
  BY <1>2 DEF Passes, Passed
<1>3. ASSUME NEW e \in Exporter, ClientGone(e) PROVE \A d \in Exporter : Passes(d)
  BY <1>0, <1>2, <1>3 DEF ClientGone, HandlerState
<1>4. CASE Refill \/ Run \/ Cancel \/ StopGRPC \/ StopReceiver \/ UNCHANGED vars
  <2>1. handler' = handler
    BY <1>4 DEF Refill, Run, Receive, Tick, StartDrain, DrainItem, DrainEnds,
                Write, Flushed, Cancel, StopGRPC, StopReceiver, vars
  <2> QED
    BY <1>2, <2>1
<1>5. CASE StopHTTP
  BY <1>0, <1>2, <1>5 DEF StopHTTP, HandlerState
<1> QED
  BY <1>1, <1>3, <1>4, <1>5, HandlePasses DEF Next, Shutdown

(* No interleaving of exports, the writer and shutdown loses track of an   *)
(* item that a handler is done with.                                       *)
THEOREM ItemsAccounted == Spec => []NothingVanishes
<1>1. Init => NothingVanishes
  BY DEF Init, NothingVanishes, Passed
<1>2. ASSUME TypeInv, NothingVanishes, [Next]_vars PROVE NothingVanishes'
  <2> SUFFICES ASSUME NEW e \in Exporter, NEW i \in 1 .. Passed(e)'
               PROVE  Payload[e][i] \in Accounted'
    BY DEF NothingVanishes, Accounted
  <2>1. i \in 1 .. Passed(e) \/ Payload[e][i] \in Accounted'
    BY <1>2, NextPasses DEF Passes
  <2>2. i \in 1 .. Passed(e) => Payload[e][i] \in Accounted
    BY <1>2 DEF NothingVanishes, Accounted
  <2> QED
    BY <1>2, <2>1, <2>2, AccountedGrows
<1> QED
  BY <1>1, <1>2, SpecTypeInv, PTL DEF Spec

-----------------------------------------------------------------------------
(* The counters.  CountersReconcile speaks of the spans between the send   *)
(* and its count, and of exports that are no longer served; what is        *)
(* inductive counts the handlers in that gap and the spans that the        *)
(* exports being served have still to settle.  Both sets are finite        *)
(* because each step adds one export's spans at most, whether or not the   *)
(* set of exporters is.                                                    *)

(* The handlers that have sent a span and not counted it. *)
Counting == {e \in Exporter : handler[e].pc = "count"}

(* The positions of the payload of e whose span is not settled yet. *)
Left(e) == IF LaneOf[e] = "span" /\ Serving(e)
           THEN handler[e].pos .. Len(Payload[e]) ELSE {}

Pending == UNION {{e} \X Left(e) : e \in Exporter}

Sent == stats["queued"] + Cardinality(Counting)

Known == stats["written"] + Len(queue["span"]) + Len(batch["span"])

Settled == stats["queued"] + stats["droppedQueue"] + stats["droppedRate"]

SentInv ==
  /\ IsFiniteSet(Counting)
  /\ \A e \in Counting : LaneOf[e] = "span"
  /\ Known <= Sent
  /\ stats["writeErrors"] = 0 => Known = Sent

SettledInv ==
  /\ IsFiniteSet(Pending)
  /\ Settled + Cardinality(Pending) <= stats["spansAccepted"]
  /\ stats["spansAccepted"]
       <= Settled + Cardinality(Pending) + stats["spansRejected"]

(* Bump changes one counter. *)
LEMMA BumpValues ==
  ASSUME stats \in [Counter -> Nat], NEW c \in Counter, NEW n \in Nat, Bump(c, n)
  PROVE  /\ stats'[c] = stats[c] + n
         /\ \A d \in Counter : d # c => stats'[d] = stats[d]
BY DEF Bump

(* The counters are numbers, and they are different counters. *)
LEMMA CountersTyped ==
  ASSUME TypeInv
  PROVE  /\ stats \in [Counter -> Nat]
         /\ {"queued", "written", "droppedQueue", "droppedRate", "spansAccepted",
             "spansRejected", "writeErrors"} \subseteq Counter
         /\ Settled \in Nat
         /\ stats["queued"] \in Nat /\ stats["written"] \in Nat
         /\ stats["spansAccepted"] \in Nat /\ stats["spansRejected"] \in Nat
         /\ Len(queue["span"]) \in Nat /\ Len(batch["span"]) \in Nat
         /\ Known \in Nat
<1>1. stats \in [Counter -> Nat]
  BY DEF TypeInv, TypeOK
<1>2. queue["span"] \in Seq(Item) /\ batch["span"] \in Seq(Item)
  BY DEF TypeInv, TypeOK, Lane
<1>3. {"queued", "written", "droppedQueue", "droppedRate", "spansAccepted",
       "spansRejected", "writeErrors"} \subseteq Counter
  BY DEF Counter
<1>4. /\ stats["queued"] \in Nat /\ stats["written"] \in Nat
      /\ stats["droppedQueue"] \in Nat /\ stats["droppedRate"] \in Nat
      /\ stats["spansAccepted"] \in Nat /\ stats["spansRejected"] \in Nat
  BY <1>1, <1>3
<1>5. Len(queue["span"]) \in Nat /\ Len(batch["span"]) \in Nat
  BY <1>2
<1>6. Settled \in Nat
  BY <1>4 DEF Settled
<1>7. Known \in Nat
  BY <1>4, <1>5 DEF Known
<1> QED
  BY <1>1, <1>3, <1>4, <1>5, <1>6, <1>7

(* What remains to be settled depends on the handlers' places alone. *)
LEMMA LeftKept ==
  ASSUME NEW e \in Exporter,
         handler'[e].pc = handler[e].pc, handler'[e].pos = handler[e].pos
  PROVE  Left(e)' = Left(e)
BY DEF Left, Serving

(* Advance settles the span a handler stands at, and no other. *)
LEMMA AdvanceSettles ==
  ASSUME TypeInv, NEW e \in Exporter, Serving(e), NEW done, Advance(e, done)
  PROVE  /\ \A d \in Exporter \ {e} : handler'[d] = handler[d]
         /\ handler'[e].pc # "count"
         /\ Left(e)' = Left(e) \ {handler[e].pos}
         /\ LaneOf[e] = "span" => handler[e].pos \in Left(e)
<1>0. /\ handler \in [Exporter -> HandlerState]
      /\ Len(Payload[e]) \in Nat
      /\ handler[e].pos \in 1 .. Len(Payload[e])
  BY PayloadAssumption DEF TypeInv, TypeOK
<1>1. \A d \in Exporter \ {e} : handler'[d] = handler[d]
  BY <1>0 DEF Advance
<1>2. LaneOf[e] = "span" => /\ Left(e) = handler[e].pos .. Len(Payload[e])
                            /\ handler[e].pos \in Left(e)
  BY <1>0 DEF Left
<1>3. LaneOf[e] # "span" => Left(e) = {} /\ Left(e)' = {}
  BY DEF Left
<1>4. CASE handler[e].pos = Len(Payload[e])
  <2>1. handler'[e].pc = "replied"
    BY <1>0, <1>4 DEF Advance, HandlerState
  <2>2. Left(e)' = {}
    BY <2>1 DEF Left, Serving
  <2>3. LaneOf[e] = "span" => Left(e) = {handler[e].pos}
    BY <1>0, <1>2, <1>4
  <2> QED
    BY <1>1, <1>2, <1>3, <2>1, <2>2, <2>3
<1>5. CASE handler[e].pos # Len(Payload[e])
  <2>1. handler'[e].pc = "offer" /\ handler'[e].pos = handler[e].pos + 1
    BY <1>0, <1>5 DEF Advance, HandlerState
  <2>2. LaneOf[e] = "span" => Left(e)' = (handler[e].pos + 1) .. Len(Payload[e])
    BY <2>1 DEF Left, Serving
  <2>3. LaneOf[e] = "span" => Left(e)' = Left(e) \ {handler[e].pos}
    BY <1>0, <1>2, <2>2
  <2> QED
    BY <1>1, <1>2, <1>3, <2>1, <2>3
<1> QED
  BY <1>4, <1>5

(* How Pending follows the positions of one exporter. *)
LEMMA PendingMember ==
  ASSUME NEW e, NEW i
  PROVE  <<e, i>> \in Pending <=> e \in Exporter /\ i \in Left(e)
BY DEF Pending

(* Nothing settled, nothing accepted: *)
LEMMA PendingSame ==
  ASSUME \A d \in Exporter : Left(d)' = Left(d)
  PROVE  Pending' = Pending
BY DEF Pending

(* one span settled: *)
LEMMA PendingShrinks ==
  ASSUME SettledInv, NEW e \in Exporter, NEW i \in Left(e),
         \A d \in Exporter \ {e} : Left(d)' = Left(d),
         Left(e)' = Left(e) \ {i}
  PROVE  /\ IsFiniteSet(Pending')
         /\ Cardinality(Pending) \in Nat /\ Cardinality(Pending') \in Nat
         /\ Cardinality(Pending') = Cardinality(Pending) - 1
<1>1. Pending' = Pending \ {<<e, i>>}
  <2>1. Pending' \subseteq Pending \ {<<e, i>>}
    BY DEF Pending
  <2>2. Pending \ {<<e, i>>} \subseteq Pending'
    BY DEF Pending
  <2> QED
    BY <2>1, <2>2
<1>2. <<e, i>> \in Pending
  BY PendingMember
<1>3. IsFiniteSet(Pending)
  BY DEF SettledInv
<1>4. /\ IsFiniteSet(Pending')
      /\ Cardinality(Pending') = Cardinality(Pending) - 1
  BY <1>1, <1>2, <1>3, FS_RemoveElement
<1> QED
  BY <1>3, <1>4, FS_CardinalityType

(* The spans of one payload, as members of Pending. *)
LEMMA PayloadSpans ==
  ASSUME NEW e \in Exporter
  PROVE  /\ IsFiniteSet({e} \X (1 .. Len(Payload[e])))
         /\ Cardinality({e} \X (1 .. Len(Payload[e]))) = Len(Payload[e])
         /\ Len(Payload[e]) \in Nat
<1>1. Len(Payload[e]) \in Nat
  BY PayloadAssumption
<1>2. /\ IsFiniteSet(1 .. Len(Payload[e]))
      /\ Cardinality(1 .. Len(Payload[e])) = Len(Payload[e])
  <2>1. /\ 1 \in Int /\ Len(Payload[e]) \in Int
        /\ (IF 1 > Len(Payload[e]) THEN 0 ELSE Len(Payload[e]) - 1 + 1)
             = Len(Payload[e])
    BY <1>1
  <2> QED
    BY <2>1, FS_Interval
<1>3. IsFiniteSet({e}) /\ Cardinality({e}) = 1
  BY FS_Singleton
<1>4. /\ IsFiniteSet({e} \X (1 .. Len(Payload[e])))
      /\ Cardinality({e} \X (1 .. Len(Payload[e])))
           = Cardinality({e}) * Cardinality(1 .. Len(Payload[e]))
  BY <1>2, <1>3, FS_Product
<1> QED
  BY <1>1, <1>2, <1>3, <1>4

(* an export accepted: *)
LEMMA PendingGrows ==
  ASSUME SettledInv, NEW e \in Exporter,
         \A d \in Exporter \ {e} : Left(d)' = Left(d),
         Left(e) = {}, Left(e)' = 1 .. Len(Payload[e])
  PROVE  /\ IsFiniteSet(Pending')
         /\ Cardinality(Pending) \in Nat /\ Cardinality(Pending') \in Nat
         /\ Cardinality(Pending') = Cardinality(Pending) + Len(Payload[e])
<1> DEFINE new == {e} \X (1 .. Len(Payload[e]))
<1>1. Pending' = Pending \cup new
  <2>1. Pending' \subseteq Pending \cup new
    BY DEF Pending
  <2>2. Pending \cup new \subseteq Pending'
    BY DEF Pending
  <2> QED
    BY <2>1, <2>2
<1>2. Pending \cap new = {}
  BY PendingMember
<1>3. IsFiniteSet(Pending) /\ IsFiniteSet(new)
      /\ Cardinality(new) = Len(Payload[e]) /\ Len(Payload[e]) \in Nat
  BY PayloadSpans DEF SettledInv
<1>4. /\ IsFiniteSet(Pending \cup new)
      /\ Cardinality(Pending \cup new)
           = Cardinality(Pending) + Cardinality(new) - Cardinality(Pending \cap new)
  BY <1>3, FS_Union
<1>5. Cardinality(Pending \cap new) = 0
  BY <1>2, FS_EmptySet
<1>6. Cardinality(Pending) \in Nat
  BY <1>3, FS_CardinalityType
<1> HIDE DEF new
<1> QED
  BY <1>1, <1>3, <1>4, <1>5, <1>6

(* and an export refused, with what was left of it. *)
LEMMA PendingDropped ==
  ASSUME TypeInv, SettledInv, NEW e \in Exporter, Serving(e),
         \A d \in Exporter \ {e} : Left(d)' = Left(d),
         Left(e)' = {}
  PROVE  /\ IsFiniteSet(Pending')
         /\ Cardinality(Pending) \in Nat /\ Cardinality(Pending') \in Nat
         /\ Cardinality(Pending') <= Cardinality(Pending)
         /\ Cardinality(Pending) <= Cardinality(Pending') + Len(Payload[e])
<1> DEFINE old == {e} \X (1 .. Len(Payload[e]))
<1>1. Left(e) \subseteq 1 .. Len(Payload[e])
  BY PayloadAssumption DEF Left, TypeInv
<1>2. Pending' = Pending \ old
  <2>1. Pending' \subseteq Pending \ old
    BY DEF Pending
  <2>2. Pending \ old \subseteq Pending'
    BY <1>1 DEF Pending
  <2> QED
    BY <2>1, <2>2
<1>3. IsFiniteSet(Pending) /\ IsFiniteSet(old)
      /\ Cardinality(old) = Len(Payload[e]) /\ Len(Payload[e]) \in Nat
  BY PayloadSpans DEF SettledInv
<1>4. /\ IsFiniteSet(Pending \ old)
      /\ Cardinality(Pending \ old) = Cardinality(Pending) - Cardinality(Pending \cap old)
  BY <1>3, FS_Difference
<1>5. /\ Cardinality(Pending \cap old) <= Cardinality(old)
      /\ IsFiniteSet(Pending \cap old)
  <2>1. Pending \cap old \in SUBSET old
    OBVIOUS
  <2> QED
    BY <1>3, <2>1, FS_Subset
<1>6. /\ Cardinality(Pending) \in Nat /\ Cardinality(Pending \cap old) \in Nat
      /\ Cardinality(Pending \ old) \in Nat
  BY <1>3, <1>4, <1>5, FS_CardinalityType
<1> HIDE DEF old
<1> QED
  BY <1>2, <1>3, <1>4, <1>5, <1>6

(* The handlers' places move one exporter at a time. *)
LEMMA CountingKept ==
  ASSUME \A d \in Exporter : handler'[d].pc = "count" <=> handler[d].pc = "count"
  PROVE  Counting' = Counting
BY DEF Counting

(* The counters that a lane's steps change. *)
LEMMA LaneCounters ==
  ASSUME NEW l \in Lane
  PROVE  /\ Accepted[l] \in Counter /\ Dropped[l] \in Counter /\ Written[l] \in Counter
         /\ {Accepted[l], Dropped[l]}
              \cap {"queued", "written", "writeErrors", "droppedRate", "spansRejected"} = {}
         /\ l = "span" => /\ Accepted[l] = "spansAccepted"
                          /\ Dropped[l] = "droppedQueue"
                          /\ Written[l] = "written"
         /\ l # "span" => /\ Accepted[l] = "metricsAccepted"
                          /\ Dropped[l] = "metricsDropped"
                          /\ Written[l] = "metricsWritten"
BY DEF Lane, Accepted, Dropped, Written, Counter

(* An item that Run moves is neither queued nor batched twice. *)
LEMMA MovedLengths ==
  ASSUME TypeInv, NEW l \in Lane, Moved(l)
  PROVE  stats' = stats => Known' = Known
<1>0. /\ queue \in [Lane -> Seq(Item)] /\ batch \in [Lane -> Seq(Item)]
      /\ "span" \in Lane
      /\ Len(queue[l]) \in Nat /\ Len(batch[l]) \in Nat
      /\ stats["written"] \in Nat
  BY DEF TypeInv, TypeOK, Lane, Counter
<1>1. Head(queue[l]) \in Item /\ Len(Tail(queue[l])) = Len(queue[l]) - 1
  BY <1>0, ItemsHeadTail DEF Moved
<1>2. Len(Append(batch[l], Head(queue[l]))) = Len(batch[l]) + 1
  BY <1>0, <1>1, ItemsAppend
<1>3. CASE l = "span"
  <2>1. /\ queue'["span"] = Tail(queue["span"])
        /\ batch'["span"] = Append(batch["span"], Head(queue["span"]))
    BY <1>0, <1>3 DEF Moved
  <2>2. /\ Len(queue'["span"]) = Len(queue["span"]) - 1
        /\ Len(batch'["span"]) = Len(batch["span"]) + 1
    BY <1>1, <1>2, <1>3, <2>1
  <2>3. /\ Len(queue["span"]) \in Nat /\ Len(batch["span"]) \in Nat
        /\ stats["written"] \in Nat
    BY CountersTyped
  <2>4. ASSUME stats' = stats PROVE stats'["written"] = stats["written"]
    BY <2>4
  <2>5. ASSUME stats'["written"] = stats["written"] PROVE Known' = Known
    <3>1. \A w, q, b \in Nat : w + (q - 1) + (b + 1) = w + q + b
      OBVIOUS
    <3>2. stats["written"] + (Len(queue["span"]) - 1) + (Len(batch["span"]) + 1)
            = stats["written"] + Len(queue["span"]) + Len(batch["span"])
      BY <2>3, <3>1
    <3> QED
      BY <2>2, <2>5, <3>2 DEF Known
  <2> QED
    BY <2>4, <2>5
<1>4. CASE l # "span"
  <2>1. queue'["span"] = queue["span"] /\ batch'["span"] = batch["span"]
    BY <1>0, <1>4 DEF Moved
  <2> QED
    BY <2>1 DEF Known
<1> QED
  BY <1>3, <1>4

(* A step that neither sends, counts nor writes a span. *)
LEMMA SentKept ==
  ASSUME SentInv, Counting' = Counting, Known' = Known,
         stats'["queued"] = stats["queued"],
         stats'["writeErrors"] = stats["writeErrors"]
  PROVE  SentInv'
<1>1. Sent' = Sent
  BY DEF Sent
<1> QED
  BY <1>1 DEF SentInv

(* The steps of a handler between the send and its count. *)
LEMMA HandleSent ==
  ASSUME TypeInv, SentInv, NEW e \in Exporter, Handle(e)
  PROVE  SentInv'
<1>0. /\ stats \in [Counter -> Nat] /\ handler \in [Exporter -> HandlerState]
      /\ {"queued", "written", "droppedRate", "spansRejected", "writeErrors"}
           \subseteq Counter
      /\ stats["queued"] \in Nat /\ stats["written"] \in Nat
      /\ Len(queue["span"]) \in Nat /\ Len(batch["span"]) \in Nat
      /\ Known \in Nat
      /\ LaneOf[e] \in Lane /\ "span" \in Lane /\ queue \in [Lane -> Seq(Item)]
  BY CountersTyped, LaneAssumption DEF TypeInv, TypeOK, Lane
<1>1. IsFiniteSet(Counting) /\ Cardinality(Counting) \in Nat
  BY FS_CardinalityType DEF SentInv
<1>2. ASSUME Serving(e), NEW done, Advance(e, done), handler[e].pc = "offer",
             NEW c \in Counter \ {"queued", "written", "writeErrors"}, Bump(c, 1),
             UNCHANGED <<queue, batch>>
      PROVE  SentInv'
  <2>1. \A d \in Exporter : handler'[d].pc = "count" <=> handler[d].pc = "count"
    BY <1>2, AdvanceSettles
  <2>2. /\ stats'["queued"] = stats["queued"]
        /\ stats'["written"] = stats["written"]
        /\ stats'["writeErrors"] = stats["writeErrors"]
    BY <1>0, <1>2, BumpValues
  <2>3. Known' = Known
    BY <1>2, <2>2 DEF Known
  <2> QED
    BY <2>1, <2>2, <2>3, CountingKept, SentKept
<1>3. CASE RateLimited(e)
  <2>1. "droppedRate" \in Counter \ {"queued", "written", "writeErrors"}
    BY DEF Counter
  <2> QED
    BY <1>2, <1>3, <2>1 DEF RateLimited, Offering, Serving
<1>4. CASE QueueFull(e)
  <2>1. Dropped[LaneOf[e]] \in Counter \ {"queued", "written", "writeErrors"}
    BY <1>0, LaneCounters
  <2> QED
    BY <1>2, <1>4, <2>1 DEF QueueFull, Admitted, Offering, Serving
<1>5. CASE ContextDone(e)
  <2> DEFINE n == IF LaneOf[e] = "span" THEN Len(Payload[e]) ELSE 0
  <2>1. /\ handler[e].pc = "offer"
        /\ handler' = [handler EXCEPT ![e].pc = "refused"]
        /\ Bump("spansRejected", n) /\ n \in Nat
        /\ UNCHANGED <<queue, batch>>
    BY <1>5, PayloadAssumption DEF ContextDone, Admitted, Offering
  <2>2. \A d \in Exporter : handler'[d].pc = "count" <=> handler[d].pc = "count"
    BY <1>0, <2>1 DEF HandlerState
  <2>3. /\ stats'["queued"] = stats["queued"]
        /\ stats'["written"] = stats["written"]
        /\ stats'["writeErrors"] = stats["writeErrors"]
    BY <1>0, <2>1, BumpValues
  <2>4. Known' = Known
    BY <2>1, <2>3 DEF Known
  <2> QED
    BY <2>2, <2>3, <2>4, CountingKept, SentKept
<1>6. CASE Enqueue(e)
  <2>1. /\ Serving(e) /\ handler[e].pc = "offer" /\ Current(e) \in Item
        /\ UNCHANGED <<batch, stats>>
        /\ queue' = [queue EXCEPT ![LaneOf[e]] = Append(@, Current(e))]
    BY <1>6, CurrentType DEF Enqueue, Admitted, Offering, Serving
  <2>2. CASE LaneOf[e] = "span"
    <3>1. handler' = [handler EXCEPT ![e].pc = "count"]
      BY <1>6, <2>2 DEF Enqueue
    <3>2. handler'[e].pc = "count"
          /\ \A d \in Exporter \ {e} : handler'[d] = handler[d]
      BY <1>0, <3>1 DEF HandlerState
    <3>3. Counting' = Counting \cup {e} /\ e \notin Counting
      BY <2>1, <3>2 DEF Counting
    <3>4. IsFiniteSet(Counting') /\ Cardinality(Counting') = Cardinality(Counting) + 1
      BY <1>1, <3>3, FS_AddElement
    <3>5. Len(queue'["span"]) = Len(queue["span"]) + 1
      <4>1. queue["span"] \in Seq(Item)
        BY <1>0
      <4>2. queue'["span"] = Append(queue["span"], Current(e))
        BY <1>0, <2>1, <2>2
      <4> QED
        BY <2>1, <4>1, <4>2, ItemsAppend
    <3>6. Known' = Known + 1
      <4>1. stats["written"] \in Nat /\ Len(queue["span"]) \in Nat
            /\ Len(batch["span"]) \in Nat
        BY <1>0
      <4>2. stats' = stats /\ batch' = batch
        BY <2>1
      <4> QED
        BY <3>5, <4>1, <4>2 DEF Known
    <3>7. Sent' = Sent + 1 /\ Sent \in Nat
      <4>1. stats["queued"] \in Nat /\ stats' = stats
        BY <1>0, <2>1
      <4> QED
        BY <1>1, <3>4, <4>1 DEF Sent
    <3>8. \A d \in Counting' : LaneOf[d] = "span"
      BY <2>2, <3>3 DEF SentInv
    <3> QED
      BY <1>0, <2>1, <3>4, <3>6, <3>7, <3>8 DEF SentInv
  <2>3. CASE LaneOf[e] # "span"
    <3>1. Advance(e, fate)
      BY <1>6, <2>3 DEF Enqueue
    <3>2. \A d \in Exporter : handler'[d].pc = "count" <=> handler[d].pc = "count"
      BY <2>1, <3>1, AdvanceSettles
    <3>3. queue'["span"] = queue["span"]
      BY <1>0, <2>1, <2>3
    <3>4. Known' = Known
      BY <2>1, <3>3 DEF Known
    <3> QED
      BY <2>1, <3>2, <3>4, CountingKept, SentKept
  <2> QED
    BY <2>2, <2>3
<1>7. CASE CountQueued(e)
  <2>1. /\ handler[e].pc = "count" /\ Serving(e) /\ Advance(e, fate)
        /\ Bump("queued", 1) /\ UNCHANGED <<queue, batch>>
    BY <1>7 DEF CountQueued, Serving
  <2>2. Counting' = Counting \ {e} /\ e \in Counting
    BY <2>1, AdvanceSettles DEF Counting
  <2>3. IsFiniteSet(Counting') /\ Cardinality(Counting') = Cardinality(Counting) - 1
    BY <1>1, <2>2, FS_RemoveElement
  <2>4. /\ stats'["queued"] = stats["queued"] + 1
        /\ stats'["written"] = stats["written"]
        /\ stats'["writeErrors"] = stats["writeErrors"]
    BY <1>0, <2>1, BumpValues
  <2>5. Known' = Known
    BY <2>1, <2>4 DEF Known
  <2>6. Sent' = Sent
    BY <1>0, <1>1, <2>3, <2>4 DEF Sent
  <2> QED
    BY <2>2, <2>3, <2>4, <2>5, <2>6 DEF SentInv
<1> QED
  BY <1>3, <1>4, <1>5, <1>6, <1>7 DEF Handle

(* The steps of Run: moving an item changes no sum, and a batch that is    *)
(* written leaves as many written spans behind, or an error.               *)
LEMMA RunSent ==
  ASSUME TypeInv, SentInv, Run
  PROVE  SentInv'
<1>0. /\ stats \in [Counter -> Nat] /\ batch \in [Lane -> Seq(Item)]
      /\ {"queued", "written", "writeErrors"} \subseteq Counter
      /\ stats["queued"] \in Nat /\ stats["written"] \in Nat
      /\ stats["writeErrors"] \in Nat
      /\ Len(queue["span"]) \in Nat /\ Len(batch["span"]) \in Nat
      /\ Known \in Nat /\ "span" \in Lane
  BY CountersTyped DEF TypeInv, TypeOK, Lane, Counter
<1>1. Sent \in Nat
  <2>1. stats["queued"] \in Nat
    BY <1>0
  <2>2. Cardinality(Counting) \in Nat
    BY FS_CardinalityType DEF SentInv
  <2> QED
    BY <2>1, <2>2 DEF Sent
<1>2. handler' = handler
  BY DEF Run, Receive, Tick, StartDrain, DrainItem, DrainEnds, Write, Flushed
<1>3. Counting' = Counting
  BY <1>2 DEF Counting
<1>4. ASSUME NEW l \in Lane, Moved(l), UNCHANGED stats PROVE SentInv'
  BY <1>3, <1>4, MovedLengths, SentKept
<1>5. ASSUME NEW l \in Lane, Receive(l) PROVE SentInv'
  BY <1>4, <1>5 DEF Receive, Moved
<1>6. CASE DrainItem
  BY <1>4, <1>6, FirstType DEF DrainItem, Moved
<1>7. CASE Tick \/ StartDrain \/ DrainEnds \/ Flushed
  <2>1. UNCHANGED <<queue, batch, stats>>
    BY <1>7 DEF Tick, StartDrain, DrainEnds, Flushed
  <2>2. Known' = Known
    BY <2>1 DEF Known
  <2> QED
    BY <1>3, <2>1, <2>2, SentKept
<1>8. CASE Write
  <2> DEFINE l == First(runner.todo)
  <2>1. /\ l \in Lane /\ UNCHANGED queue
        /\ batch' = [batch EXCEPT ![l] = <<>>]
        /\ Bump(Written[l], Len(batch[l])) \/ Bump("writeErrors", 1)
    BY <1>8, FirstType DEF Write
  <2>2. /\ l = "span" => Len(batch'["span"]) = 0
        /\ l # "span" => batch'["span"] = batch["span"]
    BY <1>0, <2>1
  <2>3. Len(batch[l]) \in Nat
    BY <1>0, <2>1
  <2> HIDE DEF l
  <2>4. CASE Bump(Written[l], Len(batch[l]))
    <3>1. CASE l = "span"
      <4>1. /\ stats'["written"] = stats["written"] + Len(batch["span"])
            /\ stats'["queued"] = stats["queued"]
            /\ stats'["writeErrors"] = stats["writeErrors"]
        BY <1>0, <2>3, <2>4, <3>1, LaneCounters, BumpValues
      <4>2. Known' = Known
        BY <1>0, <2>1, <2>2, <3>1, <4>1 DEF Known
      <4> QED
        BY <1>3, <4>1, <4>2, SentKept
    <3>2. CASE l # "span"
      <4>1. /\ stats'["written"] = stats["written"]
            /\ stats'["queued"] = stats["queued"]
            /\ stats'["writeErrors"] = stats["writeErrors"]
        BY <1>0, <2>1, <2>3, <2>4, <3>2, LaneCounters, BumpValues
      <4>2. Known' = Known
        BY <2>1, <2>2, <3>2, <4>1 DEF Known
      <4> QED
        BY <1>3, <4>1, <4>2, SentKept
    <3> QED
      BY <3>1, <3>2
  <2>5. CASE Bump("writeErrors", 1)
    <3>1. /\ stats'["written"] = stats["written"]
          /\ stats'["queued"] = stats["queued"]
          /\ stats'["writeErrors"] = stats["writeErrors"] + 1
      BY <1>0, <2>5, BumpValues
    <3>2. Known' <= Known /\ Known' \in Nat
      <4>1. stats["written"] \in Nat /\ Len(queue["span"]) \in Nat
            /\ Len(batch["span"]) \in Nat
        BY <1>0
      <4>2. Len(batch'["span"]) = 0 \/ Len(batch'["span"]) = Len(batch["span"])
        BY <2>2
      <4>3. queue' = queue
        BY <2>1
      <4> QED
        BY <3>1, <4>1, <4>2, <4>3 DEF Known
    <3>3. Sent' = Sent
      BY <1>3, <3>1 DEF Sent
    <3> QED
      BY <1>0, <1>1, <1>3, <3>1, <3>2, <3>3 DEF SentInv
  <2> QED
    BY <2>1, <2>4, <2>5
<1> QED
  BY <1>5, <1>6, <1>7, <1>8 DEF Run

(* Every step preserves SentInv. *)
LEMMA NextSent ==
  ASSUME TypeInv, SentInv, [Next]_vars
  PROVE  SentInv'
<1>0. /\ stats \in [Counter -> Nat] /\ handler \in [Exporter -> HandlerState]
      /\ {"queued", "written", "writeErrors"} \subseteq Counter
  BY CountersTyped DEF TypeInv, TypeOK
<1>1. ASSUME NEW e \in Exporter, Export(e) PROVE SentInv'
  <2>1. /\ Accepted[LaneOf[e]] \in Counter \ {"queued", "written", "writeErrors"}
        /\ Len(Payload[e]) \in Nat
        /\ Bump(Accepted[LaneOf[e]], Len(Payload[e]))
        /\ UNCHANGED <<queue, batch>>
    BY <1>1, LaneAssumption, PayloadAssumption, LaneCounters DEF Export
  <2>2. \A d \in Exporter : handler'[d].pc = "count" <=> handler[d].pc = "count"
    BY <1>0, <1>1 DEF Export, HandlerState
  <2>3. /\ stats'["written"] = stats["written"]
        /\ stats'["queued"] = stats["queued"]
        /\ stats'["writeErrors"] = stats["writeErrors"]
    BY <1>0, <2>1, BumpValues
  <2>4. Known' = Known
    BY <2>1, <2>3 DEF Known
  <2> QED
    BY <2>2, <2>3, <2>4, CountingKept, SentKept
<1>2. ASSUME UNCHANGED <<queue, batch, stats>>,
             \A d \in Exporter : handler'[d].pc = "count" <=> handler[d].pc = "count"
      PROVE  SentInv'
  <2>1. Known' = Known
    BY <1>2 DEF Known
  <2> QED
    BY <1>2, <2>1, CountingKept, SentKept
<1>3. ASSUME NEW e \in Exporter, ClientGone(e) PROVE SentInv'
  BY <1>0, <1>2, <1>3 DEF ClientGone, HandlerState
<1>4. ASSUME NEW e \in Exporter, Retry(e) PROVE SentInv'
  BY <1>0, <1>2, <1>4 DEF Retry, HandlerState
<1>5. CASE Refill \/ Cancel \/ StopGRPC \/ StopReceiver \/ UNCHANGED vars
  BY <1>2, <1>5 DEF Refill, Cancel, StopGRPC, StopReceiver, vars
<1>6. CASE StopHTTP
  BY <1>0, <1>2, <1>6 DEF StopHTTP, HandlerState
<1> QED
  BY <1>1, <1>3, <1>4, <1>5, <1>6, HandleSent, RunSent DEF Next, Shutdown

(* A step that settles no span and accepts none. *)
LEMMA SettledKept ==
  ASSUME SettledInv, \A d \in Exporter : Left(d)' = Left(d),
         \A c \in {"queued", "droppedQueue", "droppedRate", "spansAccepted",
                   "spansRejected"} : stats'[c] = stats[c]
  PROVE  SettledInv'
<1>1. Pending' = Pending
  BY PendingSame
<1>2. Settled' = Settled
  BY DEF Settled
<1> QED
  BY <1>1, <1>2 DEF SettledInv

(* Advance after one more span was queued or dropped. *)
LEMMA AdvanceSettled ==
  ASSUME TypeInv, SettledInv, NEW e \in Exporter, Serving(e), LaneOf[e] = "span",
         NEW done, Advance(e, done),
         NEW c \in {"queued", "droppedQueue", "droppedRate"}, Bump(c, 1)
  PROVE  SettledInv'
<1>0. /\ stats \in [Counter -> Nat]
      /\ {"queued", "droppedQueue", "droppedRate", "spansAccepted", "spansRejected"}
           \subseteq Counter
      /\ stats["queued"] \in Nat /\ stats["droppedQueue"] \in Nat
      /\ stats["droppedRate"] \in Nat
      /\ stats["spansAccepted"] \in Nat /\ stats["spansRejected"] \in Nat
  BY CountersTyped
<1>1. \A d \in Exporter \ {e} : Left(d)' = Left(d)
  BY AdvanceSettles, LeftKept
<1>2. /\ IsFiniteSet(Pending')
      /\ Cardinality(Pending) \in Nat /\ Cardinality(Pending') \in Nat
      /\ Cardinality(Pending') = Cardinality(Pending) - 1
  BY <1>1, AdvanceSettles, PendingShrinks
<1>3. /\ stats'[c] = stats[c] + 1
      /\ \A d \in {"queued", "droppedQueue", "droppedRate", "spansAccepted",
                   "spansRejected"} : d # c => stats'[d] = stats[d]
  BY <1>0, BumpValues
<1>4. Settled' = Settled + 1 /\ Settled \in Nat
  <2>1. CASE c = "queued"
    BY <1>0, <1>3, <2>1 DEF Settled
  <2>2. CASE c = "droppedQueue"
    BY <1>0, <1>3, <2>2 DEF Settled
  <2>3. CASE c = "droppedRate"
    BY <1>0, <1>3, <2>3 DEF Settled
  <2> QED
    BY <2>1, <2>2, <2>3
<1>5. /\ stats'["spansAccepted"] = stats["spansAccepted"]
      /\ stats'["spansRejected"] = stats["spansRejected"]
  BY <1>3
<1>6. stats["spansAccepted"] \in Nat /\ stats["spansRejected"] \in Nat
  BY <1>0
<1> QED
  BY <1>2, <1>4, <1>5, <1>6 DEF SettledInv

(* Exports of metrics settle no span. *)
LEMMA MetricsLeaveSpans ==
  ASSUME SettledInv, NEW e \in Exporter, LaneOf[e] # "span",
         \A d \in Exporter \ {e} : handler'[d] = handler[d],
         \A c \in {"queued", "droppedQueue", "droppedRate", "spansAccepted",
                   "spansRejected"} : stats'[c] = stats[c]
  PROVE  SettledInv'
<1>1. Left(e)' = {} /\ Left(e) = {}
  BY DEF Left
<1>2. \A d \in Exporter : Left(d)' = Left(d)
  BY <1>1, LeftKept
<1> QED
  BY <1>2, SettledKept

(* The steps of a handler preserve SettledInv, *)
LEMMA HandleSettled ==
  ASSUME TypeInv, SentInv, SettledInv, NEW e \in Exporter, Handle(e)
  PROVE  SettledInv'
<1> DEFINE Watched == {"queued", "droppedQueue", "droppedRate", "spansAccepted",
                       "spansRejected"}
<1>0. /\ stats \in [Counter -> Nat] /\ handler \in [Exporter -> HandlerState]
      /\ Watched \subseteq Counter
      /\ LaneOf[e] \in Lane
  BY CountersTyped, LaneAssumption DEF TypeInv, TypeOK
<1>1. CASE RateLimited(e)
  BY <1>1, AdvanceSettled DEF RateLimited, Offering, Limited, Serving
<1>2. CASE QueueFull(e)
  <2>1. /\ Serving(e) /\ Bump(Dropped[LaneOf[e]], 1)
        /\ \E done : Advance(e, done)
    BY <1>2 DEF QueueFull, Admitted, Offering, Serving
  <2>2. CASE LaneOf[e] = "span"
    <3>1. Dropped[LaneOf[e]] = "droppedQueue"
      BY <1>0, <2>2, LaneCounters
    <3> QED
      BY <2>1, <2>2, <3>1, AdvanceSettled
  <2>3. CASE LaneOf[e] # "span"
    <3>1. Dropped[LaneOf[e]] = "metricsDropped" /\ Dropped[LaneOf[e]] \in Counter
      BY <1>0, <2>3, LaneCounters
    <3>2. \A c \in Watched : stats'[c] = stats[c]
      BY <1>0, <2>1, <3>1, BumpValues
    <3>3. \A d \in Exporter \ {e} : handler'[d] = handler[d]
      BY <2>1, AdvanceSettles
    <3> QED
      BY <2>3, <3>2, <3>3, MetricsLeaveSpans
  <2> QED
    BY <2>2, <2>3
<1>3. CASE CountQueued(e)
  <2>1. /\ handler[e].pc = "count" /\ Serving(e) /\ Advance(e, fate)
        /\ Bump("queued", 1)
    BY <1>3 DEF CountQueued, Serving
  <2>2. LaneOf[e] = "span"
    BY <2>1 DEF SentInv, Counting
  <2> QED
    BY <2>1, <2>2, AdvanceSettled
<1>4. CASE Enqueue(e)
  <2>1. Serving(e) /\ handler[e].pc = "offer" /\ UNCHANGED stats
    BY <1>4 DEF Enqueue, Admitted, Offering, Serving
  <2>2. CASE LaneOf[e] = "span"
    <3>1. handler' = [handler EXCEPT ![e].pc = "count"]
      BY <1>4, <2>2 DEF Enqueue
    <3>2. /\ handler'[e].pc = "count" /\ handler'[e].pos = handler[e].pos
          /\ \A d \in Exporter \ {e} : handler'[d] = handler[d]
      BY <1>0, <3>1 DEF HandlerState
    <3>3. Left(e)' = Left(e)
      BY <2>1, <3>2 DEF Left, Serving
    <3>4. \A d \in Exporter : Left(d)' = Left(d)
      BY <3>2, <3>3, LeftKept
    <3> QED
      BY <2>1, <3>4, SettledKept
  <2>3. CASE LaneOf[e] # "span"
    <3>1. Advance(e, fate)
      BY <1>4, <2>3 DEF Enqueue
    <3>2. \A d \in Exporter \ {e} : handler'[d] = handler[d]
      BY <2>1, <3>1, AdvanceSettles
    <3> QED
      BY <2>1, <2>3, <3>2, MetricsLeaveSpans
  <2> QED
    BY <2>2, <2>3
<1>5. CASE ContextDone(e)
  <2> DEFINE n == IF LaneOf[e] = "span" THEN Len(Payload[e]) ELSE 0
  <2>1. /\ Serving(e)
        /\ handler' = [handler EXCEPT ![e].pc = "refused"]
        /\ Bump("spansRejected", n) /\ n \in Nat /\ Len(Payload[e]) \in Nat
    BY <1>5, PayloadAssumption DEF ContextDone, Admitted, Offering, Serving
  <2>2. /\ \A d \in Exporter \ {e} : handler'[d] = handler[d]
        /\ handler'[e].pc = "refused"
    BY <1>0, <2>1 DEF HandlerState
  <2>3. /\ stats'["spansRejected"] = stats["spansRejected"] + n
        /\ \A c \in Watched \ {"spansRejected"} : stats'[c] = stats[c]
    BY <1>0, <2>1, BumpValues
  <2>4. CASE LaneOf[e] = "span"
    <3>1. Left(e)' = {} /\ \A d \in Exporter \ {e} : Left(d)' = Left(d)
      BY <2>2, LeftKept DEF Left, Serving
    <3>2. /\ IsFiniteSet(Pending')
          /\ Cardinality(Pending) \in Nat /\ Cardinality(Pending') \in Nat
          /\ Cardinality(Pending') <= Cardinality(Pending)
          /\ Cardinality(Pending) <= Cardinality(Pending') + Len(Payload[e])
      BY <2>1, <3>1, PendingDropped
    <3>3. Settled' = Settled
      BY <2>3 DEF Settled
    <3>4. /\ stats'["spansRejected"] = stats["spansRejected"] + Len(Payload[e])
          /\ stats'["spansAccepted"] = stats["spansAccepted"]
          /\ Len(Payload[e]) \in Nat
      BY <2>1, <2>3, <2>4
    <3>5. /\ stats["spansAccepted"] \in Nat /\ stats["spansRejected"] \in Nat
          /\ Settled \in Nat
      BY CountersTyped
    <3> QED
      BY <3>2, <3>3, <3>4, <3>5 DEF SettledInv
  <2>5. CASE LaneOf[e] # "span"
    <3>1. stats["spansRejected"] \in Nat
      BY CountersTyped
    <3>2. stats'["spansRejected"] = stats["spansRejected"]
      BY <2>3, <2>5, <3>1
    <3>3. \A c \in Watched : stats'[c] = stats[c]
      BY <2>3, <3>2
    <3> QED
      BY <2>2, <2>5, <3>3, MetricsLeaveSpans
  <2> QED
    BY <2>4, <2>5
<1> QED
  BY <1>1, <1>2, <1>3, <1>4, <1>5 DEF Handle

(* and so do all others. *)
LEMMA NextSettled ==
  ASSUME TypeInv, SentInv, SettledInv, [Next]_vars
  PROVE  SettledInv'
<1> DEFINE Watched == {"queued", "droppedQueue", "droppedRate", "spansAccepted",
                       "spansRejected"}
<1>0. /\ stats \in [Counter -> Nat] /\ handler \in [Exporter -> HandlerState]
      /\ Watched \subseteq Counter
  BY CountersTyped DEF TypeInv, TypeOK
<1>1. ASSUME NEW e \in Exporter, Export(e) PROVE SettledInv'
  <2>1. /\ LaneOf[e] \in Lane /\ Len(Payload[e]) \in Nat
        /\ Bump(Accepted[LaneOf[e]], Len(Payload[e]))
        /\ handler[e].pc = "ready"
    BY <1>1, LaneAssumption, PayloadAssumption DEF Export
  <2>2. /\ handler'[e].pc = "offer" /\ handler'[e].pos = 1
        /\ \A d \in Exporter \ {e} : handler'[d] = handler[d]
    BY <1>0, <1>1 DEF Export, HandlerState
  <2>3. CASE LaneOf[e] = "span"
    <3>1. Accepted[LaneOf[e]] = "spansAccepted"
      BY <2>1, <2>3, LaneCounters
    <3>2. /\ stats'["spansAccepted"] = stats["spansAccepted"] + Len(Payload[e])
          /\ \A c \in Watched \ {"spansAccepted"} : stats'[c] = stats[c]
      BY <1>0, <2>1, <3>1, BumpValues
    <3>3. /\ Left(e) = {} /\ Left(e)' = 1 .. Len(Payload[e])
          /\ \A d \in Exporter \ {e} : Left(d)' = Left(d)
      BY <2>1, <2>2, <2>3, LeftKept DEF Left, Serving
    <3>4. /\ IsFiniteSet(Pending')
          /\ Cardinality(Pending) \in Nat /\ Cardinality(Pending') \in Nat
          /\ Cardinality(Pending') = Cardinality(Pending) + Len(Payload[e])
      BY <3>3, PendingGrows
    <3>5. Settled' = Settled /\ stats'["spansRejected"] = stats["spansRejected"]
      BY <3>2 DEF Settled
    <3>6. /\ stats["spansAccepted"] \in Nat /\ stats["spansRejected"] \in Nat
          /\ Settled \in Nat /\ Len(Payload[e]) \in Nat
      BY <2>1, CountersTyped
    <3>7. stats'["spansAccepted"] = stats["spansAccepted"] + Len(Payload[e])
      BY <3>2
    <3> QED
      BY <3>4, <3>5, <3>6, <3>7 DEF SettledInv
  <2>4. CASE LaneOf[e] # "span"
    <3>1. Accepted[LaneOf[e]] = "metricsAccepted" /\ Accepted[LaneOf[e]] \in Counter
      BY <2>1, <2>4, LaneCounters
    <3>2. \A c \in Watched : stats'[c] = stats[c]
      BY <1>0, <2>1, <3>1, BumpValues
    <3> QED
      BY <2>2, <2>4, <3>2, MetricsLeaveSpans
  <2> QED
    BY <2>3, <2>4
<1>2. ASSUME \A c \in Watched : stats'[c] = stats[c],
             \A d \in Exporter : /\ handler'[d].pc = handler[d].pc
                                 /\ handler'[d].pos = handler[d].pos
      PROVE  SettledInv'
  BY <1>2, LeftKept, SettledKept
<1>3. ASSUME NEW e \in Exporter, ClientGone(e) PROVE SettledInv'
  BY <1>0, <1>2, <1>3 DEF ClientGone, HandlerState
<1>4. ASSUME NEW e \in Exporter, Retry(e) PROVE SettledInv'
  <2>1. /\ handler[e].pc = "refused" /\ handler'[e].pc = "ready"
        /\ \A d \in Exporter \ {e} : handler'[d] = handler[d]
        /\ UNCHANGED stats
    BY <1>0, <1>4 DEF Retry, HandlerState
  <2>2. Left(e) = {} /\ Left(e)' = {}
    BY <2>1 DEF Left, Serving
  <2>3. \A d \in Exporter : Left(d)' = Left(d)
    BY <2>1, <2>2, LeftKept
  <2> QED
    BY <2>1, <2>3, SettledKept
<1>5. CASE Refill \/ Cancel \/ StopGRPC \/ StopReceiver \/ UNCHANGED vars
  BY <1>2, <1>5 DEF Refill, Cancel, StopGRPC, StopReceiver, vars
<1>6. CASE StopHTTP
  BY <1>0, <1>2, <1>6 DEF StopHTTP, HandlerState
<1>7. CASE Run
  <2>1. handler' = handler
    BY <1>7 DEF Run, Receive, Tick, StartDrain, DrainItem, DrainEnds, Write, Flushed
  <2>2. CASE Write
    <3>1. \E l \in Lane : Bump(Written[l], Len(batch[l])) \/ Bump("writeErrors", 1)
      BY <2>2, FirstType DEF Write
    <3>2. PICK l \in Lane : Bump(Written[l], Len(batch[l])) \/ Bump("writeErrors", 1)
      BY <3>1
    <3>3. Len(batch[l]) \in Nat
      BY DEF TypeInv, TypeOK
    <3>4. Written[l] \in Counter \ Watched /\ "writeErrors" \in Counter \ Watched
      BY DEF Written, Lane, Counter
    <3>5. \A c \in Watched : stats'[c] = stats[c]
      BY <1>0, <3>2, <3>3, <3>4, BumpValues
    <3> QED
      BY <1>2, <2>1, <3>5
  <2>3. CASE ~ Write
    <3>1. UNCHANGED stats
      BY <1>7, <2>3 DEF Run, Receive, Tick, StartDrain, DrainItem, DrainEnds, Flushed
    <3> QED
      BY <1>2, <2>1, <3>1
  <2> QED
    BY <2>2, <2>3
<1> QED
  BY <1>1, <1>3, <1>4, <1>5, <1>6, <1>7, HandleSettled DEF Next, Shutdown

(* The numbers that the receiver and the pipeline report add up, in every  *)
(* interleaving of exports, counts, writes and shutdown: what was queued   *)
(* is written, waiting or part of a failed write, and what was accepted is *)
(* queued, dropped or refused once no export is being served.              *)
THEOREM StatsReconcile == Spec => []CountersReconcile
<1>1. Init => SentInv /\ SettledInv
  <2> SUFFICES ASSUME Init PROVE SentInv /\ SettledInv
    OBVIOUS
  <2>1. Counting = {} /\ Pending = {}
    BY DEF Init, Counting, Pending, Left, Serving
  <2>2. /\ IsFiniteSet(Counting) /\ Cardinality(Counting) = 0
        /\ IsFiniteSet(Pending) /\ Cardinality(Pending) = 0
    BY <2>1, FS_EmptySet
  <2>3. \A c \in Counter : stats[c] = 0
    BY DEF Init
  <2>4. /\ stats["queued"] = 0 /\ stats["written"] = 0
        /\ stats["droppedQueue"] = 0 /\ stats["droppedRate"] = 0
        /\ stats["spansAccepted"] = 0 /\ stats["spansRejected"] = 0
    BY <2>3 DEF Counter
  <2>5. Len(queue["span"]) = 0 /\ Len(batch["span"]) = 0
    BY DEF Init, Lane
  <2>6. Sent = 0 /\ Known = 0 /\ Settled = 0
    BY <2>2, <2>4, <2>5 DEF Sent, Known, Settled
  <2> QED
    BY <2>1, <2>2, <2>4, <2>6 DEF SentInv, SettledInv
<1>2. TypeInv /\ SentInv /\ SettledInv => CountersReconcile
  <2> SUFFICES ASSUME TypeInv, SentInv, SettledInv PROVE CountersReconcile
    OBVIOUS
  <2>1. ASSUME \A e \in Exporter : ~ Serving(e)
        PROVE  /\ Settled <= stats["spansAccepted"]
               /\ stats["spansAccepted"] <= Settled + stats["spansRejected"]
    <3>1. Pending = {}
      BY <2>1 DEF Pending, Left
    <3>2. Cardinality(Pending) = 0
      BY <3>1, FS_EmptySet
    <3>3. /\ stats["spansAccepted"] \in Nat /\ stats["spansRejected"] \in Nat
          /\ Settled \in Nat
      BY CountersTyped
    <3> QED
      BY <3>2, <3>3 DEF SettledInv
  <2>2. Known <= Sent /\ (stats["writeErrors"] = 0 => Known = Sent)
    BY DEF SentInv
  <2> QED
    BY <2>1, <2>2 DEF CountersReconcile, Sent, Known, Settled, Counting
<1>3. ASSUME TypeInv, SentInv, SettledInv, [Next]_vars
      PROVE  SentInv' /\ SettledInv'
  BY <1>3, NextSent, NextSettled
<1> QED
  BY <1>1, <1>2, <1>3, SpecTypeInv, PTL DEF Spec

=============================================================================
