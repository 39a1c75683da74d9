---------------------------- MODULE AttachProofs ----------------------------
(***************************************************************************)
(* Proofs about Attach for any exchanges and users: it implements          *)
(* AttachContract, trigger files go, and a request that was given up is    *)
(* settled before a later exchange is answered.  Then about Diagnostics,   *)
(* which stores what is asked for over that protocol, for any requests,    *)
(* kinds, quota and retention.  The definitions without a prefix are those *)
(* of Attach.                                                              *)
(***************************************************************************)
EXTENDS Attach, Diagnostics, FiniteSetTheorems, TLAPS

(* An exchange that has not connected yet. *)
BeforeConnect == {"idle", "runner", "launch", "dial", "cwd", "tmp", "signal", "wait"}

Queued(x) == \E i \in DOMAIN backlog : backlog[i] = x

(* Only a live target listens or has a signal pending. *)
TargetInv == listener \/ sigquit => alive

(* A file was usable to the exchange that made it. *)
FilesInv ==
  /\ TriggersRemoved
  /\ \A path \in Path : trigger[path] # NoFile => trigger[path] \in usable

(* An exchange joins the backlog once, when it connects, and leaves it     *)
(* with an answer.                                                         *)
WireInv ==
  /\ \A x \in Exchange : pc[x] \in BeforeConnect => reply[x] = NoReply /\ ~ Queued(x)
  /\ \A x \in Exchange : Queued(x) => reply[x] = NoReply
  /\ \A x \in Exchange : pc[x] = "ok" => reply[x] # NoReply
  /\ \A i, j \in DOMAIN backlog : backlog[i] = backlog[j] => i = j

(* The exchanges that ended before x began are ahead of x in the backlog,  *)
(* and gone from it once x has its answer.                                 *)
OrderInv ==
  /\ \A x \in Exchange : \A y \in before[x] : Ended(y)
  /\ \A i, j \in DOMAIN backlog : backlog[j] \in before[backlog[i]] => j < i
  /\ \A x \in Exchange : reply[x] # NoReply => \A y \in before[x] : ~ Queued(y)

(* A reply that will be taken for success comes from a target that has     *)
(* carried the request out, or that is gone.                               *)
AnswerInv ==
  \A x \in Exchange : Accepted(op[x], reply[x]) => x \in executed \/ ~ alive

IInv == TypeOK /\ TargetInv /\ FilesInv /\ WireInv /\ OrderInv /\ AnswerInv

-----------------------------------------------------------------------------
(* The backlog as a sequence.                                              *)

(* Connecting adds one entry at the end. *)
LEMMA Appended ==
  ASSUME NEW S, NEW s \in Seq(S), NEW e \in S
  PROVE  /\ Append(s, e) \in Seq(S)
         /\ DOMAIN s = 1 .. Len(s) /\ Len(s) \in Nat
         /\ DOMAIN Append(s, e) = 1 .. Len(s) + 1
         /\ \A i \in 1 .. Len(s) : Append(s, e)[i] = s[i]
         /\ Append(s, e)[Len(s) + 1] = e
  OBVIOUS

(* Serving takes the first entry away. *)
LEMMA TailOf ==
  ASSUME NEW S, NEW s \in Seq(S), s # <<>>
  PROVE  /\ Tail(s) \in Seq(S)
         /\ DOMAIN s = 1 .. Len(s) /\ Len(s) \in Nat /\ Len(s) > 0
         /\ DOMAIN Tail(s) = 1 .. Len(s) - 1
         /\ \A i \in 1 .. Len(s) - 1 : Tail(s)[i] = s[i + 1]
         /\ Head(s) = s[1]
  OBVIOUS

(* The replies of a live target are none of "no reply yet". *)
LEMMA Replies ==
  ASSUME NEW o \in Op
  PROVE  /\ NoReply \in Reply /\ ~ Accepted(o, NoReply)
         /\ HangUp \in Reply /\ HangUp # NoReply /\ ~ Accepted(o, HangUp)
         /\ Bare("zero") \in Reply /\ Bare("zero") # NoReply
         /\ ExecutedReply(o) \subseteq Reply \ {NoReply}
         /\ RefusedReply(o) \subseteq Reply \ {NoReply}
         /\ \A r \in RefusedReply(o) : ~ Accepted(o, r)
  <1>1. NoReply \in Reply /\ HangUp \in Reply /\ Bare("zero") \in Reply
    BY DEF NoReply, HangUp, Bare, Reply
  <1>2. HangUp # NoReply /\ Bare("zero") # NoReply
    BY DEF NoReply, HangUp, Bare
  <1>3. ~ Accepted(o, NoReply) /\ ~ Accepted(o, HangUp)
    BY DEF NoReply, HangUp, Bare, Accepted, OK
  <1>4. \A r : r.code # "pending" => r # NoReply
    BY DEF NoReply, Bare
  <1>5. ExecutedReply(o) \subseteq Reply /\ \A r \in ExecutedReply(o) : r.code # "pending"
    BY DEF ExecutedReply, Reply, Bare, Op
  <1>6. RefusedReply(o) \subseteq Reply /\ \A r \in RefusedReply(o) : r.code # "pending"
    BY DEF RefusedReply, Reply, Bare, Op
  <1>7. \A r \in RefusedReply(o) : ~ Accepted(o, r)
    BY DEF RefusedReply, Accepted, OK, Bare, Op
  <1> QED BY <1>1, <1>2, <1>3, <1>4, <1>5, <1>6, <1>7

-----------------------------------------------------------------------------
(* Steps of a client that leave the connection alone.                      *)

(* A client moves on without touching the wire or the target. *)
LEMMA Moves ==
  ASSUME IInv, NEW x \in Exchange, NEW label \in PC, Goto(x, label),
         UNCHANGED <<op, backlog, reply, before, executed, alive>>,
         ~ Ended(x),
         pc[x] \notin BeforeConnect => label \notin BeforeConnect,
         label = "ok" => reply[x] # NoReply
  PROVE  WireInv' /\ OrderInv' /\ AnswerInv'
  <1>1. \A y \in Exchange : pc'[y] = IF y = x THEN label ELSE pc[y]
    BY DEF IInv, TypeOK, Goto
  <1>2. \A y : Queued(y)' <=> Queued(y)
    BY DEF Queued
  <1>3. WireInv'
    BY <1>1, <1>2 DEF IInv, WireInv
  <1>4. \A y \in Exchange : Ended(y) => Ended(y)'
    BY <1>1 DEF Ended
  <1>5. OrderInv'
    BY <1>2, <1>4 DEF IInv, OrderInv, TypeOK
  <1>6. AnswerInv'
    BY DEF IInv, AnswerInv
  <1> QED BY <1>3, <1>5, <1>6

(* A client moves on and leaves the files alone: it is before its first    *)
(* file, past its last, or was killed.                                     *)
LEMMA FilesKept ==
  ASSUME IInv, NEW x \in Exchange, NEW label \in PC, Goto(x, label),
         UNCHANGED <<usable, trigger>>, killed \subseteq killed',
         \/ pc[x] \notin {"tmp", "signal", "wait"}
         \/ label \in {"signal", "wait"}
         \/ x \in killed'
  PROVE  FilesInv'
  BY DEF IInv, FilesInv, TriggersRemoved, TypeOK, Goto

(* A client removes its files as it leaves connect. *)
LEMMA FilesRemoved ==
  ASSUME IInv, NEW x \in Exchange, NEW label \in PC, Goto(x, label),
         Cleanup(x), UNCHANGED <<usable, killed>>
  PROVE  FilesInv' /\ trigger' \in [Path -> Exchange \cup {NoFile}]
  <1>1. \A path \in Path : trigger'[path] # NoFile =>
          trigger'[path] = trigger[path] /\ trigger[path] # x
    BY DEF Cleanup
  <1>2. trigger' \in [Path -> Exchange \cup {NoFile}]
    BY DEF Cleanup, IInv, TypeOK
  <1> QED BY <1>1, <1>2 DEF IInv, FilesInv, TriggersRemoved, TypeOK, Goto

(* A call notes which exchanges have ended; it is not on the wire itself. *)
LEMMA CallIInv ==
  ASSUME IInv, NEW x \in Exchange, Call(x) PROVE IInv'
  <1> USE DEF Call
  <1>1. TypeOK'
    BY DEF IInv, TypeOK, Goto, PC, env, fileVars, targetVars, wireVars
  <1>2. TargetInv'
    BY DEF IInv, TargetInv, targetVars
  <1>3. FilesInv'
    BY FilesKept DEF fileVars, PC
  <1>4. /\ \A y \in Exchange : pc'[y] = IF y = x THEN "runner" ELSE pc[y]
        /\ \A y \in Exchange : before'[y] = IF y = x THEN {z \in Exchange : Ended(z)} ELSE before[y]
        /\ UNCHANGED <<backlog, reply, op, executed, alive>>
    BY DEF IInv, TypeOK, Goto, wireVars, env, targetVars
  <1>5. \A y : Queued(y)' <=> Queued(y)
    BY <1>4 DEF Queued
  <1>6. WireInv'
    BY <1>4, <1>5 DEF IInv, WireInv, BeforeConnect
  <1>7. \A y \in Exchange : Ended(y) => Ended(y)'
    BY <1>4 DEF Ended
  <1>8. reply[x] = NoReply /\ ~ Queued(x)
    BY DEF IInv, WireInv, BeforeConnect
  <1>9. \A i \in DOMAIN backlog : backlog[i] \in Exchange /\ backlog[i] # x
    BY <1>8 DEF Queued, IInv, TypeOK
  <1>10. OrderInv'
    BY <1>4, <1>5, <1>7, <1>8, <1>9 DEF IInv, OrderInv, TypeOK
  <1>11. AnswerInv'
    BY <1>4 DEF IInv, AnswerInv
  <1> QED BY <1>1, <1>2, <1>3, <1>6, <1>10, <1>11 DEF IInv

(* Dispatching decides who runs the exchange. *)
LEMMA DispatchIInv ==
  ASSUME IInv, NEW x \in Exchange, Dispatch(x) PROVE IInv'
  <1> USE DEF Dispatch, env, fileVars, targetVars, wireVars
  <1>1. TypeOK'
    BY DEF IInv, TypeOK, Goto, PC
  <1>2. TargetInv'
    BY DEF IInv, TargetInv
  <1>3. PICK label \in {"dial", "launch", "failed"} : Goto(x, label)
    BY DEF PC
  <1>4. FilesInv'
    BY <1>3, FilesKept DEF PC
  <1>5. WireInv' /\ OrderInv' /\ AnswerInv'
    BY <1>3, Moves DEF Ended, BeforeConnect, PC
  <1> QED BY <1>1, <1>2, <1>4, <1>5 DEF IInv

(* The helper becomes the target's user or gives up. *)
LEMMA LaunchIInv ==
  ASSUME IInv, NEW x \in Exchange, Launch(x) PROVE IInv'
  <1> USE DEF Launch, env, fileVars, targetVars, wireVars
  <1>1. TypeOK'
    BY DEF IInv, TypeOK, Goto, PC
  <1>2. TargetInv'
    BY DEF IInv, TargetInv
  <1>3. PICK label \in {"dial", "failed"} : Goto(x, label)
    BY DEF PC
  <1>4. FilesInv'
    BY <1>3, FilesKept DEF PC
  <1>5. WireInv' /\ OrderInv' /\ AnswerInv'
    BY <1>3, Moves DEF Ended, BeforeConnect, PC
  <1> QED BY <1>1, <1>2, <1>4, <1>5 DEF IInv

(* One trigger file is found, made or passed over. *)
LEMMA MakeTriggerIInv ==
  ASSUME IInv, NEW x \in Exchange, NEW path \in Path, MakeTrigger(x, path) PROVE IInv'
  <1> USE DEF MakeTrigger, env, targetVars, wireVars
  <1>1. PICK label \in {"tmp", "signal", "failed"} :
          /\ Goto(x, label)
          /\ path = "cwd" => label = "tmp"
          /\ path = "tmp" => label # "tmp" /\ (x \in usable' => label = "signal")
    BY DEF Path
  <1>2. \/ trigger' = trigger /\ usable' = usable \cup {x}
        \/ trigger' = [trigger EXCEPT ![path] = x] /\ usable' = usable \cup {x}
        \/ trigger' = trigger /\ usable' = usable
    BY DEF fileVars
  <1>3. TypeOK'
    BY <1>1, <1>2 DEF IInv, TypeOK, Goto, PC
  <1>4. TargetInv'
    BY DEF IInv, TargetInv
  <1>5. FilesInv'
    <2>1. \A y \in Exchange : pc'[y] = IF y = x THEN label ELSE pc[y]
      BY <1>1 DEF IInv, TypeOK, Goto
    <2>2. \A q \in Path : trigger'[q] # NoFile => trigger'[q] \in usable' /\ trigger'[q] \in Exchange
      BY <1>2, <1>3 DEF IInv, FilesInv, TypeOK
    <2>3. ASSUME NEW q \in Path, trigger'[q] = x PROVE pc'[x] \in {"tmp", "signal"}
      BY <1>1, <2>1, <2>2, <2>3, NoFileAssumption DEF Path
    <2>4. ASSUME NEW q \in Path, trigger'[q] # NoFile, trigger'[q] # x
          PROVE  trigger'[q] \in killed' \/ pc'[trigger'[q]] \in {"tmp", "signal", "wait"}
      BY <1>2, <2>1, <2>2, <2>4 DEF IInv, FilesInv, TriggersRemoved, TypeOK
    <2> QED BY <2>2, <2>3, <2>4 DEF FilesInv, TriggersRemoved
  <1>6. WireInv' /\ OrderInv' /\ AnswerInv'
    BY <1>1, Moves DEF Ended, BeforeConnect, PC, Path
  <1> QED BY <1>3, <1>4, <1>5, <1>6 DEF IInv

(* The signal is sent, or its failure ends the exchange. *)
LEMMA SignalIInv ==
  ASSUME IInv, NEW x \in Exchange, Signal(x) PROVE IInv'
  <1> USE DEF Signal, env, wireVars
  <1>1. CASE alive /\ sigquit' = TRUE /\ Goto(x, "wait") /\ UNCHANGED trigger
    <2>1. FilesInv' /\ TypeOK'
      BY <1>1, FilesKept DEF IInv, TypeOK, Goto, PC
    <2>2. WireInv' /\ OrderInv' /\ AnswerInv'
      BY <1>1, Moves DEF Ended, BeforeConnect, PC
    <2> QED BY <1>1, <2>1, <2>2 DEF IInv, TargetInv
  <1>2. CASE Cleanup(x) /\ Goto(x, "failed") /\ UNCHANGED sigquit
    <2>1. FilesInv' /\ trigger' \in [Path -> Exchange \cup {NoFile}]
      BY <1>2, FilesRemoved DEF PC
    <2>2. TypeOK'
      BY <1>2, <2>1 DEF IInv, TypeOK, Goto, PC
    <2>3. WireInv' /\ OrderInv' /\ AnswerInv'
      BY <1>2, Moves DEF Ended, BeforeConnect, PC
    <2> QED BY <1>2, <2>1, <2>2, <2>3 DEF IInv, TargetInv
  <1> QED BY <1>1, <1>2

(* The request is written, or the target has closed its end. *)
LEMMA SendIInv ==
  ASSUME IInv, NEW x \in Exchange, Send(x) PROVE IInv'
  <1> USE DEF Send, env, fileVars, targetVars
  <1>1. TypeOK'
    BY DEF IInv, TypeOK, Goto, PC
  <1>2. TargetInv'
    BY DEF IInv, TargetInv
  <1>3. PICK label \in {"receive", "failed"} : Goto(x, label)
    OBVIOUS
  <1>4. FilesInv'
    BY <1>3, FilesKept DEF PC
  <1>5. WireInv' /\ OrderInv' /\ AnswerInv'
    BY <1>3, Moves DEF Ended, BeforeConnect, PC
  <1> QED BY <1>1, <1>2, <1>4, <1>5 DEF IInv

(* The reply is decoded. *)
LEMMA ReceiveIInv ==
  ASSUME IInv, NEW x \in Exchange, Receive(x) PROVE IInv'
  <1> USE DEF Receive, env, fileVars, targetVars, wireVars
  <1>1. TypeOK'
    BY DEF IInv, TypeOK, Goto, PC
  <1>2. TargetInv'
    BY DEF IInv, TargetInv
  <1>3. PICK label \in {"ok", "failed"} : Goto(x, label)
    OBVIOUS
  <1>4. FilesInv'
    BY <1>3, FilesKept DEF PC
  <1>5. WireInv' /\ OrderInv' /\ AnswerInv'
    BY <1>3, Moves DEF Ended, BeforeConnect, PC
  <1> QED BY <1>1, <1>2, <1>4, <1>5 DEF IInv

(* The deadline passes. *)
LEMMA TimeoutIInv ==
  ASSUME IInv, NEW x \in Exchange, Timeout(x) PROVE IInv'
  <1> USE DEF Timeout, env, targetVars, wireVars
  <1>1. FilesInv' /\ trigger' \in [Path -> Exchange \cup {NoFile}]
    BY FilesRemoved DEF PC
  <1>2. TypeOK'
    BY <1>1 DEF IInv, TypeOK, Goto, PC
  <1>3. TargetInv'
    BY DEF IInv, TargetInv
  <1>4. WireInv' /\ OrderInv' /\ AnswerInv'
    BY Moves DEF Ended, BeforeConnect, PC
  <1> QED BY <1>1, <1>2, <1>3, <1>4 DEF IInv

(* The helper is killed and leaves its files behind. *)
LEMMA KillHelperIInv ==
  ASSUME IInv, NEW x \in Exchange, KillHelper(x) PROVE IInv'
  <1> USE DEF KillHelper, env, fileVars, targetVars, wireVars
  <1>1. TypeOK'
    BY DEF IInv, TypeOK, Goto, PC
  <1>2. TargetInv'
    BY DEF IInv, TargetInv
  <1>3. FilesInv'
    BY FilesKept DEF PC
  <1>4. WireInv' /\ OrderInv' /\ AnswerInv'
    BY Moves DEF Ended, BeforeConnect, PC
  <1> QED BY <1>1, <1>2, <1>3, <1>4 DEF IInv

-----------------------------------------------------------------------------
(* Steps that change the wire or the target.                               *)

(* A client joins the backlog: whoever ended before it began is ahead.     *)
LEMMA Connects ==
  ASSUME IInv, NEW x \in Exchange, pc[x] \in BeforeConnect, Connect(x),
         UNCHANGED <<op, before, executed, alive>>
  PROVE  /\ backlog' \in Seq(Exchange) /\ pc' \in [Exchange -> PC]
         /\ WireInv' /\ OrderInv' /\ AnswerInv'
  <1> DEFINE n == Len(backlog)
  <1>1. /\ backlog' \in Seq(Exchange) /\ n \in Nat
        /\ DOMAIN backlog = 1 .. n /\ DOMAIN backlog' = 1 .. n + 1
        /\ \A i \in 1 .. n : backlog'[i] = backlog[i] /\ backlog[i] \in Exchange
        /\ backlog'[n + 1] = x
    BY Appended DEF Connect, IInv, TypeOK
  <1> HIDE DEF n
  <1>2. /\ pc' \in [Exchange -> PC]
        /\ \A y \in Exchange : pc'[y] = IF y = x THEN "send" ELSE pc[y]
    BY DEF Connect, Goto, IInv, TypeOK, PC
  <1>3. \A y : Queued(y)' <=> Queued(y) \/ y = x
    BY <1>1 DEF Queued
  <1>4. reply[x] = NoReply /\ ~ Queued(x) /\ reply' = reply
    BY DEF IInv, WireInv, Connect
  <1>5. WireInv'
    <2>1. \A y \in Exchange : pc'[y] \in BeforeConnect => reply'[y] = NoReply /\ ~ Queued(y)'
      BY <1>2, <1>3, <1>4 DEF IInv, WireInv, BeforeConnect
    <2>2. \A y \in Exchange : Queued(y)' => reply'[y] = NoReply
      BY <1>3, <1>4 DEF IInv, WireInv
    <2>3. \A y \in Exchange : pc'[y] = "ok" => reply'[y] # NoReply
      BY <1>2, <1>4 DEF IInv, WireInv
    <2>4. \A i \in 1 .. n : backlog'[i] # x
      BY <1>1, <1>4 DEF Queued
    <2>5. \A i, j \in 1 .. n : backlog'[i] = backlog'[j] => i = j
      BY <1>1 DEF IInv, WireInv
    <2>6. \A i, j \in DOMAIN backlog' : backlog'[i] = backlog'[j] => i = j
      BY <1>1, <2>4, <2>5
    <2> QED BY <2>1, <2>2, <2>3, <2>6 DEF WireInv
  <1>6. \A y \in Exchange : Ended(y) => Ended(y)' /\ y # x
    BY <1>2 DEF Ended, BeforeConnect
  <1>7. OrderInv'
    <2>1. \A y \in Exchange : \A z \in before'[y] : Ended(z)'
      BY <1>6 DEF IInv, OrderInv, TypeOK
    <2>2. \A y \in Exchange : x \notin before[y]
      BY <1>6 DEF IInv, OrderInv
    <2>3. \A i, j \in 1 .. n : backlog'[j] \in before[backlog'[i]] => j < i
      BY <1>1 DEF IInv, OrderInv
    <2>4. \A i \in 1 .. n + 1 : backlog'[n + 1] \notin before[backlog'[i]]
      BY <1>1, <2>2
    <2>5. \A i, j \in DOMAIN backlog' : backlog'[j] \in before'[backlog'[i]] => j < i
      BY <1>1, <2>3, <2>4
    <2>6. \A y \in Exchange : reply'[y] # NoReply => \A z \in before'[y] : ~ Queued(z)'
      BY <1>3, <1>4, <2>2 DEF IInv, OrderInv
    <2> QED BY <2>1, <2>5, <2>6 DEF OrderInv
  <1>8. AnswerInv'
    BY <1>4 DEF IInv, AnswerInv
  <1> QED BY <1>1, <1>2, <1>5, <1>7, <1>8

(* The first attempt to connect. *)
LEMMA FirstDialIInv ==
  ASSUME IInv, NEW x \in Exchange, FirstDial(x) PROVE IInv'
  <1> USE DEF FirstDial, env, fileVars, targetVars
  <1>1. TargetInv'
    BY DEF IInv, TargetInv
  <1>2. CASE Goto(x, "cwd") /\ UNCHANGED wireVars
    <2>1. FilesInv' /\ TypeOK'
      BY <1>2, FilesKept DEF wireVars, IInv, TypeOK, Goto, PC
    <2>2. WireInv' /\ OrderInv' /\ AnswerInv'
      BY <1>2, Moves DEF wireVars, Ended, BeforeConnect, PC
    <2> QED BY <1>1, <2>1, <2>2 DEF IInv
  <1>3. CASE Connect(x)
    <2>1. FilesInv'
      BY <1>3, FilesKept DEF Connect, PC
    <2>2. /\ backlog' \in Seq(Exchange) /\ pc' \in [Exchange -> PC]
          /\ WireInv' /\ OrderInv' /\ AnswerInv'
      BY <1>3, Connects DEF BeforeConnect
    <2>3. TypeOK'
      BY <1>3, <2>2 DEF Connect, IInv, TypeOK
    <2> QED BY <1>1, <2>1, <2>2, <2>3 DEF IInv
  <1> QED BY <1>2, <1>3

(* The socket is found. *)
LEMMA PollIInv ==
  ASSUME IInv, NEW x \in Exchange, Poll(x) PROVE IInv'
  <1> USE DEF Poll, env, targetVars
  <1>1. TargetInv'
    BY DEF IInv, TargetInv
  <1>2. FilesInv' /\ trigger' \in [Path -> Exchange \cup {NoFile}]
    BY FilesRemoved DEF Connect, PC
  <1>3. /\ backlog' \in Seq(Exchange) /\ pc' \in [Exchange -> PC]
        /\ WireInv' /\ OrderInv' /\ AnswerInv'
    BY Connects DEF BeforeConnect
  <1>4. TypeOK'
    BY <1>2, <1>3 DEF Connect, IInv, TypeOK
  <1> QED BY <1>1, <1>2, <1>3, <1>4 DEF IInv

(* The target handles the signal. *)
LEMMA HandleQuitIInv ==
  ASSUME IInv, HandleQuit PROVE IInv'
  <1> USE DEF HandleQuit, env, fileVars, wireVars
  <1>1. TypeOK'
    BY DEF IInv, TypeOK
  <1>2. TargetInv' /\ FilesInv'
    BY DEF IInv, TargetInv, FilesInv, TriggersRemoved
  <1>3. WireInv' /\ OrderInv' /\ AnswerInv'
    BY DEF IInv, WireInv, OrderInv, AnswerInv, Queued, Ended
  <1> QED BY <1>1, <1>2, <1>3 DEF IInv

(* The listener is done with the first connection: nobody who ended before *)
(* its client began is left behind it.                                     *)
LEMMA ServeIInv ==
  ASSUME IInv, NEW x \in Exchange, Serve(x) PROVE IInv'
  <1>1. PICK r \in Reply \ {NoReply} :
          /\ Served(x, r)
          /\ executed \subseteq executed' /\ executed' \subseteq Exchange
          /\ Accepted(op[x], r) => x \in executed'
    <2>1. op[x] \in Op /\ executed \subseteq Exchange
      BY DEF IInv, TypeOK
    <2>2. CASE Served(x, HangUp) /\ UNCHANGED executed
      BY <2>1, <2>2, Replies
    <2>3. CASE executed' = executed \cup {x} /\ \E r \in ExecutedReply(op[x]) : Served(x, r)
      BY <2>1, <2>3, Replies
    <2>4. CASE (\E r \in RefusedReply(op[x]) : Served(x, r)) /\ UNCHANGED executed
      BY <2>1, <2>4, Replies
    <2> QED BY <2>2, <2>3, <2>4 DEF Serve
  <1>2. backlog # <<>> /\ x = Head(backlog)
    BY DEF Serve
  <1> DEFINE n == Len(backlog)
  <1>3. /\ backlog' \in Seq(Exchange) /\ n \in Nat /\ n > 0
        /\ DOMAIN backlog = 1 .. n /\ DOMAIN backlog' = 1 .. n - 1
        /\ \A i \in 1 .. n - 1 : backlog'[i] = backlog[i + 1]
        /\ x = backlog[1]
    BY <1>1, <1>2, TailOf DEF Served, IInv, TypeOK
  <1> HIDE DEF n
  <1>4. /\ reply' \in [Exchange -> Reply]
        /\ \A y \in Exchange : reply'[y] = IF y = x THEN r ELSE reply[y]
    BY <1>1 DEF Served, IInv, TypeOK
  <1>5. UNCHANGED <<euid, op, pc, usable, trigger, killed, alive, listener, sigquit, sent, before>>
    BY <1>1 DEF Served, env, fileVars
  <1>6. TypeOK'
    BY <1>1, <1>3, <1>4, <1>5 DEF IInv, TypeOK
  <1>7. TargetInv' /\ FilesInv'
    BY <1>5 DEF IInv, TargetInv, FilesInv, TriggersRemoved
  <1>8. \A i \in 1 .. n - 1 : i + 1 \in 1 .. n
    BY <1>3
  <1>9. \A y : Queued(y)' => Queued(y) /\ y # x
    BY <1>3, <1>8 DEF Queued, IInv, WireInv
  <1>10. Queued(x)
    BY <1>3 DEF Queued
  <1>11. WireInv'
    <2>1. \A y \in Exchange : pc'[y] \in BeforeConnect => reply'[y] = NoReply /\ ~ Queued(y)'
      BY <1>4, <1>5, <1>9, <1>10 DEF IInv, WireInv
    <2>2. \A y \in Exchange : Queued(y)' => reply'[y] = NoReply
      BY <1>4, <1>9 DEF IInv, WireInv
    <2>3. \A y \in Exchange : pc'[y] = "ok" => reply'[y] # NoReply
      BY <1>4, <1>5 DEF IInv, WireInv
    <2>4. ASSUME NEW i \in 1 .. n - 1, NEW j \in 1 .. n - 1, backlog'[i] = backlog'[j]
          PROVE  i = j
      <3>1. backlog[i + 1] = backlog[j + 1] /\ i + 1 \in DOMAIN backlog /\ j + 1 \in DOMAIN backlog
        BY <1>3, <1>8, <2>4
      <3>2. i + 1 = j + 1
        BY <3>1 DEF IInv, WireInv
      <3> QED BY <3>2
    <2> QED BY <1>3, <2>1, <2>2, <2>3, <2>4 DEF WireInv
  <1>12. OrderInv'
    <2>1. \A y \in Exchange : \A z \in before'[y] : Ended(z)'
      BY <1>5 DEF IInv, OrderInv, Ended
    <2>2. \A i, j \in DOMAIN backlog' : backlog'[j] \in before'[backlog'[i]] => j + 1 < i + 1
      BY <1>3, <1>5, <1>8 DEF IInv, OrderInv
    <2>3. \A z \in before[x] : ~ Queued(z)
      BY <1>3 DEF IInv, OrderInv, Queued
    <2>4. \A y \in Exchange : reply'[y] # NoReply => \A z \in before'[y] : ~ Queued(z)'
      BY <1>4, <1>5, <1>9, <2>3 DEF IInv, OrderInv
    <2> QED BY <1>3, <2>1, <2>2, <2>4 DEF OrderInv
  <1>13. AnswerInv'
    BY <1>1, <1>4, <1>5 DEF IInv, AnswerInv
  <1> QED BY <1>6, <1>7, <1>11, <1>12, <1>13 DEF IInv

(* The target exits: the backlog is empty and every client has an answer.  *)
LEMMA DiesIInv ==
  ASSUME IInv, Dies PROVE IInv'
  <1>1. PICK cut \in BOOLEAN :
          reply' = [x \in Exchange |->
                      IF \A i \in DOMAIN backlog : backlog[i] # x THEN reply[x]
                      ELSE IF cut /\ x = backlog[1] /\ x \in sent /\ RunsAs(x) = JvmUser
                        THEN Bare("zero") ELSE HangUp]
    BY DEF Dies
  <1>2. \A x \in Exchange :
          reply'[x] \in Reply /\ IF Queued(x) THEN reply'[x] # NoReply ELSE reply'[x] = reply[x]
    <2>1. /\ HangUp \in Reply /\ Bare("zero") \in Reply
          /\ HangUp # NoReply /\ Bare("zero") # NoReply
      BY Replies DEF Op
    <2> QED BY <1>1, <2>1 DEF Queued, IInv, TypeOK
  <1>3. /\ UNCHANGED <<euid, op, pc, usable, trigger, killed, sent, executed, before>>
        /\ alive' = FALSE /\ listener' = FALSE /\ sigquit' = FALSE /\ backlog' = <<>>
    BY DEF Dies, env, fileVars
  <1>4. TypeOK'
    <2>1. reply' \in [Exchange -> Reply]
      BY <1>1, <1>2
    <2>2. backlog' \in Seq(Exchange)
      BY <1>3
    <2>3. alive' \in BOOLEAN /\ listener' \in BOOLEAN /\ sigquit' \in BOOLEAN
      BY <1>3
    <2>4. /\ euid' \in User /\ op' \in [Exchange -> Op] /\ pc' \in [Exchange -> PC]
          /\ usable' \subseteq Exchange /\ killed' \subseteq Exchange
          /\ trigger' \in [Path -> Exchange \cup {NoFile}]
          /\ sent' \subseteq Exchange /\ executed' \subseteq Exchange
          /\ before' \in [Exchange -> SUBSET Exchange]
      BY <1>3 DEF IInv, TypeOK
    <2> QED BY <2>1, <2>2, <2>3, <2>4, Zenon DEF TypeOK
  <1>5. TargetInv' /\ FilesInv' /\ AnswerInv'
    BY <1>3 DEF IInv, TargetInv, FilesInv, TriggersRemoved, AnswerInv
  <1>6. \A y : ~ Queued(y)'
    BY <1>3 DEF Queued
  <1>7. WireInv'
    BY <1>2, <1>3, <1>6 DEF IInv, WireInv
  <1>8. OrderInv'
    BY <1>3, <1>6 DEF IInv, OrderInv, Ended
  <1> QED BY <1>4, <1>5, <1>7, <1>8 DEF IInv

-----------------------------------------------------------------------------
(* The invariant.                                                          *)

(* Nothing has happened yet. *)
LEMMA InitIInv == Init => IInv
  <1> SUFFICES ASSUME Init PROVE IInv
    OBVIOUS
  <1> USE DEF Init
  <1>1. TypeOK
    <2>1. reply \in [Exchange -> Reply] /\ pc \in [Exchange -> PC]
      BY Replies DEF PC, Op
    <2>2. alive \in BOOLEAN /\ listener \in BOOLEAN /\ sigquit \in BOOLEAN
      OBVIOUS
    <2>3. backlog \in Seq(Exchange)
      OBVIOUS
    <2> QED BY <2>1, <2>2, <2>3, Zenon DEF TypeOK
  <1>2. TargetInv /\ FilesInv
    BY DEF TargetInv, FilesInv, TriggersRemoved
  <1>3. WireInv /\ OrderInv
    BY DEF WireInv, OrderInv, Queued
  <1>4. AnswerInv
    BY <1>1, Replies DEF AnswerInv, TypeOK
  <1> QED BY <1>1, <1>2, <1>3, <1>4 DEF IInv

(* Every step keeps it. *)
LEMMA NextIInv == IInv /\ [Next]_vars => IInv'
  <1> SUFFICES ASSUME IInv, [Next]_vars PROVE IInv'
    OBVIOUS
  <1>1. CASE HandleQuit
    BY <1>1, HandleQuitIInv
  <1>2. CASE Dies
    BY <1>2, DiesIInv
  <1>3. ASSUME NEW x \in Exchange, Client(x) PROVE IInv'
    BY <1>3, DispatchIInv, LaunchIInv, FirstDialIInv, MakeTriggerIInv, SignalIInv,
       PollIInv, SendIInv, ReceiveIInv, TimeoutIInv
    DEF Client
  <1>4. ASSUME NEW x \in Exchange, Serve(x) \/ Call(x) \/ KillHelper(x) PROVE IInv'
    BY <1>4, ServeIInv, CallIInv, KillHelperIInv
  <1>5. CASE UNCHANGED vars
    BY <1>5 DEF vars, env, IInv, TypeOK, TargetInv, FilesInv, TriggersRemoved, WireInv,
                OrderInv, AnswerInv, Queued, Ended
  <1> QED BY <1>1, <1>2, <1>3, <1>4, <1>5 DEF Next

(* Every state of every run of the exchanges satisfies the invariant. *)
THEOREM Invariance == Spec => []IInv
  BY InitIInv, NextIInv, PTL DEF Spec

(* Every variable of Attach keeps its type. *)
THEOREM TypeCorrect == Spec => []TypeOK
  <1>1. IInv => TypeOK
    BY DEF IInv
  <1> QED BY <1>1, Invariance, PTL

(* connect's deferred cleanup: a trigger file outlives its exchange only   *)
(* if the helper that made it was killed.                                  *)
THEOREM FilesGo == Spec => []TriggersRemoved
  <1>1. IInv => TriggersRemoved
    BY DEF IInv, FilesInv
  <1> QED BY <1>1, Invariance, PTL

(* Once an exchange has been answered with success, the target is done     *)
(* with the requests of all exchanges that had ended when it was called.   *)
THEOREM LateRequestsSettle == Spec => []SettledBeforeAnswer
  <1>1. IInv => SettledBeforeAnswer
    BY DEF IInv, WireInv, OrderInv, Queued, SettledBeforeAnswer
  <1> QED BY <1>1, Invariance, PTL

-----------------------------------------------------------------------------
(* The refinement.                                                         *)

(* What the caller sees of a client that moves on. *)
StatusOf(label) ==
  IF label \in {"idle", "ok", "failed"} THEN label ELSE "running"

(* A client that moves on changes its own status only. *)
LEMMA StatusMoves ==
  ASSUME TypeOK, NEW x \in Exchange, NEW label \in PC, Goto(x, label)
  PROVE  [y \in Exchange |-> Status(y)]' =
           [[y \in Exchange |-> Status(y)] EXCEPT ![x] = StatusOf(label)]
  <1>1. \A y \in Exchange : Status(y) = StatusOf(pc[y]) /\ Status(y)' = StatusOf(pc'[y])
    BY DEF Status, StatusOf
  <1>2. \A y \in Exchange : pc'[y] = IF y = x THEN label ELSE pc[y]
    BY DEF TypeOK, Goto
  <1> QED BY <1>1, <1>2

(* A client that moves on within an exchange is not seen. *)
LEMMA Stutters ==
  ASSUME TypeOK, NEW x \in Exchange, NEW label \in PC \ {"idle", "ok", "failed"},
         Goto(x, label), pc[x] \notin {"idle", "ok", "failed"},
         UNCHANGED <<executed, alive>>
  PROVE  UNCHANGED Contract!contractVars
  <1>1. [y \in Exchange |-> Status(y)][x] = "running" /\ StatusOf(label) = "running"
    BY DEF Status, StatusOf, PC
  <1>2. [y \in Exchange |-> Status(y)]' = [y \in Exchange |-> Status(y)]
    BY <1>1, StatusMoves
  <1> QED BY <1>2 DEF Contract!contractVars

(* A client that gives up is a failure of the contract. *)
LEMMA Fails ==
  ASSUME TypeOK, NEW x \in Exchange, Goto(x, "failed"),
         pc[x] \notin {"idle", "ok", "failed"}, UNCHANGED <<executed, alive>>
  PROVE  Contract!Fail(x)
  <1>1. [y \in Exchange |-> Status(y)][x] = "running" /\ StatusOf("failed") = "failed"
    BY DEF Status, StatusOf
  <1>2. [y \in Exchange |-> Status(y)]' =
           [[y \in Exchange |-> Status(y)] EXCEPT ![x] = "failed"]
    BY <1>1, StatusMoves DEF PC
  <1> QED BY <1>1, <1>2 DEF Contract!Fail

(* Every step is a step of the contract, or is not seen by the caller. *)
LEMMA StepRefines == IInv /\ [Next]_vars => [Contract!Next]_Contract!contractVars
  <1> SUFFICES ASSUME IInv, [Next]_vars PROVE [Contract!Next]_Contract!contractVars
    OBVIOUS
  <1> DEFINE status == [y \in Exchange |-> Status(y)]
  <1>0. TypeOK
    BY DEF IInv
  <1>1. ASSUME UNCHANGED pc PROVE status' = status
    BY <1>1 DEF Status
  <1>2. CASE HandleQuit \/ UNCHANGED vars
    <2>1. UNCHANGED <<pc, executed, alive>>
      BY <1>2 DEF HandleQuit, vars
    <2> QED BY <1>1, <2>1 DEF Contract!contractVars
  <1>3. CASE Dies
    <2>1. UNCHANGED <<pc, executed>> /\ alive /\ alive' = FALSE
      BY <1>3 DEF Dies
    <2> QED BY <1>1, <2>1 DEF Contract!Next, Contract!Die
  <1>4. ASSUME NEW x \in Exchange, Serve(x) PROVE [Contract!Next]_Contract!contractVars
    <2>1. UNCHANGED <<pc, alive>> /\ alive
      BY <1>4 DEF Serve, Served, IInv, TargetInv
    <2>2. status' = status
      BY <1>1, <2>1
    <2>3. CASE executed' = executed
      BY <2>1, <2>2, <2>3 DEF Contract!contractVars
    <2>4. CASE executed' = executed \cup {x}
      <3>1. Queued(x)
        <4>1. 1 \in DOMAIN backlog /\ backlog[1] = x
          BY <1>4, TailOf DEF Serve, IInv, TypeOK
        <4> QED BY <4>1 DEF Queued
      <3>2. pc[x] # "idle"
        BY <3>1 DEF IInv, WireInv, BeforeConnect
      <3>3. status[x] # "idle"
        BY <3>2 DEF Status
      <3>4. Contract!Execute(x)
        BY <2>1, <2>2, <2>4, <3>3 DEF Contract!Execute
      <3> QED BY <3>4 DEF Contract!Next
    <2> QED BY <1>4, <2>3, <2>4 DEF Serve
  <1>5. ASSUME NEW x \in Exchange, Call(x) PROVE [Contract!Next]_Contract!contractVars
    <2>1. status[x] = "idle" /\ StatusOf("runner") = "running"
      BY <1>5 DEF Call, Status, StatusOf
    <2>2. status' = [status EXCEPT ![x] = "running"]
      BY <1>0, <1>5, <2>1, StatusMoves DEF Call, PC
    <2>3. Contract!Call(x)
      BY <1>5, <2>1, <2>2 DEF Contract!Call, Call, targetVars
    <2> QED BY <2>3 DEF Contract!Next
  <1>6. ASSUME NEW x \in Exchange, NEW label \in PC \ {"idle", "ok"}, Goto(x, label),
               pc[x] \notin {"idle", "ok", "failed"}, UNCHANGED <<executed, alive>>
        PROVE  [Contract!Next]_Contract!contractVars
    <2>1. CASE label = "failed"
      BY <1>0, <1>6, <2>1, Fails DEF Contract!Next
    <2>2. CASE label # "failed"
      BY <1>0, <1>6, <2>2, Stutters
    <2> QED BY <2>1, <2>2
  <1>7. ASSUME NEW x \in Exchange, Receive(x) PROVE [Contract!Next]_Contract!contractVars
    <2>1. CASE Accepted(op[x], reply[x])
      <3>1. status[x] = "running" /\ StatusOf("ok") = "ok"
        BY <1>7 DEF Receive, Status, StatusOf
      <3>2. status' = [status EXCEPT ![x] = "ok"]
        BY <1>0, <1>7, <2>1, <3>1, StatusMoves DEF Receive, PC
      <3>3. x \in executed \/ ~ alive
        BY <2>1 DEF IInv, AnswerInv
      <3>4. Contract!Succeed(x)
        BY <1>7, <3>1, <3>2, <3>3 DEF Contract!Succeed, Receive, targetVars
      <3> QED BY <3>4 DEF Contract!Next
    <2>2. CASE ~ Accepted(op[x], reply[x])
      BY <1>6, <1>7, <2>2 DEF Receive, targetVars, PC
    <2> QED BY <2>1, <2>2
  <1>8. ASSUME NEW x \in Exchange, Client(x), ~ Receive(x)
        PROVE  [Contract!Next]_Contract!contractVars
    <2>1. UNCHANGED <<executed, alive>>
      BY <1>8 DEF Client, Dispatch, Launch, FirstDial, MakeTrigger, Signal, Poll, Send,
                  Timeout, targetVars
    <2>2. pc[x] \notin {"idle", "ok", "failed"}
      BY <1>8 DEF Client, Dispatch, Launch, FirstDial, MakeTrigger, Signal, Poll, Send,
                  Timeout, Path
    <2>3. PICK label \in PC \ {"idle", "ok"} : Goto(x, label)
      BY <1>8 DEF Client, Dispatch, Launch, FirstDial, MakeTrigger, Signal, Poll, Send,
                  Timeout, Connect, Path, PC
    <2> QED BY <1>6, <2>1, <2>2, <2>3
  <1>9. ASSUME NEW x \in Exchange, KillHelper(x) PROVE [Contract!Next]_Contract!contractVars
    BY <1>6, <1>9 DEF KillHelper, targetVars, PC
  <1> QED BY <1>2, <1>3, <1>4, <1>5, <1>7, <1>8, <1>9 DEF Next

(* The exchange with all its files, signals, queues and deadlines          *)
(* implements what the injector and jvmdiag rely on: success is reported   *)
(* only for a request the target has carried out, or for one that is gone. *)
THEOREM Refinement == Spec => ImplementsContract
  <1>1. Init => Contract!Init
    BY DEF Init, Contract!Init, Status
  <1> QED BY <1>1, StepRefines, Invariance, PTL DEF Spec, ImplementsContract, Contract!Spec

-----------------------------------------------------------------------------
(* Diagnostics.  Types first.                                              *)

(* A request that has been answered is a request. *)
LEMMA DoneType ==
  ASSUME NEW answer \in {"bad_gateway", "stored", "lost_cancelled", "lost_late", "lost_error"}
  PROVE  Done(answer) \in RequestState /\ Done(answer).pc = "done"
<1>1. 1 \in Jvm /\ 0 \in Time
  BY BoundAssumption DEF Jvm, Time
<1>2. Fresh \in RequestState
  BY <1>1, KindAssumption DEF Fresh, RequestState, Context
<1> QED
  BY <1>2 DEF Done, RequestState

(* What a step of one request may do to the others: nothing. *)
LEMMA RequestStep ==
  ASSUME DiagnosticsTypeOK, NEW r \in Request, NEW to,
         request' = [request EXCEPT ![r] = to]
  PROVE  /\ request'[r] = to
         /\ \A s \in Request \ {r} : request'[s] = request[s]
         /\ to \in RequestState => request' \in [Request -> RequestState]
BY DEF DiagnosticsTypeOK

(* The steps of a request keep it one. *)
LEMMA RequestTypes ==
  ASSUME DiagnosticsTypeOK, NEW r \in Request,
         \/ Disconnect(r) \/ StoreTimeout(r) \/ Handle(r)
         \/ \E k \in Kind : Ask(r, k)
  PROVE  request' \in [Request -> RequestState]
<1>0. request[r] \in RequestState /\ jvm \in Jvm /\ tracked \in Jvm /\ now \in Time
  BY DEF DiagnosticsTypeOK
<1>1. CASE Disconnect(r)
  <2>1. [request[r] EXCEPT !.ctx = "cancelled"] \in RequestState
    BY <1>0 DEF RequestState, Context
  <2> QED
    BY <1>1, <2>1, RequestStep DEF Disconnect
<1>2. CASE StoreTimeout(r)
  <2>1. [request[r] EXCEPT !.ctx = "late"] \in RequestState
    BY <1>0 DEF RequestState, Context
  <2> QED
    BY <1>2, <2>1, RequestStep DEF StoreTimeout
<1>3. CASE \E k \in Kind : Ask(r, k)
  <2>1. PICK k \in Kind : Ask(r, k)
    BY <1>3
  <2>2. [request[r] EXCEPT !.pc = "collect", !.kind = k, !.start = tracked, !.ts = now]
          \in RequestState
    BY <1>0 DEF RequestState
  <2> QED
    BY <2>1, <2>2, RequestStep DEF Ask
<1>4. CASE Collected(r)
  <2>1. [request[r] EXCEPT !.pc = "store", !.of = jvm] \in RequestState
    BY <1>0 DEF RequestState
  <2> QED
    BY <1>4, <2>1, RequestStep DEF Collected
<1>5. CASE CollectFails(r)
  BY <1>5, RequestStep, DoneType DEF CollectFails
<1>6. CASE LockWriter(r)
  <2>1. [request[r] EXCEPT !.pc = "insert"] \in RequestState
    BY <1>0 DEF RequestState
  <2> QED
    BY <1>6, <2>1, RequestStep DEF LockWriter
<1>7. CASE Insert(r)
  <2>1. \E answer \in {"stored", "lost_cancelled", "lost_late", "lost_error"} :
          request' = [request EXCEPT ![r] = Done(answer)]
    BY <1>7 DEF Insert
  <2> QED
    BY <2>1, RequestStep, DoneType
<1> QED
  BY <1>1, <1>2, <1>3, <1>4, <1>5, <1>6, <1>7 DEF Handle

(* Every row, request and clock of Diagnostics keeps its type. *)
THEOREM DiagnosticsTypeCorrect == DiagnosticsSpec => []DiagnosticsTypeOK
<1>1. DiagnosticsInit => DiagnosticsTypeOK
  <2>1. 1 \in Jvm /\ 0 \in Time /\ 0 \in 0 .. MaxPasses
    BY BoundAssumption DEF Jvm, Time
  <2>2. Fresh \in RequestState
    BY <2>1, KindAssumption DEF Fresh, RequestState, Context
  <2> QED
    BY <2>1, <2>2 DEF DiagnosticsInit, DiagnosticsTypeOK
<1>2. ASSUME DiagnosticsTypeOK, [DiagnosticsNext]_diagnosticsVars
      PROVE  DiagnosticsTypeOK'
  <2> USE <1>2
  <2>1. ASSUME NEW r \in Request, Disconnect(r) \/ StoreTimeout(r) \/ Handle(r)
                                  \/ \E k \in Kind : Ask(r, k)
        PROVE  DiagnosticsTypeOK'
    <3>1. request' \in [Request -> RequestState]
      BY <2>1, RequestTypes
    <3>2. UNCHANGED <<now, jvm, tracked, passVars, comparison>>
      BY <2>1 DEF Disconnect, StoreTimeout, Handle, Ask, Collected, CollectFails,
                  LockWriter, Insert
    <3>3. writeMu' \in Request \cup {Maintainer, NoOne}
      BY <2>1 DEF Disconnect, StoreTimeout, Handle, Ask, Collected, CollectFails,
                  LockWriter, Insert, Unlocked, DiagnosticsTypeOK
    <3>4. NewRow(r) \in Row
      BY DEF NewRow, Row, DiagnosticsTypeOK, RequestState
    <3>5. table' \subseteq table \cup {NewRow(r)}
      BY <2>1 DEF Disconnect, StoreTimeout, Handle, Ask, Collected, CollectFails,
                  LockWriter, Insert
    <3> QED
      BY <3>1, <3>2, <3>3, <3>4, <3>5 DEF DiagnosticsTypeOK, passVars, comparison
  <2>2. CASE Tick
    BY <2>2, BoundAssumption
    DEF Tick, DiagnosticsTypeOK, requestVars, passVars, comparison, Time
  <2>3. CASE Replace
    BY <2>3, BoundAssumption
    DEF Replace, DiagnosticsTypeOK, requestVars, passVars, comparison, Jvm
  <2>4. CASE Scan
    BY <2>4 DEF Scan, DiagnosticsTypeOK, requestVars, passVars, comparison
  <2>5. CASE BeginPass
    BY <2>5, BoundAssumption DEF BeginPass, DiagnosticsTypeOK, requestVars, comparison
  <2>6. CASE Expire
    BY <2>6 DEF Expire, DiagnosticsTypeOK, comparison
  <2>7. CASE SelectOverQuota
    <3>1. overQuota' \subseteq Request
      BY <2>7 DEF SelectOverQuota, DiagnosticsTypeOK, Row
    <3> QED
      BY <2>7, <3>1 DEF SelectOverQuota, DiagnosticsTypeOK, requestVars, comparison
  <2>8. ASSUME NEW id \in Request, DeleteOne(id) PROVE DiagnosticsTypeOK'
    BY <2>8 DEF DeleteOne, DiagnosticsTypeOK, comparison
  <2>9. CASE EndPass \/ PassFails
    BY <2>9 DEF EndPass, PassFails, LeavePass, DiagnosticsTypeOK, requestVars, comparison
  <2>10. CASE Compare
    <3>1. UNCHANGED <<now, jvm, tracked, requestVars, writeMu, passVars>>
      BY <2>10 DEF Compare, ReadFirst, ReadSecond, SecondMissing
    <3>2. reading' \subseteq Row /\ compared' \subseteq [start : Jvm, of : Jvm]
      BY <2>10 DEF Compare, ReadFirst, ReadSecond, SecondMissing, DiagnosticsTypeOK,
                   Row, Origin
    <3> QED
      BY <3>1, <3>2 DEF DiagnosticsTypeOK, requestVars, passVars
  <2>11. CASE UNCHANGED diagnosticsVars
    BY <2>11 DEF diagnosticsVars, DiagnosticsTypeOK, requestVars, passVars, comparison
  <2> QED
    BY <2>1, <2>2, <2>3, <2>4, <2>5, <2>6, <2>7, <2>8, <2>9, <2>10, <2>11
    DEF DiagnosticsNext, Prune
<1> QED
  BY <1>1, <1>2, PTL DEF DiagnosticsSpec

-----------------------------------------------------------------------------
(* What is stored and what a pass drops.                                   *)

(* The writer lock is held by the request that inserts, or by the pass. *)
LockInv ==
  /\ \A r \in Request : request[r].pc = "insert" => writeMu = r
  /\ pass # "idle" => writeMu = Maintainer

(* A request stores at most one row, under its own id. *)
RowsInv ==
  /\ IsFiniteSet(table)
  /\ \A row \in table : request[row.id].pc = "done"
  /\ \A row, other \in table : row.id = other.id => row = other

(* The dumps of the process and kind of row that the pass leaves alone. *)
Kept(row) == {other \in table : /\ other.kind = row.kind /\ other.start = row.start
                                /\ other.id \notin overQuota}

KeptSince(row) == {other \in Kept(row) : other.ts >= row.ts}

(* Until the last surplus row is gone, what stays of each process and kind *)
(* is within the quota, and makes up for every row still to be deleted.    *)
PassInv ==
  pass = "delete" =>
    \A row \in table :
      /\ Cardinality(Kept(row)) <= Keep
      /\ row.id \in overQuota => Cardinality(KeptSince(row)) >= Keep

(* Steps that leave the table, the lock and the pass alone. *)
LEMMA OtherSteps ==
  ASSUME LockInv, RowsInv, PassInv, UNCHANGED <<table, writeMu, pass, overQuota>>,
         \A r \in Request : /\ request'[r].pc = "insert" => request[r].pc = "insert"
                            /\ request[r].pc = "done" => request'[r].pc = "done",
         DiagnosticsTypeOK
  PROVE  LockInv' /\ RowsInv' /\ PassInv'
<1>1. LockInv'
  BY DEF LockInv
<1>2. RowsInv'
  BY DEF RowsInv, DiagnosticsTypeOK, Row
<1>3. PassInv'
  BY DEF PassInv, Kept, KeptSince
<1> QED
  BY <1>1, <1>2, <1>3

(* A step of a request that does not touch the store. *)
LEMMA RequestOnly ==
  ASSUME LockInv, RowsInv, PassInv, DiagnosticsTypeOK, NEW r \in Request,
         \/ Disconnect(r) \/ StoreTimeout(r) \/ Collected(r) \/ CollectFails(r)
         \/ \E k \in Kind : Ask(r, k)
  PROVE  LockInv' /\ RowsInv' /\ PassInv'
<1>0. request[r] \in RequestState
  BY DEF DiagnosticsTypeOK
<1>1. UNCHANGED <<table, writeMu, pass, overQuota>>
  BY DEF Disconnect, StoreTimeout, Collected, CollectFails, Ask, passVars
<1>2. PICK to : request' = [request EXCEPT ![r] = to]
                /\ (to.pc = "insert" => request[r].pc = "insert")
                /\ (request[r].pc = "done" => to.pc = "done")
  <2>1. CASE Disconnect(r)
    <3>1. [request[r] EXCEPT !.ctx = "cancelled"].pc = request[r].pc
      BY <1>0 DEF RequestState
    <3> QED
      BY <2>1, <3>1 DEF Disconnect
  <2>2. CASE StoreTimeout(r)
    <3>1. [request[r] EXCEPT !.ctx = "late"].pc = request[r].pc
      BY <1>0 DEF RequestState
    <3> QED
      BY <2>2, <3>1 DEF StoreTimeout
  <2>3. CASE Collected(r)
    <3>1. [request[r] EXCEPT !.pc = "store", !.of = jvm].pc = "store"
      BY <1>0 DEF RequestState
    <3> QED
      BY <2>3, <3>1 DEF Collected
  <2>4. CASE CollectFails(r)
    BY <2>4, DoneType DEF CollectFails
  <2>5. ASSUME NEW k \in Kind, Ask(r, k)
        PROVE  \E to : request' = [request EXCEPT ![r] = to]
                /\ (to.pc = "insert" => request[r].pc = "insert")
                /\ (request[r].pc = "done" => to.pc = "done")
    <3>1. [request[r] EXCEPT !.pc = "collect", !.kind = k, !.start = tracked,
                             !.ts = now].pc = "collect"
      BY <1>0 DEF RequestState
    <3> QED
      BY <2>5, <3>1 DEF Ask
  <2> QED
    BY <2>1, <2>2, <2>3, <2>4, <2>5
<1>3. \A s \in Request : /\ request'[s].pc = "insert" => request[s].pc = "insert"
                         /\ request[s].pc = "done" => request'[s].pc = "done"
  BY <1>2, RequestStep
<1> QED
  BY <1>1, <1>3, OtherSteps

(* Taking the writer lock, and the insert under it. *)
LEMMA LockWriterInv ==
  ASSUME LockInv, RowsInv, PassInv, DiagnosticsTypeOK, NEW r \in Request,
         LockWriter(r)
  PROVE  LockInv' /\ RowsInv' /\ PassInv'
<1>1. /\ request[r].pc = "store" /\ writeMu = NoOne /\ writeMu' = r
      /\ UNCHANGED <<table, pass, overQuota>>
      /\ \A s \in Request \ {r} : request'[s] = request[s]
  BY RequestStep DEF LockWriter, passVars
<1>2. pass = "idle"
  BY <1>1, ActorAssumption DEF LockInv
<1>3. LockInv'
  BY <1>1, <1>2, ActorAssumption DEF LockInv
<1>4. RowsInv'
  BY <1>1 DEF RowsInv, DiagnosticsTypeOK, Row
<1>5. PassInv'
  BY <1>1, <1>2 DEF PassInv
<1> QED
  BY <1>3, <1>4, <1>5

(* The insert adds the request's one row, or none. *)
LEMMA InsertInv ==
  ASSUME LockInv, RowsInv, PassInv, DiagnosticsTypeOK, NEW r \in Request,
         Insert(r)
  PROVE  LockInv' /\ RowsInv' /\ PassInv'
<1>1. /\ request[r].pc = "insert"
      /\ table' = table \/ table' = table \cup {NewRow(r)}
      /\ writeMu' = Unlocked(r)
      /\ UNCHANGED <<pass, overQuota>>
  BY DEF Insert, passVars
<1>2. writeMu = r /\ writeMu' = NoOne /\ pass = "idle"
  BY <1>1, ActorAssumption DEF LockInv, Unlocked
<1>3. \E answer \in {"stored", "lost_cancelled", "lost_late", "lost_error"} :
        request' = [request EXCEPT ![r] = Done(answer)]
  BY DEF Insert
<1>4. /\ request'[r].pc = "done"
      /\ \A s \in Request \ {r} : request'[s] = request[s]
  BY <1>3, RequestStep, DoneType
<1>5. LockInv'
  BY <1>1, <1>2, <1>4, ActorAssumption DEF LockInv
<1>6. NewRow(r).id = r /\ \A row \in table : row.id # r /\ row.id \in Request
  BY <1>1 DEF NewRow, RowsInv, DiagnosticsTypeOK, Row
<1>7. IsFiniteSet(table')
  BY <1>1, FS_AddElement DEF RowsInv
<1>8. \A row \in table' : request'[row.id].pc = "done"
  BY <1>1, <1>4, <1>6 DEF RowsInv
<1>9. \A row, other \in table' : row.id = other.id => row = other
  BY <1>1, <1>6 DEF RowsInv
<1>10. PassInv'
  BY <1>1, <1>2 DEF PassInv
<1> QED
  BY <1>5, <1>7, <1>8, <1>9, <1>10 DEF RowsInv

(* The statements of the pass. *)
LEMMA ExpireInv ==
  ASSUME LockInv, RowsInv, DiagnosticsTypeOK, Expire
  PROVE  LockInv' /\ RowsInv' /\ PassInv'
<1>1. /\ pass = "expire" /\ pass' = "select"
      /\ table' \in SUBSET table
      /\ UNCHANGED <<request, writeMu>>
  BY DEF Expire
<1>2. LockInv'
  BY <1>1 DEF LockInv
<1>3. IsFiniteSet(table')
  BY <1>1, FS_Subset DEF RowsInv
<1>4. RowsInv'
  BY <1>1, <1>3 DEF RowsInv
<1> QED
  BY <1>1, <1>2, <1>4 DEF PassInv

(* What is selected leaves the quota filled and no row short of its due. *)
LEMMA SelectInv ==
  ASSUME LockInv, RowsInv, DiagnosticsTypeOK, SelectOverQuota
  PROVE  LockInv' /\ RowsInv' /\ PassInv'
<1>1. /\ pass = "select" /\ pass' = "delete"
      /\ UNCHANGED <<request, table, writeMu>>
  BY DEF SelectOverQuota, requestVars
<1>2. PICK rows \in SUBSET table :
        IsOverQuota(rows) /\ overQuota' = {row.id : row \in rows}
  BY DEF SelectOverQuota
<1>3. \A other \in table : other.id \notin overQuota' <=> other \notin rows
  BY <1>2 DEF RowsInv
<1>4. ASSUME NEW row \in table PROVE Kept(row)' = Partition(row) \ rows
  BY <1>1, <1>3, <1>4 DEF Kept, Partition
<1>5. ASSUME NEW row \in table
      PROVE  Cardinality(Kept(row)') <= Keep
  <2>1. CASE row \in rows
    <3>1. Cardinality(Kept(row)') = Keep
      BY <1>2, <1>4, <2>1 DEF IsOverQuota
    <3> QED
      BY <3>1, BoundAssumption
  <2>2. CASE row \notin rows
    BY <1>2, <1>4, <2>2 DEF IsOverQuota
  <2> QED
    BY <2>1, <2>2
<1>6. ASSUME NEW row \in table, row.id \in overQuota'
      PROVE  Cardinality(KeptSince(row)') >= Keep
  <2>1. row \in rows
    BY <1>3, <1>6
  <2>2. /\ Cardinality(Kept(row)') = Keep
        /\ \A other \in Kept(row)' : other.ts >= row.ts
    BY <1>2, <1>4, <2>1 DEF IsOverQuota
  <2>3. KeptSince(row)' = Kept(row)'
    BY <2>2 DEF KeptSince
  <2> QED
    BY <2>2, <2>3, BoundAssumption
<1>7. PassInv'
  BY <1>1, <1>5, <1>6 DEF PassInv
<1>8. LockInv' /\ RowsInv'
  BY <1>1 DEF LockInv, RowsInv
<1> QED
  BY <1>7, <1>8

(* Deleting a surplus row leaves what is kept as it was. *)
LEMMA DeleteInv ==
  ASSUME LockInv, RowsInv, PassInv, DiagnosticsTypeOK, NEW id \in Request,
         DeleteOne(id)
  PROVE  LockInv' /\ RowsInv' /\ PassInv'
<1>1. /\ pass = "delete" /\ pass' = "delete" /\ id \in overQuota
      /\ table' = {row \in table : row.id # id}
      /\ overQuota' = overQuota \ {id}
      /\ UNCHANGED <<request, writeMu>>
  BY DEF DeleteOne
<1>2. ASSUME NEW row \in table'
      PROVE  row \in table /\ Kept(row)' = Kept(row) /\ KeptSince(row)' = KeptSince(row)
  <2>1. Kept(row)' = Kept(row)
    BY <1>1 DEF Kept
  <2> QED
    BY <1>1, <1>2, <2>1 DEF KeptSince
<1>3. PassInv'
  BY <1>1, <1>2 DEF PassInv
<1>4. IsFiniteSet(table')
  <2>1. table' \in SUBSET table
    BY <1>1
  <2> QED
    BY <2>1, FS_Subset DEF RowsInv
<1>5. LockInv' /\ RowsInv'
  BY <1>1, <1>4 DEF LockInv, RowsInv
<1> QED
  BY <1>3, <1>5

(* Every step preserves the three invariants. *)
LEMMA DiagnosticsStep ==
  ASSUME LockInv, RowsInv, PassInv, DiagnosticsTypeOK,
         [DiagnosticsNext]_diagnosticsVars
  PROVE  LockInv' /\ RowsInv' /\ PassInv'
<1>1. CASE Tick \/ Replace \/ Scan \/ Compare \/ UNCHANGED diagnosticsVars
  <2>1. UNCHANGED <<table, request, writeMu, pass, overQuota>>
    BY <1>1 DEF Tick, Replace, Scan, Compare, ReadFirst, ReadSecond, SecondMissing,
                diagnosticsVars, requestVars, passVars
  <2> QED
    BY <2>1, OtherSteps
<1>2. CASE BeginPass
  <2>1. /\ writeMu = NoOne /\ writeMu' = Maintainer /\ pass' = "expire"
        /\ UNCHANGED <<request, table>>
    BY <1>2 DEF BeginPass, requestVars
  <2> QED
    BY <2>1, ActorAssumption DEF LockInv, RowsInv, PassInv
<1>3. CASE EndPass \/ PassFails
  <2>1. /\ pass # "idle" /\ pass' = "idle" /\ writeMu' = NoOne
        /\ UNCHANGED <<request, table>>
    BY <1>3 DEF EndPass, PassFails, LeavePass, requestVars
  <2> QED
    BY <2>1, ActorAssumption DEF LockInv, RowsInv, PassInv
<1> QED
  BY <1>1, <1>2, <1>3, RequestOnly, LockWriterInv, InsertInv, ExpireInv, SelectInv,
     DeleteInv
  DEF DiagnosticsNext, Handle, Prune

(* They hold in every reachable state. *)
LEMMA DiagnosticsInvariant == DiagnosticsSpec => [](LockInv /\ RowsInv /\ PassInv)
<1>1. DiagnosticsInit => LockInv /\ RowsInv /\ PassInv
  BY FS_EmptySet DEF DiagnosticsInit, LockInv, RowsInv, PassInv, Fresh
<1> QED
  BY <1>1, DiagnosticsStep, DiagnosticsTypeCorrect, PTL DEF DiagnosticsSpec

(* A stored dump goes only for age, or while Keep dumps of its process and *)
(* kind that are at least as new stay, even when a pass fails half-way.    *)
THEOREM SurplusOnly == DiagnosticsSpec => OnlySurplusDropped
<1> DEFINE Dropped ==
      \A row \in table \ table' :
        \/ row.ts + Retention < now
        \/ Cardinality({other \in table' :
             /\ other.kind = row.kind /\ other.start = row.start
             /\ other.ts >= row.ts}) >= Keep
<1>1. ASSUME LockInv, RowsInv, PassInv, DiagnosticsTypeOK,
             [DiagnosticsNext]_diagnosticsVars
      PROVE  [Dropped]_diagnosticsVars
  <2> SUFFICES ASSUME NEW row \in table \ table'
               PROVE  \/ row.ts + Retention < now
                      \/ Cardinality({other \in table' :
                           /\ other.kind = row.kind /\ other.start = row.start
                           /\ other.ts >= row.ts}) >= Keep
    OBVIOUS
  <2>1. Expire \/ \E id \in Request : DeleteOne(id)
    <3>1. ASSUME NEW r \in Request,
                 \/ Disconnect(r) \/ StoreTimeout(r) \/ Handle(r)
                 \/ \E k \in Kind : Ask(r, k)
          PROVE  table \subseteq table'
      BY <3>1 DEF Disconnect, StoreTimeout, Handle, Collected, CollectFails, Ask,
                  LockWriter, Insert
    <3>2. CASE Tick \/ Replace \/ Scan \/ BeginPass \/ SelectOverQuota \/ EndPass
               \/ PassFails \/ Compare \/ UNCHANGED diagnosticsVars
      BY <3>2 DEF Tick, Replace, Scan, BeginPass, SelectOverQuota, EndPass, PassFails,
                  LeavePass, Compare, ReadFirst, ReadSecond, SecondMissing,
                  diagnosticsVars, requestVars
    <3> QED
      BY <1>1, <3>1, <3>2 DEF DiagnosticsNext, Prune
  <2>2. CASE Expire
    <3>1. ~ (row.ts + Retention >= now)
      BY <2>2 DEF Expire
    <3>2. row.ts \in Nat /\ Retention \in Nat /\ now \in Nat
      BY <1>1, BoundAssumption DEF DiagnosticsTypeOK, Row, Time
    <3> QED
      BY <3>1, <3>2
  <2>3. ASSUME NEW id \in Request, DeleteOne(id)
        PROVE  Cardinality({other \in table' :
                 /\ other.kind = row.kind /\ other.start = row.start
                 /\ other.ts >= row.ts}) >= Keep
    <3> DEFINE stay == {other \in table' :
                 /\ other.kind = row.kind /\ other.start = row.start
                 /\ other.ts >= row.ts}
    <3>1. /\ pass = "delete" /\ id \in overQuota /\ row.id = id
          /\ table' = {x \in table : x.id # id}
      BY <2>3 DEF DeleteOne
    <3>2. Cardinality(KeptSince(row)) >= Keep
      BY <1>1, <3>1 DEF PassInv
    <3>3. KeptSince(row) \subseteq stay
      BY <3>1 DEF KeptSince, Kept
    <3>4. IsFiniteSet(stay)
      <4>1. stay \in SUBSET table
        BY <3>1
      <4> QED
        BY <1>1, <4>1, FS_Subset DEF RowsInv
    <3>5. /\ Cardinality(KeptSince(row)) <= Cardinality(stay)
          /\ IsFiniteSet(KeptSince(row))
      BY <3>3, <3>4, FS_Subset
    <3>6. Cardinality(KeptSince(row)) \in Nat /\ Cardinality(stay) \in Nat /\ Keep \in Nat
      BY <3>4, <3>5, FS_CardinalityType, BoundAssumption
    <3> HIDE DEF stay
    <3>7. Cardinality(stay) >= Keep
      BY <3>2, <3>5, <3>6
    <3> QED
      BY <3>7 DEF stay
  <2> QED
    BY <2>1, <2>2, <2>3
<1> QED
  BY <1>1, DiagnosticsInvariant, DiagnosticsTypeCorrect, PTL
  DEF DiagnosticsSpec, OnlySurplusDropped

(* A pass that deletes all it selected leaves every process and kind       *)
(* within the quota: nothing is stored behind its back.                    *)
THEOREM QuotaKept == DiagnosticsSpec => QuotaAfterPass
<1>1. ASSUME LockInv, RowsInv, PassInv, DiagnosticsTypeOK,
             [DiagnosticsNext]_diagnosticsVars
      PROVE  [pass = "delete" /\ overQuota = {} /\ pass' = "idle" =>
                \A row \in table' :
                  Cardinality({other \in table' :
                    other.kind = row.kind /\ other.start = row.start}) <= Keep
             ]_diagnosticsVars
  <2> SUFFICES ASSUME pass = "delete", overQuota = {}, pass' = "idle",
                      NEW row \in table'
               PROVE  Cardinality({other \in table' :
                        other.kind = row.kind /\ other.start = row.start}) <= Keep
    OBVIOUS
  <2>1. table' = table
    <3>1. EndPass \/ PassFails
      BY <1>1 DEF DiagnosticsNext, Prune, Handle, Compare, Tick, Replace, Scan,
                  Disconnect, StoreTimeout, Collected, CollectFails, LockWriter, Insert,
                  Ask, BeginPass, Expire, SelectOverQuota, DeleteOne, ReadFirst,
                  ReadSecond, SecondMissing, passVars, diagnosticsVars
    <3> QED
      BY <3>1 DEF EndPass, PassFails, LeavePass, requestVars
  <2>2. Kept(row) = {other \in table : other.kind = row.kind /\ other.start = row.start}
    BY DEF Kept
  <2>3. Cardinality(Kept(row)) <= Keep
    BY <1>1, <2>1 DEF PassInv
  <2> QED
    BY <2>1, <2>2, <2>3
<1> QED
  BY <1>1, DiagnosticsInvariant, DiagnosticsTypeCorrect, PTL
  DEF DiagnosticsSpec, QuotaAfterPass

-----------------------------------------------------------------------------
(* Comparisons.  The start time that a row is filed under comes from the   *)
(* inventory, which may be late; the dump comes from whatever process has  *)
(* the pid when it is taken, which may be a successor and never a          *)
(* predecessor of the one in the inventory.                                *)
Ordered(c) == c.start <= c.of /\ c.of <= jvm

OriginInv ==
  /\ tracked <= jvm
  /\ \A r \in Request :
       /\ request[r].pc = "collect" => request[r].start <= jvm
       /\ request[r].pc \in {"store", "insert"} => Ordered(request[r])
  /\ \A row \in table \cup reading : Ordered(row)
  /\ \A c \in compared : Ordered(c)
  /\ \A c, d \in compared : c.start = d.start
  /\ \A row, other \in reading : row = other

(* Every step preserves OriginInv. *)
LEMMA OriginStep ==
  ASSUME DiagnosticsTypeOK, OriginInv, [DiagnosticsNext]_diagnosticsVars
  PROVE  OriginInv'
<1> DEFINE Agrees(to) ==
      /\ to.pc = "collect" => to.start <= jvm
      /\ to.pc \in {"store", "insert"} => Ordered(to)
<1>0. \A r \in Request : request[r] \in RequestState /\ Agrees(request[r])
  BY DEF DiagnosticsTypeOK, OriginInv
<1>1. ASSUME NEW r \in Request, NEW to, request' = [request EXCEPT ![r] = to],
             Agrees(to), UNCHANGED <<jvm, tracked, comparison>>,
             \A row \in table' : Ordered(row)
      PROVE  OriginInv'
  <2>1. \A s \in Request : Agrees(request'[s])
    BY <1>0, <1>1, RequestStep
  <2>2. reading' = reading /\ compared' = compared /\ jvm' = jvm /\ tracked' = tracked
    BY <1>1 DEF comparison
  <2> QED
    BY <1>1, <2>1, <2>2 DEF OriginInv, Ordered
<1>2. \A row \in table : Ordered(row)
  BY DEF OriginInv
<1>3. ASSUME NEW r \in Request, Disconnect(r) PROVE OriginInv'
  <2>1. Agrees([request[r] EXCEPT !.ctx = "cancelled"])
    BY <1>0 DEF RequestState, Ordered
  <2>2. table' = table
    BY <1>3 DEF Disconnect
  <2> QED
    BY <1>1, <1>2, <1>3, <2>1, <2>2 DEF Disconnect
<1>4. ASSUME NEW r \in Request, StoreTimeout(r) PROVE OriginInv'
  <2>1. Agrees([request[r] EXCEPT !.ctx = "late"])
    BY <1>0 DEF RequestState, Ordered
  <2>2. table' = table
    BY <1>4 DEF StoreTimeout
  <2> QED
    BY <1>1, <1>2, <1>4, <2>1, <2>2 DEF StoreTimeout
<1>5. ASSUME NEW r \in Request, NEW k \in Kind, Ask(r, k) PROVE OriginInv'
  <2>1. tracked <= jvm
    BY DEF OriginInv
  <2>2. Agrees([request[r] EXCEPT !.pc = "collect", !.kind = k, !.start = tracked,
                                  !.ts = now])
    BY <1>0, <2>1 DEF RequestState, Ordered
  <2>3. table' = table
    BY <1>5 DEF Ask
  <2> QED
    BY <1>1, <1>2, <1>5, <2>2, <2>3 DEF Ask
<1>6. ASSUME NEW r \in Request, Collected(r) PROVE OriginInv'
  <2>1. request[r].start <= jvm /\ jvm <= jvm
    BY <1>0, <1>6, BoundAssumption DEF Collected, DiagnosticsTypeOK, Jvm
  <2>2. Agrees([request[r] EXCEPT !.pc = "store", !.of = jvm])
    BY <1>0, <2>1 DEF RequestState, Ordered
  <2>3. table' = table
    BY <1>6 DEF Collected
  <2> QED
    BY <1>1, <1>2, <1>6, <2>2, <2>3 DEF Collected
<1>7. ASSUME NEW r \in Request, CollectFails(r) PROVE OriginInv'
  <2>1. Agrees(Done("bad_gateway"))
    BY DoneType
  <2>2. table' = table
    BY <1>7 DEF CollectFails
  <2> QED
    BY <1>1, <1>2, <1>7, <2>1, <2>2 DEF CollectFails
<1>8. ASSUME NEW r \in Request, LockWriter(r) PROVE OriginInv'
  <2>1. Ordered(request[r])
    BY <1>0, <1>8 DEF LockWriter
  <2>2. Agrees([request[r] EXCEPT !.pc = "insert"])
    BY <1>0, <2>1 DEF RequestState, Ordered
  <2>3. table' = table
    BY <1>8 DEF LockWriter
  <2> QED
    BY <1>1, <1>2, <1>8, <2>2, <2>3 DEF LockWriter
<1>9. ASSUME NEW r \in Request, Insert(r) PROVE OriginInv'
  <2>1. PICK answer \in {"stored", "lost_cancelled", "lost_late", "lost_error"} :
          request' = [request EXCEPT ![r] = Done(answer)]
    BY <1>9 DEF Insert
  <2>2. Agrees(Done(answer))
    BY DoneType
  <2>3. Ordered(NewRow(r))
    BY <1>0, <1>9 DEF Insert, NewRow, Ordered
  <2>4. \A row \in table' : Ordered(row)
    BY <1>2, <1>9, <2>3 DEF Insert
  <2>5. UNCHANGED <<jvm, tracked, comparison>>
    BY <1>9 DEF Insert
  <2> HIDE DEF Agrees
  <2> QED
    BY <1>1, <2>1, <2>2, <2>4, <2>5
<1>10. ASSUME UNCHANGED <<request, comparison>>, table' \subseteq table,
              jvm <= jvm', tracked' <= jvm', jvm' \in Jvm
       PROVE  OriginInv'
  <2>1. ASSUME NEW c, c.start \in Jvm, c.of \in Jvm, Ordered(c)
        PROVE  c.start <= c.of /\ c.of <= jvm'
    BY <1>10, <2>1, BoundAssumption DEF Ordered, Jvm, DiagnosticsTypeOK
  <2>2. \A r \in Request : request[r].start \in Jvm /\ request[r].of \in Jvm
    BY <1>0 DEF RequestState
  <2>3. \A row \in table \cup reading \cup compared : row.start \in Jvm /\ row.of \in Jvm
    BY DEF DiagnosticsTypeOK, Row
  <2>4. \A r \in Request : request[r].pc = "collect" => request[r].start <= jvm'
    BY <1>0, <1>10, <2>2, BoundAssumption DEF Jvm, DiagnosticsTypeOK
  <2>5. reading' = reading /\ compared' = compared /\ request' = request
    BY <1>10 DEF comparison
  <2> QED
    BY <1>10, <2>1, <2>2, <2>3, <2>4, <2>5 DEF OriginInv, Ordered
<1>11. jvm \in Jvm /\ tracked \in Jvm /\ jvm <= jvm /\ tracked <= jvm
  BY BoundAssumption DEF DiagnosticsTypeOK, OriginInv, Jvm
<1>12. CASE Tick \/ BeginPass \/ Expire \/ SelectOverQuota \/ EndPass \/ PassFails
            \/ UNCHANGED diagnosticsVars
  <2>1. UNCHANGED <<request, comparison, jvm, tracked>> /\ table' \subseteq table
    BY <1>12 DEF Tick, BeginPass, Expire, SelectOverQuota, EndPass, PassFails,
                 LeavePass, requestVars, diagnosticsVars
  <2> QED
    BY <1>10, <1>11, <2>1
<1>13. ASSUME NEW id \in Request, DeleteOne(id) PROVE OriginInv'
  BY <1>10, <1>11, <1>13 DEF DeleteOne
<1>14. CASE Replace
  <2>1. /\ jvm' = jvm + 1 /\ jvm < MaxJvms /\ tracked' = tracked
        /\ UNCHANGED <<request, table, comparison>>
    BY <1>14 DEF Replace, requestVars
  <2>2. jvm <= jvm' /\ tracked' <= jvm' /\ jvm' \in Jvm
    BY <1>11, <2>1, BoundAssumption DEF Jvm
  <2> QED
    BY <1>10, <2>1, <2>2
<1>15. CASE Scan
  BY <1>10, <1>11, <1>15 DEF Scan, requestVars
<1>16. CASE Compare
  <2>1. UNCHANGED <<request, table, jvm, tracked>>
    BY <1>16 DEF Compare, ReadFirst, ReadSecond, SecondMissing, requestVars
  <2>2. ASSUME NEW row \in table, ReadFirst(row) PROVE OriginInv'
    BY <2>1, <2>2 DEF ReadFirst, OriginInv, Ordered
  <2>3. ASSUME NEW row \in table, ReadSecond(row) PROVE OriginInv'
    <3>1. /\ \A c \in compared' : Ordered(c)
          /\ \A c, d \in compared' : c.start = d.start
      <4>1. CASE \A first \in reading : Comparable(first, row)
        <5>1. compared' = {Origin(dump) : dump \in reading \cup {row}}
          BY <2>3, <4>1 DEF ReadSecond
        <5>2. \A dump \in reading \cup {row} :
                Ordered(Origin(dump)) /\ Origin(dump).start = row.start
          BY <4>1 DEF Comparable, OriginInv, Origin, Ordered
        <5> QED
          BY <5>1, <5>2
      <4>2. CASE ~ \A first \in reading : Comparable(first, row)
        BY <2>3, <4>2 DEF ReadSecond
      <4> QED
        BY <4>1, <4>2
    <3>2. reading' = {}
      BY <2>3 DEF ReadSecond
    <3> QED
      BY <2>1, <3>1, <3>2 DEF OriginInv, Ordered
  <2>4. CASE SecondMissing
    BY <2>1, <2>4 DEF SecondMissing, OriginInv, Ordered
  <2> QED
    BY <1>16, <2>2, <2>3, <2>4 DEF Compare
<1> QED
  BY <1>3, <1>4, <1>5, <1>6, <1>7, <1>8, <1>9, <1>12, <1>13, <1>14, <1>15, <1>16
  DEF DiagnosticsNext, Handle, Prune

(* A comparison in which the running JVM appears is of its own dumps       *)
(* alone, however late the inventory was, and whatever happened to the pid *)
(* and to the table between them.                                          *)
THEOREM RunningNotMixed == DiagnosticsSpec => []RunningComparedWithItself
<1>1. DiagnosticsInit => OriginInv
  BY DEF DiagnosticsInit, OriginInv, Fresh
<1>2. DiagnosticsTypeOK /\ OriginInv => RunningComparedWithItself
  <2> SUFFICES ASSUME DiagnosticsTypeOK, OriginInv,
                      NEW c \in compared, c.start = jvm, NEW d \in compared
               PROVE  d.of = jvm
    BY DEF RunningComparedWithItself
  <2>1. d.start = jvm /\ d.start <= d.of /\ d.of <= jvm
    BY DEF OriginInv, Ordered
  <2>2. d.of \in Nat /\ jvm \in Nat
    BY BoundAssumption DEF DiagnosticsTypeOK, Jvm
  <2> QED BY <2>1, <2>2
<1> QED
  BY <1>1, <1>2, OriginStep, DiagnosticsTypeCorrect, PTL DEF DiagnosticsSpec
=============================================================================
