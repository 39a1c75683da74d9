------------------------------- MODULE Attach -------------------------------
(***************************************************************************)
(* internal/attach and cmd/apm2go-attach-helper: request/response          *)
(* exchanges with one HotSpot JVM over its attach socket.                  *)
(*                                                                         *)
(* The JVM listens only after it was asked to: the client leaves a trigger *)
(* file in the target's working directory and /tmp, sends SIGQUIT, and     *)
(* polls for the socket until its deadline.  Exchanges may overlap: the    *)
(* inventory keeps its own attaches apart, but diagnostic commands and the *)
(* one-shot attach command go to the same JVM without asking it.           *)
(***************************************************************************)
EXTENDS Naturals, Sequences

CONSTANTS
  Exchange,     \* exchanges with this JVM, each performed at most once
  User,         \* user ids
  Root,
  JvmUser,      \* the user the target runs as
  NoFile

Op == {"probe", "load", "jcmd"}

ASSUME UserAssumption == Root \in User /\ JvmUser \in User
ASSUME NoFileAssumption == NoFile \notin Exchange

VARIABLES
  euid,         \* the user apm2go runs as; never changes
  op,           \* [Exchange -> Op]: what is asked; never changes
  pc,           \* [Exchange -> PC]
  usable,       \* exchanges that found or made at least one trigger file
  killed,       \* exchanges whose helper was killed with its parent's context
  trigger,      \* [Path -> Exchange \cup {NoFile}]: who made the file there
  alive,        \* the target: running?
  listener,     \*   is its attach listener up?
  sigquit,      \*   is a SIGQUIT pending?
  backlog,      \*   connections the listener has not finished with, in order
  sent,         \* exchanges whose request has been written
  reply,        \* [Exchange -> Reply]
  executed,     \* exchanges whose request the target has carried out
  before        \* [Exchange -> SUBSET Exchange]: history, the exchanges that
                \* had ended when this one began

env        == <<euid, op>>
fileVars   == <<usable, trigger>>
targetVars == <<alive, listener, sigquit, executed>>
wireVars   == <<backlog, sent, reply>>
vars == <<env, pc, usable, killed, trigger, alive, listener, sigquit,
          backlog, sent, reply, executed, before>>

Path == {"cwd", "tmp"}

(* "runner" is the entry of Runner.LoadAgent and Runner.JCmd, "launch" the *)
(* helper before it has become the target's user, "dial" the first attempt *)
(* to connect, "cwd" and "tmp" the two trigger files.                      *)
PC == {"idle", "runner", "launch", "dial", "cwd", "tmp", "signal", "wait",
       "send", "receive", "ok", "failed"}

(* A decoded reply.  code is the listener's own result, "none" when the    *)
(* connection ended without one or it could not be parsed; rc the agent's  *)
(* result, found on a "return code:" line anywhere in the body; body tells *)
(* a dump from one of the refusals that arrive with code 0, and from a     *)
(* dump larger than the read bound.                                        *)
Reply == [code : {"pending", "none", "zero", "nonzero"},
          rc   : {"absent", "zero", "nonzero"},
          body : {"plain", "refusal", "long"}]

Bare(code) == [code |-> code, rc |-> "absent", body |-> "plain"]
NoReply    == Bare("pending")
HangUp     == Bare("none")

Ended(x) == pc[x] \in {"ok", "failed"}

(* Runner runs a load or a diagnostic command as the target's user; the    *)
(* injector's properties request goes out with apm2go's own credentials.   *)
InHelper(x) == op[x] # "probe" /\ euid # JvmUser
RunsAs(x)   == IF InHelper(x) THEN JvmUser ELSE euid

-----------------------------------------------------------------------------
(* The target, as the client code describes it.                            *)

(* HotSpot looks at the working directory first, and at /tmp only when     *)
(* nothing is there; the file it finds must belong to its own user.        *)
TriggerAccepted ==
  LET found == IF trigger["cwd"] # NoFile THEN "cwd" ELSE "tmp"
  IN  trigger[found] # NoFile /\ RunsAs(trigger[found]) = JvmUser

(* With the file SIGQUIT starts the listener, without it the threads are   *)
(* dumped on the application's output.                                     *)
HandleQuit ==
  /\ sigquit
  /\ sigquit' = FALSE
  /\ listener' = (listener \/ TriggerAccepted)
  /\ UNCHANGED <<env, pc, fileVars, killed, alive, executed, wireVars, before>>

(* What the target answers to a request it carried out, and to one it did  *)
(* not.  The text of a thread dump may contain any line.                   *)
ExecutedReply(o) ==
  CASE o = "probe" -> {Bare("zero")}
    [] o = "load"  -> {[Bare("zero") EXCEPT !.rc = "zero"]}
    [] OTHER        -> [code : {"zero"}, rc : {"absent", "zero", "nonzero"},
                        body : {"plain", "long"}]
RefusedReply(o) ==
  CASE o = "probe" -> {Bare("nonzero")}
    [] o = "load"  -> {Bare("nonzero"), [Bare("zero") EXCEPT !.rc = "nonzero"]}
    [] OTHER        -> {Bare("nonzero"), [Bare("zero") EXCEPT !.body = "refusal"]}

Served(x, r) ==
  /\ backlog' = Tail(backlog)
  /\ reply' = [reply EXCEPT ![x] = r]
  /\ UNCHANGED <<env, pc, fileVars, killed, alive, listener, sigquit, sent, before>>

(* One connection at a time, in the order they arrived.  The listener      *)
(* hangs up on a peer of another user, waits for a whole request, and acts *)
(* on it even if the client is gone by then.                               *)
Serve(x) ==
  /\ listener
  /\ backlog # <<>> /\ x = Head(backlog)
  /\ \/ /\ RunsAs(x) # JvmUser \/ (x \notin sent /\ Ended(x))
        /\ Served(x, HangUp)
        /\ UNCHANGED executed
     \/ /\ RunsAs(x) = JvmUser /\ x \in sent
        /\ executed' = executed \cup {x}
        /\ \E r \in ExecutedReply(op[x]) : Served(x, r)
     \/ /\ RunsAs(x) = JvmUser /\ x \in sent
        /\ \E r \in RefusedReply(op[x]) : Served(x, r)
        /\ UNCHANGED executed

(* The target exits.  Its clients read the end of the stream, the one      *)
(* being answered possibly after the first line.                           *)
Dies ==
  /\ alive
  /\ alive' = FALSE /\ listener' = FALSE /\ sigquit' = FALSE
  /\ backlog' = <<>>
  /\ \E cut \in BOOLEAN :
       reply' = [x \in Exchange |->
                   IF \A i \in DOMAIN backlog : backlog[i] # x THEN reply[x]
                   ELSE IF cut /\ x = backlog[1] /\ x \in sent /\ RunsAs(x) = JvmUser
                     THEN Bare("zero") ELSE HangUp]
  /\ UNCHANGED <<env, pc, fileVars, killed, sent, executed, before>>

-----------------------------------------------------------------------------
(* The client.                                                             *)

Goto(x, label) == pc' = [pc EXCEPT ![x] = label]

(* LoadAgent, JCmd or Properties is called. *)
Call(x) ==
  /\ pc[x] = "idle"
  /\ Goto(x, "runner")
  /\ before' = [before EXCEPT ![x] = {y \in Exchange : Ended(y)}]
  /\ UNCHANGED <<env, fileVars, killed, targetVars, wireVars>>

(* In this process when it already is the target's user, or for the        *)
(* properties request; through the helper when it is root; not otherwise.  *)
Dispatch(x) ==
  /\ pc[x] = "runner"
  /\ Goto(x, CASE ~ InHelper(x) -> "dial"
               [] InHelper(x) /\ euid = Root -> "launch"
               [] OTHER -> "failed")
  /\ UNCHANGED <<env, fileVars, killed, targetVars, wireVars, before>>

(* The helper becomes the target's user, or gives up before it has touched *)
(* anything: a missing binary and every failing step of the drop end it.   *)
Launch(x) ==
  /\ pc[x] = "launch"
  /\ \E label \in {"dial", "failed"} : Goto(x, label)
  /\ UNCHANGED <<env, fileVars, killed, targetVars, wireVars, before>>

Connect(x) ==
  /\ Goto(x, "send")
  /\ backlog' = Append(backlog, x)
  /\ UNCHANGED <<sent, reply>>

(* connect: a listener that is up is used at once. *)
FirstDial(x) ==
  /\ pc[x] = "dial"
  /\ \/ listener /\ Connect(x)
     \/ Goto(x, "cwd") /\ UNCHANGED wireVars
  /\ UNCHANGED <<env, fileVars, killed, targetVars, before>>

(* createTriggerFiles, one location: a file that is there counts as usable *)
(* whoever made it; a location that cannot be written is passed over, and  *)
(* the exchange fails when neither could be used.                          *)
MakeTrigger(x, path) ==
  /\ pc[x] = path
  /\ \/ /\ trigger[path] # NoFile
        /\ usable' = usable \cup {x}
        /\ UNCHANGED trigger
     \/ /\ trigger[path] = NoFile
        /\ trigger' = [trigger EXCEPT ![path] = x]
        /\ usable' = usable \cup {x}
     \/ /\ trigger[path] = NoFile
        /\ UNCHANGED fileVars
  /\ Goto(x, CASE path = "cwd" -> "tmp"
               [] path = "tmp" /\ x \in usable' -> "signal"
               [] OTHER -> "failed")
  /\ UNCHANGED <<env, killed, targetVars, wireVars, before>>

(* Fault: the files are left to whoever comes next. *)
NoCleanup(x) == UNCHANGED trigger

(* The deferred cleanup: the files this exchange made, and no others. *)
Cleanup(x) ==
  trigger' = [path \in Path |-> IF trigger[path] = x THEN NoFile ELSE trigger[path]]

(* The kill fails when the process is gone or is not ours to signal. *)
Signal(x) ==
  /\ pc[x] = "signal"
  /\ \/ /\ alive
        /\ sigquit' = TRUE
        /\ Goto(x, "wait")
        /\ UNCHANGED trigger
     \/ /\ Cleanup(x)
        /\ Goto(x, "failed")
        /\ UNCHANGED sigquit
  /\ UNCHANGED <<env, usable, killed, alive, listener, executed, wireVars, before>>

(* Fault: polling goes on in the background after the deadline. *)
PollForever(x) ==
  /\ pc[x] \in {"wait", "failed"}
  /\ listener /\ \A i \in DOMAIN backlog : backlog[i] # x
  /\ Connect(x)
  /\ Cleanup(x)
  /\ UNCHANGED <<env, usable, killed, targetVars, before>>

(* waitForSocket finds the socket; connect returns and runs its cleanup. *)
Poll(x) ==
  /\ pc[x] = "wait"
  /\ listener
  /\ Connect(x)
  /\ Cleanup(x)
  /\ UNCHANGED <<env, usable, killed, targetVars, before>>

(* Writing fails once the target has closed its end. *)
Send(x) ==
  /\ pc[x] = "send"
  /\ \/ /\ reply[x] = NoReply
        /\ sent' = sent \cup {x}
        /\ Goto(x, "receive")
     \/ /\ reply[x] # NoReply
        /\ Goto(x, "failed")
        /\ UNCHANGED sent
  /\ UNCHANGED <<env, fileVars, killed, targetVars, backlog, reply, before>>

(* Response.OK *)
OK(r) == r.code = "zero" /\ r.rc \in {"absent", "zero"}

(* Fault: the listener's own code is taken for the agent's. *)
ListenerCodeOnly(o, r) ==
  /\ r.code = "zero"
  /\ o = "jcmd" => r.body = "plain"

(* Does the caller report success?  JCmd ignores what looks like an        *)
(* agent's result, and rejects a refusal in the body and a dump that was   *)
(* cut at the read bound.                                                  *)
Accepted(o, r) ==
  IF o = "jcmd" THEN r.code = "zero" /\ r.body = "plain" ELSE OK(r)

(* decodeResponse, and what LoadAgent, Properties and JCmd make of it. *)
Receive(x) ==
  /\ pc[x] = "receive"
  /\ reply[x] # NoReply
  /\ Goto(x, IF Accepted(op[x], reply[x]) THEN "ok" ELSE "failed")
  /\ UNCHANGED <<env, fileVars, killed, targetVars, wireVars, before>>

(* Fault: only the connection is bounded, not the wait for the socket. *)
TimeoutOnConnection(x) ==
  /\ pc[x] \in {"send", "receive"}
  /\ Goto(x, "failed")
  /\ Cleanup(x)
  /\ UNCHANGED <<env, usable, killed, targetVars, wireVars, before>>

(* The deadline of execute passes, while polling or on the connection. *)
Timeout(x) ==
  /\ pc[x] \in {"wait", "send", "receive"}
  /\ Goto(x, "failed")
  /\ Cleanup(x)
  /\ UNCHANGED <<env, usable, killed, targetVars, wireVars, before>>

(* The caller's context ends and CommandContext kills the helper, which    *)
(* runs no deferred function.                                              *)
KillHelper(x) ==
  /\ InHelper(x)
  /\ pc[x] \in {"launch", "dial", "cwd", "tmp", "signal", "wait", "send", "receive"}
  /\ Goto(x, "failed")
  /\ killed' = killed \cup {x}
  /\ UNCHANGED <<env, fileVars, targetVars, wireVars, before>>

-----------------------------------------------------------------------------
Init ==
  /\ euid \in User
  /\ op \in [Exchange -> Op]
  /\ pc = [x \in Exchange |-> "idle"]
  /\ usable = {} /\ killed = {}
  /\ trigger = [path \in Path |-> NoFile]
  /\ alive = TRUE /\ listener = FALSE /\ sigquit = FALSE
  /\ backlog = <<>> /\ sent = {}
  /\ reply = [x \in Exchange |-> NoReply]
  /\ executed = {}
  /\ before = [x \in Exchange |-> {}]

Client(x) ==
  \/ Dispatch(x) \/ Launch(x) \/ FirstDial(x)
  \/ \E path \in Path : MakeTrigger(x, path)
  \/ Signal(x) \/ Poll(x) \/ Send(x) \/ Receive(x) \/ Timeout(x)

Next ==
  \/ HandleQuit \/ Dies
  \/ \E x \in Exchange : Serve(x) \/ Call(x) \/ Client(x) \/ KillHelper(x)

Spec == Init /\ [][Next]_vars

(* The helper and the daemon's goroutines are scheduled; the target may    *)
(* never answer.                                                           *)
FairSpec == Spec /\ \A x \in Exchange : WF_vars(Client(x))

-----------------------------------------------------------------------------
TypeOK ==
  /\ euid \in User
  /\ op \in [Exchange -> Op]
  /\ pc \in [Exchange -> PC]
  /\ usable \subseteq Exchange /\ killed \subseteq Exchange
  /\ trigger \in [Path -> Exchange \cup {NoFile}]
  /\ alive \in BOOLEAN /\ listener \in BOOLEAN /\ sigquit \in BOOLEAN
  /\ backlog \in Seq(Exchange)
  /\ sent \subseteq Exchange
  /\ reply \in [Exchange -> Reply]
  /\ executed \subseteq Exchange
  /\ before \in [Exchange -> SUBSET Exchange]

(* How far an exchange is, as its caller sees it. *)
Status(x) ==
  CASE pc[x] \in {"idle", "ok", "failed"} -> pc[x]
    [] OTHER -> "running"

(* The handshake implements the contract its callers are written against:  *)
(* success is reported for requests the target carried out, whatever       *)
(* overlaps, dies or times out, although the listener answers 0 to a load  *)
(* whose agent failed and to diagnostic commands it does not know.         *)
Contract == INSTANCE AttachContract WITH
              status <- [x \in Exchange |-> Status(x)]
ImplementsContract == Contract!Spec

(* A trigger file outlives its exchange only if the helper was killed:     *)
(* while the file exists, the signal that asks the JVM for a thread dump   *)
(* starts the listener instead.                                            *)
TriggersRemoved ==
  \A path \in Path :
    LET x == trigger[path] IN
    x # NoFile => x \in killed \/ pc[x] \in {"tmp", "signal", "wait"}

(* A request given up at its deadline may still be carried out, but not    *)
(* once a later exchange has been answered: by then the listener has dealt *)
(* with every connection of the exchanges that ended before it began.      *)
(* This is what lets a retry trust the marker it reads.                    *)
SettledBeforeAnswer ==
  \A x \in Exchange :
    pc[x] = "ok" =>
      \A y \in before[x] : \A i \in DOMAIN backlog : backlog[i] # y

(* Every exchange ends, whatever the target does with it. *)
ExchangeEnds == \A x \in Exchange : pc[x] # "idle" ~> Ended(x)
=============================================================================
