---------------------------- MODULE DesktopControl ----------------------------
(***************************************************************************)
(* Who starts, commands and stops the Agent: the Desktop's ControlService  *)
(* and AgentController (control.rs, agent_controller.rs), its pipe client  *)
(* (ipc.rs), the login Run Key, and the Agent processes these create, each *)
(* with its row in agent_runtime.  A process may crash at any time, a call *)
(* may be given up at any time, and the Desktop may quit.                  *)
(*                                                                         *)
(* One Agent at a time holds the single-instance mutex.  It reads requests *)
(* in the order they were sent (one thread, completions in order) and      *)
(* executes them in that order under the coordinator's transition lock;    *)
(* what a command does to the gate is the table of CaptureGate, and how it *)
(* may fail is left open.  Rows are listed in the order of started_at: the *)
(* clock is not set back between two starts.                               *)
(***************************************************************************)
EXTENDS CaptureGate, Sequences, Naturals

CONSTANTS
    Clients,      \* who asks for an operation: window, tray, automatic start
    MaxOps,       \* bound on operations
    MaxLaunched   \* bound on Agent processes created

Nobody == "nobody"

ASSUME ControlConstants ==
    Nobody \notin Clients /\ MaxOps \in Nat /\ MaxLaunched \in Nat

VARIABLES
    op,        \* the operation of each client
    conn,      \* the process the pipe client is connected to, 0 for none
    launched,  \* processes created that have not reached the mutex
    agent,     \* the process that holds the mutex
    rows,      \* agent_runtime.process_state, as far as a stop looks at it
    quiet,     \* history: a pause or stop was confirmed, and nothing asked to record since
    begun, created  \* bounds: operations and processes so far

vars == <<op, conn, launched, agent, rows, quiet, begun, created>>
procVars == <<launched, rows, created>>

Kinds   == {"plain", "login"}
Idle(kind, result) == [pc |-> "idle", kind |-> kind, stage |-> "capture", result |-> result]
NoReply == [c \in Clients |-> "none"]
Absent(n) == [n |-> n, phase |-> "none", kind |-> "plain", capture |-> "Stopped",
              inbox |-> <<>>, heard |-> {}, reply |-> NoReply]

Init ==
    /\ op = [c \in Clients |-> Idle("none", "none")]
    /\ conn = 0 /\ launched = [k \in Kinds |-> 0]
    /\ agent = Absent(0) /\ rows = <<>>
    /\ quiet = FALSE /\ begun = 0 /\ created = 0

(* The pipe answers from the start of the command server to the exit.      *)
Reachable == agent.phase \in {"serving", "closing", "final"}

(* Samples are taken and written until the Writer's final commit.          *)
Recording == agent.phase \in {"serving", "closing"} /\ agent.capture = "Running"

-----------------------------------------------------------------------------
(* The Agent processes.                                                    *)

Created(kind) ==
    /\ created < MaxLaunched /\ created' = created + 1
    /\ launched' = [launched EXCEPT ![kind] = @ + 1]

LoginStart ==
    /\ Created("login") /\ quiet' = FALSE
    /\ UNCHANGED <<op, conn, agent, rows, begun>>

(* SingleInstanceGuard: a process that finds the mutex taken exits.        *)
ReachesMutex(kind) ==
    /\ launched[kind] > 0
    /\ launched' = [launched EXCEPT ![kind] = @ - 1]
    /\ agent' = IF agent.phase # "none" THEN agent
                ELSE [Absent(agent.n + 1) EXCEPT !.phase = "starting", !.kind = kind]
    /\ UNCHANGED <<op, conn, rows, quiet, begun, created>>

(* recover_startup, one transaction: the newest row is ended, if it is     *)
(* not, and the own row inserted.                                          *)
Recovers ==
    /\ agent.phase = "starting"
    /\ agent' = [agent EXCEPT !.phase = "recovered"]
    /\ rows' = Append(IF rows = <<>> THEN rows ELSE [rows EXCEPT ![Len(rows)] = "stopped"],
                      "running")
    /\ UNCHANGED <<op, conn, launched, quiet, begun, created>>

(* Only the Run Key passes --capture-on-start; blocked settings refuse it. *)
Serves ==
    /\ agent.phase = "recovered"
    /\ \E state \in IF agent.kind = "login" THEN {"Running", "Stopped"} ELSE {"Stopped"} :
          agent' = [agent EXCEPT !.phase = "serving", !.capture = state]
    /\ UNCHANGED <<op, conn, procVars, quiet, begun>>

(* The next request in the order of the transition lock.  A success moves  *)
(* the gate as the table says; a failed opening leaves or stops it, a      *)
(* failed closing keeps it closed; without a Writer nothing succeeds.      *)
Executes ==
    LET command == Head(agent.inbox).command
        client  == Head(agent.inbox).client
        Ends(result, state) ==
            agent' = [agent EXCEPT !.inbox = Tail(@), !.capture = state,
                !.reply = IF client = Nobody THEN @ ELSE [@ EXCEPT ![client] = result]]
    IN  /\ Reachable /\ agent.inbox # <<>>
        /\ \/ Invalid(command, agent.capture) /\ Ends("err", agent.capture)
           \/ Idempotent(command, agent.capture) /\ Ends("ok", agent.capture)
           \/ /\ Proceeds(command, agent.capture) /\ agent.phase # "final"
              /\ Ends("ok", Target(command))
           \/ command \in OpeningCommands
              /\ \E state \in {agent.capture, "Stopped"} : Ends("err", state)
           \/ command \in ClosingCommands /\ Ends("err", Target(command))
        /\ UNCHANGED <<op, conn, procVars, quiet, begun>>

(* The Writer's Shutdown, after the event bridge is closed: its last       *)
(* transaction ends the row, or fails.                                     *)
Finishes ==
    /\ agent.phase = "closing"
    /\ agent' = [agent EXCEPT !.phase = "final"]
    /\ rows' \in {rows, [rows EXCEPT ![Len(rows)] = "stopped"]}
    /\ UNCHANGED <<op, conn, launched, quiet, begun, created>>

(* The normal exit, an error before serving, or a crash anywhere.          *)
Exits ==
    /\ agent.phase # "none"
    /\ agent' = Absent(agent.n)
    /\ UNCHANGED <<op, conn, procVars, quiet, begun>>

-----------------------------------------------------------------------------
(* One call of the pipe client: at most two attempts with one request id.  *)

(* Mutant: an operation does not look whether another one is in progress.  *)
FaultyMayBegin(c) == op[c].pc = "idle"

(* acquire: try_lock on in_flight; a second operation is refused.          *)
MayBegin(c) == \A d \in Clients : op[d].pc = "idle"

Command(o) ==
    CASE o.kind = "stop" /\ o.stage = "shutdown" -> "shutdown"
      [] OTHER -> o.kind

(* connection.lock: one call at a time.                                    *)
Calling(c) == \A d \in Clients \ {c} : op[d].pc \notin {"retry", "wait", "waitAgain"}

(* agent_shutdown is answered at once and only wakes main; an id that was  *)
(* heard before joins the first execution; others queue for the lock.      *)
Hears(c, command) ==
    agent' =
        CASE command = "shutdown" ->
                [agent EXCEPT !.phase = IF @ = "serving" THEN "closing" ELSE @,
                              !.reply[c] = "ok"]
          [] command # "shutdown" /\ c \in agent.heard -> agent
          [] OTHER ->
                [agent EXCEPT !.heard = @ \cup {c},
                              !.inbox = Append(@, [client |-> c, command |-> command])]

(* The call of c is over, whatever becomes of its request.                 *)
Forgotten(c) ==
    [agent EXCEPT !.heard = @ \ {c}, !.reply[c] = "none",
        !.inbox = [i \in DOMAIN @ |->
                      IF @[i].client = c THEN [@[i] EXCEPT !.client = Nobody] ELSE @[i]]]

(* A login start that comes to record later is a wish newer than ours.     *)
LoginOnItsWay ==
    \/ launched["login"] > 0
    \/ agent.phase \in {"starting", "recovered"} /\ agent.kind = "login"

Done(c, result) ==
    /\ op' = [op EXCEPT ![c] = Idle(@.kind, result)]
    /\ agent' = Forgotten(c)
    /\ quiet' = (quiet \/ (result = "ok" /\ op[c].kind \in ClosingCommands /\ ~LoginOnItsWay))

(* The cached connection, or a new one; a dead one costs the attempt.      *)
Sends(c) ==
    /\ op[c].pc = "call" /\ Calling(c)
    /\ \/ /\ Reachable /\ conn \in {0, agent.n}
          /\ Hears(c, Command(op[c]))
          /\ op' = [op EXCEPT ![c].pc = "wait"]
          /\ conn' = agent.n /\ UNCHANGED quiet
       \/ /\ conn # 0 /\ ~(Reachable /\ conn = agent.n)
          /\ op' = [op EXCEPT ![c].pc = "retry"]
          /\ conn' = 0 /\ UNCHANGED <<agent, quiet>>
       \/ conn = 0 /\ Done(c, "err") /\ UNCHANGED conn
    /\ UNCHANGED <<procVars, begun>>

(* No answer in 3 s, or the connection broke.                              *)
AttemptFails(c) ==
    /\ op[c].pc = "wait"
    /\ op' = [op EXCEPT ![c].pc = "retry"]
    /\ conn' = 0
    /\ UNCHANGED <<agent, procVars, quiet, begun>>

SendsAgain(c) ==
    /\ op[c].pc = "retry"
    /\ \/ /\ Reachable
          /\ Hears(c, Command(op[c]))
          /\ op' = [op EXCEPT ![c].pc = "waitAgain"]
          /\ conn' = agent.n /\ UNCHANGED quiet
       \/ Done(c, "err") /\ UNCHANGED conn
    /\ UNCHANGED <<procVars, begun>>

CallFails(c) ==
    /\ op[c].pc = "waitAgain"
    /\ Done(c, "err") /\ conn' = 0
    /\ UNCHANGED <<procVars, begun>>

(* stop_agent: the boundary, then the shutdown, then the wait for the row. *)
Answered(c) ==
    /\ op[c].pc \in {"wait", "waitAgain"} /\ Reachable /\ conn = agent.n
    /\ agent.reply[c] # "none"
    /\ IF op[c].kind # "stop" \/ agent.reply[c] = "err"
       THEN Done(c, agent.reply[c]) /\ UNCHANGED conn
       ELSE /\ \/ /\ op[c].stage = "capture"
                  /\ op' = [op EXCEPT ![c].stage = "shutdown", ![c].pc = "call"]
                  /\ UNCHANGED conn
               \/ /\ op[c].stage = "shutdown"
                  /\ op' = [op EXCEPT ![c].pc = "poll"]
                  /\ conn' = 0
            /\ agent' = Forgotten(c)
            /\ UNCHANGED quiet
    /\ UNCHANGED <<procVars, begun>>

-----------------------------------------------------------------------------
(* The operations of ControlService.                                       *)

Begin(c, kind) ==
    /\ MayBegin(c) /\ begun < MaxOps
    /\ begun' = begun + 1
    /\ op' = [op EXCEPT ![c] = [pc |-> IF kind \in {"start", "ensure"} THEN "probe" ELSE "call",
                                kind |-> kind, stage |-> "capture", result |-> "none"]]
    /\ quiet' = (quiet /\ kind \in ClosingCommands)
    /\ UNCHANGED <<conn, agent, procVars>>

(* ensure_running under start_lock: a status answer, or a new process and  *)
(* up to 50 further looks.                                                 *)
StartLock(c) == \A d \in Clients \ {c} : op[d].pc # "arriving"

Found(c) ==
    /\ op[c].pc \in {"probe", "arriving"} /\ StartLock(c) /\ Calling(c)
    /\ Reachable
    /\ op' = [op EXCEPT ![c].pc = "call"]
    /\ conn' = agent.n
    /\ UNCHANGED <<agent, procVars, quiet, begun>>

Spawns(c) ==
    /\ op[c].pc = "probe" /\ StartLock(c) /\ Calling(c)
    /\ Created("plain")
    /\ op' = [op EXCEPT ![c].pc = "arriving"]
    /\ conn' = 0
    /\ UNCHANGED <<agent, rows, quiet, begun>>

StartFails(c) ==
    /\ op[c].pc \in {"probe", "arriving"} /\ StartLock(c)
    /\ Done(c, "err") /\ conn' = 0
    /\ UNCHANGED <<procVars, begun>>

(* Mutant: the poll is content with any ended row.                         *)
FaultyLatestStopped == \E i \in DOMAIN rows : rows[i] = "stopped"

(* latest_runtime: the newest row.                                         *)
LatestStopped == rows # <<>> /\ rows[Len(rows)] = "stopped"

SeesStopped(c) ==
    /\ op[c].pc = "poll" /\ LatestStopped
    /\ Done(c, "ok")
    /\ UNCHANGED <<conn, procVars, begun>>

(* AGENT_STOP_WAIT is over; the operation says so.                         *)
StopUnproven(c) ==
    /\ op[c].pc = "poll"
    /\ Done(c, "err")
    /\ UNCHANGED <<conn, procVars, begun>>

(* The Desktop quits or crashes; the Agent goes on.                        *)
DesktopQuits ==
    /\ \E c \in Clients : op[c].pc # "idle"
    /\ op' = [c \in Clients |-> Idle(op[c].kind, "none")]
    /\ conn' = 0
    /\ agent' = [agent EXCEPT !.heard = {}, !.reply = NoReply,
                    !.inbox = [i \in DOMAIN @ |-> [@[i] EXCEPT !.client = Nobody]]]
    /\ UNCHANGED <<procVars, quiet, begun>>

-----------------------------------------------------------------------------
ClientSteps(c) ==
    \/ \E kind \in Commands : Begin(c, kind)
    \/ Found(c) \/ Spawns(c) \/ StartFails(c)
    \/ Sends(c) \/ AttemptFails(c) \/ SendsAgain(c) \/ CallFails(c) \/ Answered(c)
    \/ SeesStopped(c) \/ StopUnproven(c)

AgentSteps ==
    \/ \E kind \in Kinds : ReachesMutex(kind)
    \/ Recovers \/ Serves \/ Executes \/ Finishes \/ Exits

Next == (\E c \in Clients : ClientSteps(c)) \/ AgentSteps \/ LoginStart \/ DesktopQuits

Spec == Init /\ [][Next]_vars

-----------------------------------------------------------------------------
(* A stop that reports success has ended the recording: at that moment no  *)
(* Agent records, and every Agent that ever wrote a row is durably over -  *)
(* the one that took the request, crashed ones before it, and one that the *)
(* login may have started in between.                                      *)
StopIsProven ==
    [][\A c \in Clients :
          op[c].kind = "stop" /\ op[c].pc # "idle" /\ op'[c].pc = "idle"
              /\ op'[c].result = "ok"
          => ~Recording' /\ \A i \in DOMAIN rows' : rows'[i] = "stopped"]_vars

(* After a pause or stop was confirmed nothing records until somebody asks *)
(* for it again: no retry, no request of an operation given up before, no  *)
(* process still on its way brings the recording back.                     *)
StaysQuiet == quiet => ~Recording
=============================================================================
