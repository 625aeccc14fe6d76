------------------------ MODULE DesktopControlProofs ------------------------
(***************************************************************************)
(* A confirmed stop has ended the recording, and what was paused or        *)
(* stopped stays so until somebody asks to record: for any number of       *)
(* clients, operations and Agent processes, and whatever call is lost,     *)
(* repeated or given up on the way.                                        *)
(*                                                                         *)
(* What makes the newest row a proof is not in the code that looks at it:  *)
(* the process that holds the mutex ends the row before its own, so every  *)
(* older row is over, and a process that records has the newest row open.  *)
(***************************************************************************)
EXTENDS DesktopControl, SequenceTheorems, TLAPS

AgentFields == {"n", "phase", "kind", "capture", "inbox", "heard", "reply"}

OpFields == {"pc", "kind", "stage", "result"}

IsRecord(r, fields) == r = [f \in fields |-> r[f]]

Shapes ==
  /\ IsRecord(agent, AgentFields)
  /\ IsRecord(op, Clients) /\ \A c \in Clients : IsRecord(op[c], OpFields)
  /\ rows \in Seq({"running", "stopped"})

OlderRowsAreOver == \A i \in DOMAIN rows : i # Len(rows) => rows[i] = "stopped"

OwnRowIsOpen ==
  agent.phase \in {"recovered", "serving", "closing"} =>
    rows # <<>> /\ rows[Len(rows)] = "running"

RowInv == Shapes /\ OlderRowsAreOver /\ OwnRowIsOpen

(* A new Agent process is a record with its row still to come. *)
LEMMA AbsentShape ==
  ASSUME NEW n
  PROVE  IsRecord(Absent(n), AgentFields) /\ Absent(n).phase = "none"
BY DEF Absent, AgentFields, IsRecord

LEMMA IdleShape ==
  ASSUME NEW kind, NEW result
  PROVE  /\ IsRecord(Idle(kind, result), OpFields)
         /\ Idle(kind, result).pc = "idle" /\ Idle(kind, result).result = result
BY DEF Idle, OpFields, IsRecord

LEMMA InitRowInv == Init => RowInv
<1> SUFFICES ASSUME Init PROVE RowInv
  OBVIOUS
<1>1. Shapes
  BY AbsentShape, IdleShape DEF Init, Shapes, IsRecord
<1>2. OlderRowsAreOver /\ OwnRowIsOpen
  BY AbsentShape DEF Init, OlderRowsAreOver, OwnRowIsOpen
<1> QED
  BY <1>1, <1>2 DEF RowInv

(***************************************************************************)
(* What a client's step does to the Agent: a request may be put into its   *)
(* inbox or forgotten; only a shutdown moves it on, and never its row.     *)
(***************************************************************************)
PhaseKept == agent'.phase = agent.phase \/ (agent.phase = "serving" /\ agent'.phase = "closing")

LEMMA HearsKeepsPhase ==
  ASSUME IsRecord(agent, AgentFields), NEW c \in Clients, NEW command, Hears(c, command)
  PROVE  IsRecord(agent', AgentFields) /\ PhaseKept
BY DEF Hears, IsRecord, AgentFields, PhaseKept

LEMMA ForgottenKeepsPhase ==
  ASSUME IsRecord(agent, AgentFields), NEW c \in Clients
  PROVE  IsRecord(Forgotten(c), AgentFields) /\ Forgotten(c).phase = agent.phase
BY DEF Forgotten, IsRecord, AgentFields

LEMMA DoneShape ==
  ASSUME Shapes, NEW c \in Clients, NEW result, Done(c, result)
  PROVE  /\ IsRecord(op', Clients) /\ \A d \in Clients : IsRecord(op'[d], OpFields)
         /\ IsRecord(agent', AgentFields) /\ agent'.phase = agent.phase
<1>1. op' = [op EXCEPT ![c] = Idle(op[c].kind, result)]
  BY DEF Done
<1>2. \A d \in Clients : IsRecord(op'[d], OpFields)
  BY <1>1, IdleShape DEF Shapes, IsRecord
<1>3. agent' = Forgotten(c)
  BY DEF Done
<1> QED
  BY <1>1, <1>2, <1>3, ForgottenKeepsPhase DEF IsRecord, Shapes

(* A client's step or the Desktop's end leaves every row and keeps phase.  *)
LEMMA ClientStepShape ==
  ASSUME Shapes, NEW c \in Clients, ClientSteps(c)
  PROVE  Shapes' /\ PhaseKept /\ rows' = rows
<1> USE DEF Shapes
<1>1. CASE \E kind \in Commands : Begin(c, kind)
  BY <1>1 DEF Begin, procVars, PhaseKept, IsRecord, OpFields
<1>2. CASE Found(c)
  BY <1>2 DEF Found, procVars, PhaseKept, IsRecord, OpFields
<1>3. CASE Spawns(c)
  BY <1>3 DEF Spawns, PhaseKept, IsRecord, OpFields
<1>4. CASE StartFails(c)
  BY <1>4, DoneShape DEF StartFails, procVars, PhaseKept
<1>5. CASE Sends(c)
  <2>1. CASE Hears(c, Command(op[c])) /\ op' = [op EXCEPT ![c].pc = "wait"]
    BY <1>5, <2>1, HearsKeepsPhase DEF Sends, procVars, IsRecord, OpFields
  <2>2. CASE op' = [op EXCEPT ![c].pc = "retry"] /\ UNCHANGED agent
    BY <1>5, <2>2 DEF Sends, procVars, IsRecord, OpFields, PhaseKept
  <2>3. CASE Done(c, "err")
    BY <1>5, <2>3, DoneShape DEF Sends, procVars, PhaseKept
  <2> QED
    BY <1>5, <2>1, <2>2, <2>3 DEF Sends
<1>6. CASE AttemptFails(c)
  BY <1>6 DEF AttemptFails, procVars, PhaseKept, IsRecord, OpFields
<1>7. CASE SendsAgain(c)
  <2>1. CASE Hears(c, Command(op[c])) /\ op' = [op EXCEPT ![c].pc = "waitAgain"]
    BY <1>7, <2>1, HearsKeepsPhase DEF SendsAgain, procVars, IsRecord, OpFields
  <2>2. CASE Done(c, "err")
    BY <1>7, <2>2, DoneShape DEF SendsAgain, procVars, PhaseKept
  <2> QED
    BY <1>7, <2>1, <2>2 DEF SendsAgain
<1>8. CASE CallFails(c)
  BY <1>8, DoneShape DEF CallFails, procVars, PhaseKept
<1>9. CASE Answered(c)
  <2>1. CASE Done(c, agent.reply[c])
    BY <1>9, <2>1, DoneShape DEF Answered, procVars, PhaseKept
  <2>2. CASE /\ agent' = Forgotten(c)
             /\ \/ op' = [op EXCEPT ![c].stage = "shutdown", ![c].pc = "call"]
                \/ op' = [op EXCEPT ![c].pc = "poll"]
    <3>1. rows' = rows /\ IsRecord(agent', AgentFields) /\ agent'.phase = agent.phase
      BY <1>9, <2>2, ForgottenKeepsPhase DEF Answered, procVars
    <3>2. IsRecord(op', Clients) /\ \A d \in Clients : IsRecord(op'[d], OpFields)
      BY <2>2 DEF IsRecord, OpFields
    <3> QED
      BY <3>1, <3>2 DEF PhaseKept
  <2> QED
    BY <1>9, <2>1, <2>2 DEF Answered
<1>10. CASE SeesStopped(c)
  BY <1>10, DoneShape DEF SeesStopped, procVars, PhaseKept
<1>11. CASE StopUnproven(c)
  BY <1>11, DoneShape DEF StopUnproven, procVars, PhaseKept
<1> QED
  BY <1>1, <1>2, <1>3, <1>4, <1>5, <1>6, <1>7, <1>8, <1>9, <1>10, <1>11 DEF ClientSteps

LEMMA QuitShape ==
  ASSUME Shapes, DesktopQuits
  PROVE  Shapes' /\ PhaseKept /\ rows' = rows
<1>1. \A c \in Clients : IsRecord(op'[c], OpFields)
  BY IdleShape DEF DesktopQuits
<1> QED
  BY <1>1 DEF DesktopQuits, procVars, Shapes, IsRecord, AgentFields, PhaseKept

LEMMA KeptRowInv ==
  ASSUME RowInv, Shapes', PhaseKept, rows' = rows
  PROVE  RowInv'
BY DEF RowInv, OlderRowsAreOver, OwnRowIsOpen, PhaseKept

(***************************************************************************)
(* The steps of the Agent.                                                 *)
(***************************************************************************)
LEMMA RecoversRowInv ==
  ASSUME RowInv, Recovers
  PROVE  RowInv'
<1> DEFINE ended == IF rows = <<>> THEN rows ELSE [rows EXCEPT ![Len(rows)] = "stopped"]
<1>1. rows \in Seq({"running", "stopped"})
  BY DEF RowInv, Shapes
<1>2. /\ ended \in Seq({"running", "stopped"}) /\ Len(ended) = Len(rows)
      /\ \A i \in 1 .. Len(ended) : ended[i] = "stopped"
  BY <1>1 DEF RowInv, OlderRowsAreOver
<1>3. rows' = Append(ended, "running")
  BY DEF Recovers
<1> HIDE DEF ended
<1>4. /\ rows' \in Seq({"running", "stopped"}) /\ Len(rows') = Len(ended) + 1
      /\ \A i \in 1 .. Len(ended) : rows'[i] = "stopped"
      /\ rows'[Len(rows')] = "running"
  BY <1>2, <1>3
<1>5. IsRecord(agent', AgentFields) /\ op' = op
  BY DEF Recovers, RowInv, Shapes, IsRecord, AgentFields
<1>6. Shapes'
  BY <1>4, <1>5 DEF RowInv, Shapes
<1>7. OlderRowsAreOver' /\ OwnRowIsOpen'
  BY <1>2, <1>4 DEF OlderRowsAreOver, OwnRowIsOpen
<1> QED
  BY <1>6, <1>7 DEF RowInv

LEMMA AgentStepRowInv ==
  ASSUME RowInv, AgentSteps
  PROVE  RowInv'
<1>1. ASSUME NEW kind \in Kinds, ReachesMutex(kind) PROVE RowInv'
  <2>1. CASE agent.phase # "none"
    BY <1>1, <2>1, KeptRowInv DEF ReachesMutex, RowInv, Shapes, PhaseKept
  <2>2. CASE agent.phase = "none"
    <3>1. agent' = [Absent(agent.n + 1) EXCEPT !.phase = "starting", !.kind = kind]
      BY <1>1, <2>2 DEF ReachesMutex
    <3>2. IsRecord(agent', AgentFields) /\ agent'.phase = "starting"
      BY <3>1, AbsentShape DEF IsRecord, AgentFields
    <3> QED
      BY <1>1, <3>2 DEF ReachesMutex, RowInv, Shapes, OlderRowsAreOver, OwnRowIsOpen
  <2> QED
    BY <2>1, <2>2
<1>2. CASE Serves
  <2>1. IsRecord(agent', AgentFields) /\ agent.phase = "recovered"
    BY <1>2 DEF Serves, RowInv, Shapes, IsRecord, AgentFields
  <2> QED
    BY <1>2, <2>1 DEF Serves, procVars, RowInv, Shapes, OlderRowsAreOver, OwnRowIsOpen
<1>3. CASE Executes
  <2>1. IsRecord(agent', AgentFields) /\ agent'.phase = agent.phase
    BY <1>3 DEF Executes, RowInv, Shapes, IsRecord, AgentFields
  <2> QED
    BY <1>3, <2>1, KeptRowInv DEF Executes, procVars, RowInv, Shapes, PhaseKept
<1>4. CASE Finishes
  <2>1. IsRecord(agent', AgentFields) /\ agent'.phase = "final"
    BY <1>4 DEF Finishes, RowInv, Shapes, IsRecord, AgentFields
  <2>2. /\ rows' \in Seq({"running", "stopped"}) /\ Len(rows') = Len(rows)
        /\ \A i \in DOMAIN rows' : i # Len(rows') => rows'[i] = "stopped"
    BY <1>4 DEF Finishes, RowInv, Shapes, OlderRowsAreOver
  <2> QED
    BY <1>4, <2>1, <2>2 DEF Finishes, RowInv, Shapes, OlderRowsAreOver, OwnRowIsOpen
<1>5. CASE Exits
  <2>1. IsRecord(agent', AgentFields) /\ agent'.phase = "none"
    BY <1>5, AbsentShape DEF Exits
  <2> QED
    BY <1>5, <2>1 DEF Exits, procVars, RowInv, Shapes, OlderRowsAreOver, OwnRowIsOpen
<1> QED
  BY <1>1, <1>2, <1>3, <1>4, <1>5, RecoversRowInv DEF AgentSteps

LEMMA StepRowInv == RowInv /\ [Next]_vars => RowInv'
<1> SUFFICES ASSUME RowInv, [Next]_vars PROVE RowInv'
  OBVIOUS
<1>1. ASSUME NEW c \in Clients, ClientSteps(c) PROVE RowInv'
  BY <1>1, ClientStepShape, KeptRowInv DEF RowInv
<1>2. CASE LoginStart
  BY <1>2, KeptRowInv DEF LoginStart, RowInv, Shapes, PhaseKept
<1>3. CASE DesktopQuits
  BY <1>3, QuitShape, KeptRowInv DEF RowInv
<1>4. CASE UNCHANGED vars
  BY <1>4, KeptRowInv DEF vars, procVars, RowInv, Shapes, PhaseKept
<1> QED
  BY <1>1, <1>2, <1>3, <1>4, AgentStepRowInv DEF Next

(* In every reachable state each row but the newest is over, and a process *)
(* that has recovered and not finished has the newest row open             *)
(* (agent_runtime.process_state, recover_startup).                         *)
THEOREM RowsInOrder == Spec => []RowInv
<1> QED
  BY InitRowInv, StepRowInv, PTL DEF Spec

(***************************************************************************)
(* The only step that calls a stop done is the one that sees its row.      *)
(***************************************************************************)
Confirms(c) ==
  op[c].kind = "stop" /\ op[c].pc # "idle" /\ op'[c].pc = "idle" /\ op'[c].result = "ok"

LEMMA DoneTells ==
  ASSUME Shapes, NEW c \in Clients, NEW d \in Clients, NEW result, Done(d, result), Confirms(c)
  PROVE  c = d /\ result = "ok"
<1>1. op' = [op EXCEPT ![d] = Idle(op[d].kind, result)]
  BY DEF Done
<1> QED
  BY <1>1, IdleShape DEF Confirms, Shapes, IsRecord

LEMMA ConfirmedBySight ==
  ASSUME Shapes, NEW c \in Clients, NEW d \in Clients, ClientSteps(d), Confirms(c)
  PROVE  SeesStopped(d)
<1> USE DEF Confirms, Shapes, IsRecord, OpFields
<1>1. ~(\E kind \in Commands : Begin(d, kind))
  BY DEF Begin, MayBegin
<1>2. ~Found(d)
  BY DEF Found
<1>3. ~Spawns(d)
  BY DEF Spawns
<1>4. ~StartFails(d)
  BY DoneTells DEF StartFails
<1>5. ~Sends(d)
  BY DoneTells DEF Sends
<1>6. ~AttemptFails(d)
  BY DEF AttemptFails
<1>7. ~SendsAgain(d)
  BY DoneTells DEF SendsAgain
<1>8. ~CallFails(d)
  BY DoneTells DEF CallFails
<1>9. ~Answered(d)
  <2> SUFFICES ASSUME Answered(d) PROVE FALSE
    OBVIOUS
  <2>1. CASE op[d].kind # "stop" \/ agent.reply[d] = "err"
    BY <2>1, DoneTells DEF Answered
  <2>2. CASE ~(op[d].kind # "stop" \/ agent.reply[d] = "err")
    BY <2>2 DEF Answered
  <2> QED
    BY <2>1, <2>2
<1>10. ~StopUnproven(d)
  BY DoneTells DEF StopUnproven
<1> QED
  BY <1>1, <1>2, <1>3, <1>4, <1>5, <1>6, <1>7, <1>8, <1>9, <1>10 DEF ClientSteps

(* Nobody else ends a stop with success.                                   *)
LEMMA OnlyClientsConfirm ==
  ASSUME Shapes, NEW c \in Clients, [Next]_vars, Confirms(c)
  PROVE  \E d \in Clients : SeesStopped(d)
<1>1. ~UNCHANGED op
  BY DEF Confirms
<1>2. ~AgentSteps
  BY <1>1 DEF AgentSteps, ReachesMutex, Recovers, Serves, Executes, Finishes, Exits
<1>3. ~LoginStart
  BY <1>1 DEF LoginStart
<1>4. ~DesktopQuits
  BY IdleShape DEF DesktopQuits, Confirms
<1>5. \E d \in Clients : ClientSteps(d)
  BY <1>1, <1>2, <1>3, <1>4 DEF Next, vars
<1> QED
  BY <1>5, ConfirmedBySight

(* stop_agent: a stop that reports success has ended the recording, and    *)
(* every Agent that ever wrote a row is durably over.                      *)
THEOREM StopProof == Spec => StopIsProven
<1>1. ASSUME RowInv, [Next]_vars, NEW c \in Clients, Confirms(c)
      PROVE  ~Recording' /\ \A i \in DOMAIN rows' : rows'[i] = "stopped"
  <2>1. PICK d \in Clients : SeesStopped(d)
    BY <1>1, OnlyClientsConfirm DEF RowInv
  <2>2. rows' = rows /\ agent'.phase = agent.phase
    BY <1>1, <2>1, DoneShape DEF SeesStopped, procVars, RowInv
  <2>3. rows # <<>> /\ rows[Len(rows)] = "stopped"
    BY <2>1 DEF SeesStopped, LatestStopped
  <2>4. agent.phase \notin {"serving", "closing"}
    BY <1>1, <2>3 DEF RowInv, OwnRowIsOpen
  <2> QED
    BY <1>1, <2>2, <2>3, <2>4 DEF Recording, RowInv, OlderRowsAreOver
<1>2. RowInv /\ [Next]_vars =>
        [\A c \in Clients : Confirms(c)
            => ~Recording' /\ \A i \in DOMAIN rows' : rows'[i] = "stopped"]_vars
  BY <1>1
<1> QED
  BY <1>2, RowsInOrder, PTL DEF Spec, StopIsProven, Confirms

-----------------------------------------------------------------------------
(* What was paused or stopped stays so until somebody asks to record.      *)
(* One operation at a time means that a request which is still in the      *)
(* Agent's inbox was given up or is the last one; so when a pause is       *)
(* answered nothing is queued behind it, and when a stop is proven the     *)
(* Agent that could have queued something is over.                         *)

Pcs == {"idle", "probe", "arriving", "call", "wait", "retry", "waitAgain", "poll"}
Phases == {"none", "starting", "recovered", "serving", "closing", "final"}
Results == {"none", "ok", "err"}
Requests == [client : Clients \cup {Nobody}, command : Commands]
Agents == [n : Nat, phase : Phases, kind : Kinds, capture : CaptureStates,
           inbox : Seq(Requests), heard : SUBSET Clients, reply : [Clients -> Results]]
Operations == [pc : Pcs, kind : Commands \cup {"none"}, stage : {"capture", "shutdown"},
               result : Results]

Types ==
  /\ agent \in Agents
  /\ op \in [Clients -> Operations]
  /\ launched \in [Kinds -> Nat]
  /\ quiet \in BOOLEAN

Waiting == {"wait", "retry", "waitAgain"}

(* in_flight: one operation at a time. *)
Exclusive ==
  \A c \in Clients : op[c].pc # "idle" =>
    op[c].kind \in Commands /\ \A d \in Clients : op[d].pc # "idle" => c = d

(* Before it serves, an Agent has read nothing. *)
Unread ==
  agent.phase \in {"none", "starting", "recovered"} =>
    agent.inbox = <<>> /\ agent.heard = {} /\ agent.reply = NoReply

(* The Agent knows only of a client that waits for it. *)
HeardWaits ==
  \A c \in Clients : op[c].pc \notin Waiting => c \notin agent.heard /\ agent.reply[c] = "none"

(* The request a client waits for is the last one, or was executed. *)
OwnIsLast ==
  \A c \in Clients :
    /\ \A i \in DOMAIN agent.inbox : agent.inbox[i].client = c =>
         /\ i = Len(agent.inbox) /\ c \in agent.heard
         /\ agent.inbox[i].command = op[c].kind
    /\ c \in agent.heard /\ agent.inbox # <<>> => agent.inbox[Len(agent.inbox)].client = c

(* A pause that was answered has closed the gate, with nothing behind it.  *)
PauseIsLast ==
  \A c \in Clients :
    op[c].kind = "pause" /\ agent.reply[c] = "ok" =>
      c \in agent.heard /\ agent.inbox = <<>> /\ agent.capture # "Running"

(* While it is quiet nothing that could record is under way. *)
NothingOpens ==
  quiet =>
    /\ ~LoginOnItsWay
    /\ \A c \in Clients : op[c].pc # "idle" => op[c].kind \in ClosingCommands
    /\ agent.phase \in {"serving", "closing"} =>
         /\ agent.capture # "Running"
         /\ \A i \in DOMAIN agent.inbox : agent.inbox[i].command \in ClosingCommands

QuietInv ==
  Types /\ Exclusive /\ Unread /\ HeardWaits /\ OwnIsLast /\ PauseIsLast /\ NothingOpens

LEMMA AbsentType ==
  ASSUME NEW n \in Nat
  PROVE  /\ Absent(n) \in Agents
         /\ Absent(n).phase = "none" /\ Absent(n).capture = "Stopped" /\ Absent(n).kind = "plain"
         /\ Absent(n).inbox = <<>> /\ Absent(n).heard = {} /\ Absent(n).reply = NoReply
<1>1. NoReply \in [Clients -> Results]
  BY DEF NoReply, Results
<1>2. <<>> \in Seq(Requests)
  OBVIOUS
<1> QED
  BY <1>1, <1>2 DEF Absent, Agents, Phases, Kinds, CaptureStates

LEMMA IdleType ==
  ASSUME NEW kind \in Commands \cup {"none"}, NEW result \in Results
  PROVE  /\ Idle(kind, result) \in Operations
         /\ Idle(kind, result).pc = "idle" /\ Idle(kind, result).kind = kind
BY DEF Idle, Operations, Pcs

LEMMA InitQuietInv == Init => QuietInv
<1> SUFFICES ASSUME Init PROVE QuietInv
  OBVIOUS
<1>1. agent = Absent(0) /\ quiet = FALSE /\ agent.inbox = <<>>
  BY AbsentType DEF Init
<1>2. op = [c \in Clients |-> Idle("none", "none")]
  BY DEF Init
<1>3. /\ Idle("none", "none") \in Operations
      /\ Idle("none", "none").pc = "idle" /\ Idle("none", "none").kind = "none"
  BY IdleType DEF Results
<1>4. Types
  BY <1>1, <1>2, <1>3, AbsentType DEF Init, Types, Kinds
<1>5. \A c \in Clients : op[c].pc = "idle" /\ op[c].kind = "none"
  BY <1>2, <1>3
<1>6. agent.heard = {} /\ agent.reply = NoReply /\ \A c \in Clients : agent.reply[c] = "none"
  BY <1>1, AbsentType DEF NoReply
<1> QED
  BY <1>1, <1>4, <1>5, <1>6
     DEF QuietInv, Exclusive, Unread, HeardWaits, OwnIsLast, PauseIsLast, NothingOpens

(***************************************************************************)
(* A call is over: its client is forgotten, its request is not.            *)
(***************************************************************************)
IsForgotten(f, c) ==
  /\ f.n = agent.n /\ f.phase = agent.phase /\ f.kind = agent.kind /\ f.capture = agent.capture
  /\ f.heard = agent.heard \ {c} /\ f.reply = [agent.reply EXCEPT ![c] = "none"]
  /\ Len(f.inbox) = Len(agent.inbox) /\ DOMAIN f.inbox = DOMAIN agent.inbox
  /\ \A i \in DOMAIN agent.inbox :
       /\ f.inbox[i].command = agent.inbox[i].command
       /\ \A d \in Clients : f.inbox[i].client = d => d # c /\ agent.inbox[i].client = d

LEMMA ForgottenFacts ==
  ASSUME Types, NEW c \in Clients
  PROVE  Forgotten(c) \in Agents /\ IsForgotten(Forgotten(c), c)
<1> DEFINE box == [i \in DOMAIN agent.inbox |->
                     IF agent.inbox[i].client = c THEN [agent.inbox[i] EXCEPT !.client = Nobody]
                     ELSE agent.inbox[i]]
<1>1. agent \in Agents /\ agent.inbox \in Seq(Requests)
  BY DEF Types, Agents
<1>2. \A i \in DOMAIN agent.inbox : agent.inbox[i] \in Requests
  BY <1>1
<1>3. \A i \in DOMAIN box : box[i] \in Requests
  BY <1>2 DEF Requests
<1>4. box \in Seq(Requests) /\ Len(box) = Len(agent.inbox) /\ DOMAIN box = DOMAIN agent.inbox
  <2>1. DOMAIN box = 1 .. Len(agent.inbox) /\ Len(agent.inbox) \in Nat
    BY <1>1
  <2>2. box \in [1 .. Len(agent.inbox) -> Requests]
    BY <1>3, <2>1
  <2> HIDE DEF box
  <2>3. box \in Seq(Requests)
    BY <2>1, <2>2, SeqDef
  <2> QED
    BY <2>1, <2>2, <2>3
<1>5. \A i \in DOMAIN agent.inbox :
        /\ box[i].command = agent.inbox[i].command
        /\ \A d \in Clients : box[i].client = d => d # c /\ agent.inbox[i].client = d
  BY <1>2, ControlConstants DEF Requests
<1>6. Forgotten(c) = [agent EXCEPT !.heard = @ \ {c}, !.reply = [@ EXCEPT ![c] = "none"], !.inbox = box]
  BY <1>1 DEF Forgotten, Agents
<1> HIDE DEF box
<1>7. agent.heard \ {c} \in SUBSET Clients /\ [agent.reply EXCEPT ![c] = "none"] \in [Clients -> Results]
  BY <1>1 DEF Agents, Results
<1>8. Forgotten(c) = [n |-> agent.n, phase |-> agent.phase, kind |-> agent.kind,
                      capture |-> agent.capture, inbox |-> box, heard |-> agent.heard \ {c},
                      reply |-> [agent.reply EXCEPT ![c] = "none"]]
  BY <1>1, <1>6 DEF Agents
<1>9. Forgotten(c) \in Agents
  BY <1>1, <1>4, <1>7, <1>8 DEF Agents
<1> QED
  BY <1>4, <1>5, <1>8, <1>9 DEF IsForgotten

LEMMA OthersIdle ==
  ASSUME QuietInv, NEW c \in Clients, op[c].pc # "idle"
  PROVE  /\ \A d \in Clients \ {c} : op[d].pc = "idle" /\ d \notin agent.heard /\ agent.reply[d] = "none"
         /\ agent.heard \subseteq {c}
<1>1. \A d \in Clients \ {c} : op[d].pc = "idle"
  BY DEF QuietInv, Exclusive
<1>2. \A d \in Clients \ {c} : d \notin agent.heard /\ agent.reply[d] = "none"
  BY <1>1 DEF QuietInv, HeardWaits, Waiting
<1>3. agent.heard \subseteq Clients
  BY DEF QuietInv, Types, Agents
<1> QED
  BY <1>1, <1>2, <1>3

(* What the Agent knows of its clients after one of them was forgotten. *)
LEMMA ForgottenKnowsNobody ==
  ASSUME QuietInv, NEW c \in Clients, op[c].pc # "idle", agent' = Forgotten(c)
  PROVE  /\ Unread' /\ HeardWaits' /\ OwnIsLast' /\ PauseIsLast'
         /\ agent'.heard = {} /\ \A d \in Clients : agent'.reply[d] = "none"
<1>1. /\ agent'.heard = {} /\ \A d \in Clients : agent'.reply[d] = "none"
      /\ agent'.phase = agent.phase
      /\ \A d \in Clients : \A i \in DOMAIN agent'.inbox : agent'.inbox[i].client # d
  <2>0. IsForgotten(agent', c) /\ agent.reply \in [Clients -> Results]
    BY ForgottenFacts DEF QuietInv, Types, Agents
  <2>1. agent'.heard = {} /\ agent'.phase = agent.phase
    BY <2>0, OthersIdle DEF IsForgotten
  <2>2. \A d \in Clients : agent'.reply[d] = "none"
    BY <2>0, OthersIdle DEF IsForgotten
  <2>3. \A d \in Clients : \A i \in DOMAIN agent'.inbox : agent'.inbox[i].client # d
    <3> SUFFICES ASSUME NEW d \in Clients, NEW i \in DOMAIN agent'.inbox, agent'.inbox[i].client = d
                 PROVE FALSE
      OBVIOUS
    <3>1. d # c /\ i \in DOMAIN agent.inbox /\ agent.inbox[i].client = d
      BY <2>0 DEF IsForgotten
    <3> QED
      BY <3>1, OthersIdle DEF QuietInv, OwnIsLast
  <2> QED
    BY <2>1, <2>2, <2>3
<1>2. Unread'
  <2> SUFFICES ASSUME agent.phase \in {"none", "starting", "recovered"}
               PROVE  agent'.inbox = <<>> /\ agent'.reply = NoReply
    BY <1>1 DEF Unread
  <2>1. agent.inbox = <<>> /\ agent.reply = NoReply
    BY DEF QuietInv, Unread
  <2>2. agent'.inbox \in Seq(Requests) /\ Len(agent'.inbox) = Len(agent.inbox)
    BY ForgottenFacts DEF QuietInv, Agents, IsForgotten
  <2>3. agent'.inbox = <<>>
    BY <2>1, <2>2
  <2>4. agent'.reply = [agent.reply EXCEPT ![c] = "none"]
    BY ForgottenFacts DEF QuietInv, IsForgotten
  <2> QED
    BY <2>1, <2>3, <2>4 DEF NoReply
<1>3. HeardWaits' /\ OwnIsLast' /\ PauseIsLast'
  BY <1>1 DEF HeardWaits, OwnIsLast, PauseIsLast
<1> QED
  BY <1>1, <1>2, <1>3

(***************************************************************************)
(* An operation ends.  If it confirms a pause or a stop, either the Agent  *)
(* has closed its gate with nothing queued behind, or it is over.          *)
(***************************************************************************)
LEMMA DoneQuietInv ==
  ASSUME QuietInv, NEW c \in Clients, op[c].pc # "idle", NEW result \in Results,
         Done(c, result), launched' = launched,
         result = "ok" /\ op[c].kind \in ClosingCommands =>
           \/ agent.phase \notin {"serving", "closing"}
           \/ agent.capture # "Running" /\ agent.inbox = <<>>
  PROVE  QuietInv'
<1>1. op' = [op EXCEPT ![c] = Idle(op[c].kind, result)] /\ agent' = Forgotten(c)
  BY DEF Done
<1>2. agent' \in Agents /\ IsForgotten(agent', c)
  BY <1>1, ForgottenFacts DEF QuietInv
<1>3. op[c].kind \in Commands \cup {"none"}
  BY DEF QuietInv, Types, Operations
<1>4. /\ Idle(op[c].kind, result) \in Operations
      /\ Idle(op[c].kind, result).pc = "idle" /\ Idle(op[c].kind, result).kind = op[c].kind
  BY <1>3, IdleType
<1>5. op' \in [Clients -> Operations]
  BY <1>1, <1>4 DEF QuietInv, Types
<1>6. \A d \in Clients : op'[d].pc = "idle" /\ op'[d].kind = op[d].kind
  BY <1>1, <1>4, OthersIdle DEF QuietInv, Types
<1>7. Types'
  BY <1>2, <1>5 DEF Done, QuietInv, Types
<1>8. Exclusive'
  BY <1>6 DEF Exclusive
<1>9. Unread' /\ HeardWaits' /\ OwnIsLast' /\ PauseIsLast'
  BY <1>1, ForgottenKnowsNobody
<1>10. NothingOpens'
  <2> SUFFICES ASSUME quiet'
               PROVE  /\ ~LoginOnItsWay'
                      /\ agent.phase \in {"serving", "closing"} =>
                           /\ agent.capture # "Running"
                           /\ \A i \in DOMAIN agent.inbox : agent.inbox[i].command \in ClosingCommands
    BY <1>2, <1>6 DEF NothingOpens, IsForgotten
  <2>1. LoginOnItsWay' = LoginOnItsWay
    BY <1>2 DEF LoginOnItsWay, IsForgotten
  <2>2. CASE quiet
    BY <2>1, <2>2 DEF QuietInv, NothingOpens
  <2>3. CASE result = "ok" /\ op[c].kind \in ClosingCommands /\ ~LoginOnItsWay
    BY <2>1, <2>3
  <2> QED
    BY <2>2, <2>3 DEF Done
<1> QED
  BY <1>7, <1>8, <1>9, <1>10 DEF QuietInv

(* An operation goes on, and the Agent has not heard of it. *)
LEMMA MovesQuietInv ==
  ASSUME QuietInv, NEW c \in Clients, op[c].pc # "idle", NEW p \in Pcs \ {"idle"},
         op[c].pc \in Waiting => p \in Waiting,
         op' = [op EXCEPT ![c].pc = p], agent' = agent, quiet' = quiet,
         launched' \in [Kinds -> Nat], launched'["login"] = launched["login"]
  PROVE  QuietInv'
<1>1. op \in [Clients -> Operations]
  BY DEF QuietInv, Types
<1>2. /\ op' \in [Clients -> Operations] /\ op'[c].pc = p
      /\ \A d \in Clients : op'[d].kind = op[d].kind
      /\ \A d \in Clients \ {c} : op'[d] = op[d]
  BY <1>1 DEF Operations
<1>3. Types'
  BY <1>2 DEF QuietInv, Types
<1>4. Exclusive'
  BY <1>2 DEF QuietInv, Exclusive
<1>5. HeardWaits'
  BY <1>2 DEF QuietInv, HeardWaits
<1>6. Unread' /\ OwnIsLast' /\ PauseIsLast'
  BY <1>2 DEF QuietInv, Unread, OwnIsLast, PauseIsLast
<1>7. NothingOpens'
  BY <1>2 DEF QuietInv, NothingOpens, LoginOnItsWay
<1> QED
  BY <1>3, <1>4, <1>5, <1>6, <1>7 DEF QuietInv

(***************************************************************************)
(* A request reaches the Agent.                                            *)
(***************************************************************************)
LEMMA HearsQuietInv ==
  ASSUME QuietInv, NEW c \in Clients, op[c].pc # "idle", NEW p \in {"wait", "waitAgain"}, Reachable,
         Hears(c, Command(op[c])), op' = [op EXCEPT ![c].pc = p], quiet' = quiet,
         launched' = launched
  PROVE  QuietInv'
<1>1. op \in [Clients -> Operations] /\ agent \in Agents /\ launched \in [Kinds -> Nat]
  BY DEF QuietInv, Types
<1>2. /\ op' \in [Clients -> Operations] /\ op'[c].pc = p
      /\ \A d \in Clients : op'[d].kind = op[d].kind
      /\ \A d \in Clients \ {c} : op'[d] = op[d]
  BY <1>1 DEF Operations, Pcs
<1>3. Exclusive'
  BY <1>2 DEF QuietInv, Exclusive
<1>4. op[c].kind \in Commands /\ p \in Waiting
  BY DEF QuietInv, Exclusive, Waiting
<1>5. CASE Command(op[c]) = "shutdown"
  <2>1. op[c].kind = "stop"
    BY <1>4, <1>5 DEF Command, Commands
  <2>2. agent' = [agent EXCEPT !.phase = IF @ = "serving" THEN "closing" ELSE @,
                               !.reply = [@ EXCEPT ![c] = "ok"]]
    BY <1>1, <1>5 DEF Hears, Agents
  <2>3. /\ agent' \in Agents /\ agent'.kind = agent.kind /\ agent'.capture = agent.capture
        /\ agent'.inbox = agent.inbox /\ agent'.heard = agent.heard
        /\ agent'.phase \in {"serving", "closing", "final"}
        /\ agent'.phase \in {"serving", "closing"} => agent.phase \in {"serving", "closing"}
        /\ \A d \in Clients \ {c} : agent'.reply[d] = agent.reply[d]
    BY <1>1, <2>2 DEF Agents, Results, Phases, Reachable
  <2>4. Types' /\ Unread'
    BY <1>1, <1>2, <2>3 DEF QuietInv, Types, Unread
  <2>5. HeardWaits'
    BY <1>2, <1>4, <2>3 DEF QuietInv, HeardWaits
  <2>6. OwnIsLast' /\ PauseIsLast'
    BY <1>2, <2>1, <2>3 DEF QuietInv, OwnIsLast, PauseIsLast
  <2>7. NothingOpens'
    BY <1>2, <2>3 DEF QuietInv, NothingOpens, LoginOnItsWay
  <2> QED
    BY <1>3, <2>4, <2>5, <2>6, <2>7 DEF QuietInv
<1>6. CASE Command(op[c]) # "shutdown" /\ c \in agent.heard
  <2>1. agent' = agent
    BY <1>6 DEF Hears
  <2>2. Types' /\ Unread' /\ HeardWaits' /\ OwnIsLast' /\ PauseIsLast'
    BY <1>1, <1>2, <1>4, <2>1
       DEF QuietInv, Types, Unread, HeardWaits, OwnIsLast, PauseIsLast
  <2>3. NothingOpens'
    BY <1>2, <2>1 DEF QuietInv, NothingOpens, LoginOnItsWay
  <2> QED
    BY <1>3, <2>2, <2>3 DEF QuietInv
<1>7. CASE Command(op[c]) # "shutdown" /\ c \notin agent.heard
  <2> DEFINE request == [client |-> c, command |-> op[c].kind]
  <2>1. Command(op[c]) = op[c].kind
    BY <1>7 DEF Command
  <2>2. agent' = [agent EXCEPT !.heard = @ \cup {c}, !.inbox = Append(@, request)]
    BY <1>7, <2>1 DEF Hears
  <2>3. agent.inbox \in Seq(Requests) /\ request \in Requests
    BY <1>1, <1>4 DEF Agents, Requests
  <2>4. /\ Append(agent.inbox, request) \in Seq(Requests)
        /\ Len(Append(agent.inbox, request)) = Len(agent.inbox) + 1
        /\ Append(agent.inbox, request)[Len(agent.inbox) + 1] = request
        /\ \A i \in 1 .. Len(agent.inbox) : Append(agent.inbox, request)[i] = agent.inbox[i]
    BY <2>3
  <2>5. request.client = c /\ request.command = op[c].kind
    OBVIOUS
  <2> HIDE DEF request
  <2>6. /\ agent' \in Agents /\ agent'.kind = agent.kind /\ agent'.capture = agent.capture
        /\ agent'.phase = agent.phase /\ agent'.reply = agent.reply
        /\ agent'.heard = agent.heard \cup {c} /\ agent'.inbox = Append(agent.inbox, request)
    BY <1>1, <2>2, <2>4 DEF Agents
  <2>7. agent'.heard = {c} /\ agent.heard = {}
    BY <1>7, <2>6, OthersIdle
  <2>8. \A i \in 1 .. Len(agent.inbox) : \A d \in Clients : agent.inbox[i].client # d
    BY <2>3, <2>7 DEF QuietInv, OwnIsLast
  <2>9. DOMAIN agent'.inbox = 1 .. Len(agent.inbox) + 1 /\ Len(agent'.inbox) = Len(agent.inbox) + 1
        /\ Len(agent.inbox) \in Nat
    BY <2>3, <2>4, <2>6
  <2>10. Types' /\ Unread'
    BY <1>1, <1>2, <2>6 DEF QuietInv, Types, Unread, Reachable
  <2>11. HeardWaits'
    BY <1>2, <1>4, <2>6, <2>7 DEF QuietInv, HeardWaits
  <2>12. OwnIsLast'
    <3> SUFFICES ASSUME NEW d \in Clients
                 PROVE  /\ \A i \in DOMAIN agent'.inbox : agent'.inbox[i].client = d =>
                            /\ i = Len(agent'.inbox) /\ d \in agent'.heard
                            /\ agent'.inbox[i].command = op'[d].kind
                        /\ d \in agent'.heard => agent'.inbox[Len(agent'.inbox)].client = d
      BY DEF OwnIsLast
    <3>1. \A i \in 1 .. Len(agent.inbox) : agent'.inbox[i].client # d
      BY <2>4, <2>6, <2>8
    <3>2. agent'.inbox[Len(agent.inbox) + 1] = request
      BY <2>4, <2>6
    <3> QED
      BY <1>2, <2>5, <2>7, <2>9, <3>1, <3>2
  <2>13. PauseIsLast'
    BY <1>2, <1>7, <2>6, <2>7, OthersIdle DEF QuietInv, PauseIsLast
  <2>14. NothingOpens'
    <3> SUFFICES ASSUME quiet, agent.phase \in {"serving", "closing"}, NEW i \in DOMAIN agent'.inbox
                 PROVE  agent'.inbox[i].command \in ClosingCommands
      BY <1>2, <2>6 DEF QuietInv, NothingOpens, LoginOnItsWay
    <3>1. CASE i = Len(agent.inbox) + 1
      BY <2>4, <2>5, <2>6, <3>1 DEF QuietInv, NothingOpens
    <3>2. CASE i \in 1 .. Len(agent.inbox)
      BY <2>3, <2>4, <2>6, <3>2 DEF QuietInv, NothingOpens
    <3> QED
      BY <2>9, <3>1, <3>2
  <2> QED
    BY <1>3, <2>10, <2>11, <2>12, <2>13, <2>14 DEF QuietInv
<1> QED
  BY <1>5, <1>6, <1>7

(***************************************************************************)
(* The other steps of a client.                                            *)
(***************************************************************************)
LEMMA BeginQuietInv ==
  ASSUME QuietInv, NEW c \in Clients, NEW kind \in Commands, Begin(c, kind)
  PROVE  QuietInv'
<1> DEFINE started == [pc |-> IF kind \in {"start", "ensure"} THEN "probe" ELSE "call",
                       kind |-> kind, stage |-> "capture", result |-> "none"]
<1>1. op' = [op EXCEPT ![c] = started] /\ agent' = agent /\ launched' = launched
      /\ quiet' = (quiet /\ kind \in ClosingCommands) /\ \A d \in Clients : op[d].pc = "idle"
  BY DEF Begin, MayBegin, procVars
<1>2. started \in Operations /\ started.pc \in {"probe", "call"} /\ started.kind = kind
  BY DEF Operations, Pcs, Results
<1> HIDE DEF started
<1>3. /\ op' \in [Clients -> Operations] /\ op'[c] = started
      /\ \A d \in Clients \ {c} : op'[d] = op[d]
  BY <1>1, <1>2 DEF QuietInv, Types
<1>4. \A d \in Clients : d \notin agent.heard /\ agent.reply[d] = "none"
  BY <1>1 DEF QuietInv, HeardWaits, Waiting
<1>5. Types' /\ Exclusive' /\ Unread'
  BY <1>1, <1>2, <1>3 DEF QuietInv, Types, Exclusive, Unread
<1>6. HeardWaits' /\ OwnIsLast' /\ PauseIsLast'
  BY <1>1, <1>4 DEF QuietInv, HeardWaits, OwnIsLast, PauseIsLast
<1>7. NothingOpens'
  BY <1>1, <1>2, <1>3 DEF QuietInv, NothingOpens, LoginOnItsWay
<1> QED
  BY <1>5, <1>6, <1>7 DEF QuietInv

(* The first answer to a stop: the shutdown, or the wait for the row. *)
LEMMA StopGoesOn ==
  ASSUME QuietInv, NEW c \in Clients, op[c].pc # "idle", NEW p \in {"call", "poll"},
         NEW s \in {"capture", "shutdown"},
         op' = [op EXCEPT ![c] = [@ EXCEPT !.stage = s, !.pc = p]],
         agent' = Forgotten(c), quiet' = quiet, launched' = launched
  PROVE  QuietInv'
<1>1. op \in [Clients -> Operations] /\ agent' \in Agents /\ IsForgotten(agent', c)
  BY ForgottenFacts DEF QuietInv, Types
<1>2. /\ op' \in [Clients -> Operations] /\ op'[c].pc = p
      /\ \A d \in Clients : op'[d].kind = op[d].kind
      /\ \A d \in Clients \ {c} : op'[d] = op[d]
  BY <1>1 DEF Operations, Pcs
<1>3. Types' /\ Exclusive'
  BY <1>1, <1>2 DEF QuietInv, Types, Exclusive
<1>4. Unread' /\ HeardWaits' /\ OwnIsLast' /\ PauseIsLast'
  BY ForgottenKnowsNobody
<1>5. NothingOpens'
  BY <1>1, <1>2 DEF QuietInv, NothingOpens, LoginOnItsWay, IsForgotten
<1> QED
  BY <1>3, <1>4, <1>5 DEF QuietInv

(* Only a pause is confirmed by its answer; a stop by the row it waits for.*)
LEMMA AnsweredQuietInv ==
  ASSUME QuietInv, NEW c \in Clients, Answered(c)
  PROVE  QuietInv'
<1>1. op[c].pc # "idle" /\ agent.reply[c] \in Results /\ launched' = launched
      /\ op[c] \in Operations /\ op \in [Clients -> Operations]
  BY DEF Answered, procVars, QuietInv, Types, Agents
<1>2. CASE (op[c].kind # "stop" \/ agent.reply[c] = "err") /\ Done(c, agent.reply[c])
  <2>1. agent.reply[c] = "ok" /\ op[c].kind \in ClosingCommands =>
          agent.capture # "Running" /\ agent.inbox = <<>>
    BY <1>2 DEF QuietInv, PauseIsLast, ClosingCommands
  <2> QED
    BY <1>1, <1>2, <2>1, DoneQuietInv
<1>3. CASE /\ agent' = Forgotten(c) /\ quiet' = quiet
           /\ op' = [op EXCEPT ![c].stage = "shutdown", ![c].pc = "call"]
  <2>1. op' = [op EXCEPT ![c] = [@ EXCEPT !.stage = "shutdown", !.pc = "call"]]
    BY <1>1, <1>3 DEF Operations
  <2> QED
    BY <1>1, <1>3, <2>1, StopGoesOn
<1>4. CASE agent' = Forgotten(c) /\ quiet' = quiet /\ op' = [op EXCEPT ![c].pc = "poll"]
  <2>1. op[c].stage \in {"capture", "shutdown"}
    BY <1>1 DEF Operations
  <2>2. op' = [op EXCEPT ![c] = [@ EXCEPT !.stage = op[c].stage, !.pc = "poll"]]
    BY <1>1, <1>4 DEF Operations
  <2> QED
    BY <1>1, <1>4, <2>1, <2>2, StopGoesOn
<1> QED
  BY <1>2, <1>3, <1>4 DEF Answered

LEMMA ClientQuietInv ==
  ASSUME RowInv, QuietInv, NEW c \in Clients, ClientSteps(c)
  PROVE  QuietInv'
<1>1. launched \in [Kinds -> Nat]
  BY DEF QuietInv, Types
<1>2. CASE \E kind \in Commands : Begin(c, kind)
  BY <1>2, BeginQuietInv
<1>3. CASE Found(c)
  BY <1>1, <1>3, MovesQuietInv DEF Found, procVars, Pcs, Waiting
<1>4. CASE Spawns(c)
  <2>1. launched' \in [Kinds -> Nat] /\ launched'["login"] = launched["login"]
    BY <1>1, <1>4 DEF Spawns, Created, Kinds
  <2> QED
    BY <1>4, <2>1, MovesQuietInv DEF Spawns, Pcs, Waiting
<1>5. CASE StartFails(c)
  BY <1>5, DoneQuietInv DEF StartFails, procVars, Results
<1>6. CASE Sends(c)
  <2>1. CASE Hears(c, Command(op[c])) /\ op' = [op EXCEPT ![c].pc = "wait"]
             /\ Reachable /\ quiet' = quiet
    BY <1>6, <2>1, HearsQuietInv DEF Sends, procVars
  <2>2. CASE op' = [op EXCEPT ![c].pc = "retry"] /\ UNCHANGED <<agent, quiet>>
    BY <1>1, <1>6, <2>2, MovesQuietInv DEF Sends, procVars, Pcs, Waiting
  <2>3. CASE Done(c, "err")
    BY <1>6, <2>3, DoneQuietInv DEF Sends, procVars, Results
  <2> QED
    BY <1>6, <2>1, <2>2, <2>3 DEF Sends
<1>7. CASE AttemptFails(c)
  BY <1>1, <1>7, MovesQuietInv DEF AttemptFails, procVars, Pcs, Waiting
<1>8. CASE SendsAgain(c)
  <2>1. CASE Hears(c, Command(op[c])) /\ op' = [op EXCEPT ![c].pc = "waitAgain"]
             /\ Reachable /\ quiet' = quiet
    BY <1>8, <2>1, HearsQuietInv DEF SendsAgain, procVars
  <2>2. CASE Done(c, "err")
    BY <1>8, <2>2, DoneQuietInv DEF SendsAgain, procVars, Results
  <2> QED
    BY <1>8, <2>1, <2>2 DEF SendsAgain
<1>9. CASE CallFails(c)
  BY <1>9, DoneQuietInv DEF CallFails, procVars, Results
<1>10. CASE Answered(c)
  BY <1>10, AnsweredQuietInv
<1>11. CASE SeesStopped(c)
  <2>1. agent.phase \notin {"serving", "closing"}
    BY <1>11 DEF SeesStopped, LatestStopped, RowInv, OwnRowIsOpen
  <2> QED
    BY <1>11, <2>1, DoneQuietInv DEF SeesStopped, procVars, Results
<1>12. CASE StopUnproven(c)
  BY <1>12, DoneQuietInv DEF StopUnproven, procVars, Results
<1> QED
  BY <1>2, <1>3, <1>4, <1>5, <1>6, <1>7, <1>8, <1>9, <1>10, <1>11, <1>12 DEF ClientSteps

(***************************************************************************)
(* The Desktop quits: every client is forgotten.                           *)
(***************************************************************************)
LEMMA QuitQuietInv ==
  ASSUME QuietInv, DesktopQuits
  PROVE  QuietInv'
<1> DEFINE box == [i \in DOMAIN agent.inbox |-> [agent.inbox[i] EXCEPT !.client = Nobody]]
<1>1. /\ agent \in Agents /\ agent.inbox \in Seq(Requests) /\ op \in [Clients -> Operations]
      /\ launched' = launched /\ quiet' = quiet
  BY DEF QuietInv, Types, Agents, DesktopQuits, procVars
<1>2. agent' = [agent EXCEPT !.heard = {}, !.reply = NoReply, !.inbox = box]
  BY <1>1 DEF DesktopQuits, Agents
<1>3. \A i \in DOMAIN agent.inbox : /\ box[i] \in Requests
                                   /\ box[i].command = agent.inbox[i].command /\ box[i].client = Nobody
  <2> SUFFICES ASSUME NEW i \in DOMAIN agent.inbox
               PROVE  /\ box[i] \in Requests
                      /\ box[i].command = agent.inbox[i].command /\ box[i].client = Nobody
    OBVIOUS
  <2>1. agent.inbox[i] \in Requests
    BY <1>1
  <2>2. box[i] = [agent.inbox[i] EXCEPT !.client = Nobody]
    OBVIOUS
  <2> HIDE DEF box
  <2> QED
    BY <2>1, <2>2 DEF Requests
<1>4. box \in [1 .. Len(agent.inbox) -> Requests] /\ Len(agent.inbox) \in Nat
      /\ DOMAIN agent.inbox = 1 .. Len(agent.inbox)
  <2>1. DOMAIN agent.inbox = 1 .. Len(agent.inbox) /\ Len(agent.inbox) \in Nat
    BY <1>1
  <2> QED
    BY <1>3, <2>1
<1> HIDE DEF box
<1>5. box \in Seq(Requests) /\ DOMAIN box = DOMAIN agent.inbox /\ Len(box) = Len(agent.inbox)
  BY <1>4, SeqDef
<1>6. NoReply \in [Clients -> Results] /\ \A d \in Clients : NoReply[d] = "none"
  BY DEF NoReply, Results
<1>7. /\ agent' \in Agents /\ agent'.phase = agent.phase /\ agent'.kind = agent.kind
      /\ agent'.capture = agent.capture /\ agent'.heard = {} /\ agent'.reply = NoReply
      /\ agent'.inbox = box
  BY <1>1, <1>2, <1>5, <1>6 DEF Agents
<1>8. op' = [c \in Clients |-> Idle(op[c].kind, "none")]
  BY DEF DesktopQuits
<1>9. \A c \in Clients : op[c].kind \in Commands \cup {"none"}
  BY <1>1 DEF Operations
<1>10. op' \in [Clients -> Operations] /\ \A c \in Clients : op'[c].pc = "idle"
  BY <1>8, <1>9, IdleType DEF Results
<1>11. Types' /\ Exclusive'
  BY <1>1, <1>7, <1>10 DEF QuietInv, Types, Exclusive
<1>12. Unread'
  BY <1>1, <1>5, <1>7 DEF QuietInv, Unread
<1>13. HeardWaits' /\ OwnIsLast' /\ PauseIsLast'
  BY <1>3, <1>5, <1>6, <1>7, ControlConstants DEF HeardWaits, OwnIsLast, PauseIsLast
<1>14. NothingOpens'
  BY <1>1, <1>3, <1>5, <1>7, <1>10 DEF QuietInv, NothingOpens, LoginOnItsWay
<1> QED
  BY <1>11, <1>12, <1>13, <1>14 DEF QuietInv

(***************************************************************************)
(* The steps of the Agent.                                                 *)
(***************************************************************************)
LEMMA ReachesMutexQuietInv ==
  ASSUME QuietInv, NEW kind \in Kinds, ReachesMutex(kind)
  PROVE  QuietInv'
<1>1. agent \in Agents /\ launched \in [Kinds -> Nat] /\ launched[kind] > 0
  BY DEF QuietInv, Types, ReachesMutex
<1>2. launched' \in [Kinds -> Nat] /\ \A k \in Kinds : launched'[k] <= launched[k]
  BY <1>1 DEF ReachesMutex
<1>3. op' = op /\ quiet' = quiet
  BY DEF ReachesMutex
<1>4. CASE agent.phase # "none"
  <2>1. agent' = agent
    BY <1>4 DEF ReachesMutex
  <2>2. LoginOnItsWay' => LoginOnItsWay
    BY <1>1, <1>2, <2>1 DEF LoginOnItsWay, Kinds
  <2> QED
    BY <1>2, <1>3, <2>1, <2>2
       DEF QuietInv, Types, Exclusive, Unread, HeardWaits, OwnIsLast, PauseIsLast, NothingOpens
<1>5. CASE agent.phase = "none"
  <2>1. agent.n + 1 \in Nat
    BY <1>1 DEF Agents
  <2>2. agent' = [Absent(agent.n + 1) EXCEPT !.phase = "starting", !.kind = kind]
    BY <1>5 DEF ReachesMutex
  <2>3. /\ agent' \in Agents /\ agent'.phase = "starting" /\ agent'.kind = kind
        /\ agent'.inbox = <<>> /\ agent'.heard = {} /\ agent'.reply = NoReply
    BY <2>1, <2>2, AbsentType DEF Agents, Phases
  <2>4. \A c \in Clients : c \notin agent'.heard /\ agent'.reply[c] = "none"
    BY <2>3 DEF NoReply
  <2>5. DOMAIN agent'.inbox = {}
    BY <2>3
  <2>6. Types' /\ Exclusive' /\ Unread' /\ HeardWaits' /\ OwnIsLast' /\ PauseIsLast'
    BY <1>2, <1>3, <2>3, <2>4, <2>5
       DEF QuietInv, Types, Exclusive, Unread, HeardWaits, OwnIsLast, PauseIsLast
  <2>7. LoginOnItsWay' => LoginOnItsWay
    BY <1>1, <1>2, <2>3 DEF LoginOnItsWay, Kinds
  <2>8. NothingOpens'
    BY <1>3, <2>3, <2>7 DEF QuietInv, NothingOpens
  <2> QED
    BY <2>6, <2>8 DEF QuietInv
<1> QED
  BY <1>4, <1>5

(* Nobody has been heard by an Agent that does not serve yet. *)
LEMMA NobodyHeardYet ==
  ASSUME QuietInv, agent.phase \in {"none", "starting", "recovered"}
  PROVE  /\ agent.inbox = <<>> /\ agent.heard = {} /\ agent.reply = NoReply
         /\ \A c \in Clients : c \notin agent.heard /\ agent.reply[c] = "none"
<1>1. agent.inbox = <<>> /\ agent.heard = {} /\ agent.reply = NoReply
  BY DEF QuietInv, Unread
<1>2. \A c \in Clients : agent.reply[c] = "none"
  BY <1>1 DEF NoReply
<1> QED
  BY <1>1, <1>2

LEMMA RecoversQuietInv ==
  ASSUME QuietInv, Recovers
  PROVE  QuietInv'
<1>1. agent \in Agents /\ agent.phase = "starting"
  BY DEF QuietInv, Types, Recovers
<1>2. /\ agent' \in Agents /\ agent'.phase = "recovered" /\ agent'.capture = agent.capture
      /\ agent'.kind = agent.kind /\ agent'.inbox = agent.inbox /\ agent'.heard = agent.heard
      /\ agent'.reply = agent.reply
  BY <1>1 DEF Recovers, Agents, Phases
<1>3. op' = op /\ quiet' = quiet /\ launched' = launched
  BY DEF Recovers
<1>4. Types' /\ Exclusive' /\ Unread' /\ HeardWaits' /\ OwnIsLast' /\ PauseIsLast'
  BY <1>1, <1>2, <1>3
     DEF QuietInv, Types, Exclusive, Unread, HeardWaits, OwnIsLast, PauseIsLast
<1>5. NothingOpens'
  BY <1>1, <1>2, <1>3 DEF QuietInv, NothingOpens, LoginOnItsWay
<1> QED
  BY <1>4, <1>5 DEF QuietInv

LEMMA ServesQuietInv ==
  ASSUME QuietInv, Serves
  PROVE  QuietInv'
<1>1. agent \in Agents /\ agent.phase = "recovered"
  BY DEF QuietInv, Types, Serves
<1>2. /\ agent.inbox = <<>>
      /\ \A c \in Clients : c \notin agent.heard /\ agent.reply[c] = "none"
  BY <1>1, NobodyHeardYet
<1>3. PICK state \in IF agent.kind = "login" THEN {"Running", "Stopped"} ELSE {"Stopped"} :
        agent' = [agent EXCEPT !.phase = "serving", !.capture = state]
  BY DEF Serves
<1>4. state \in CaptureStates /\ (agent.kind # "login" => state = "Stopped")
  BY <1>3 DEF CaptureStates
<1>5. /\ agent' \in Agents /\ agent'.phase = "serving" /\ agent'.capture = state
      /\ agent'.kind = agent.kind /\ agent'.inbox = agent.inbox /\ agent'.heard = agent.heard
      /\ agent'.reply = agent.reply
  <2> HIDE <1>4
  <2>1. state \in CaptureStates
    BY <1>4
  <2> QED
    BY <1>1, <1>3, <2>1 DEF Agents, Phases
<1>6. op' = op /\ quiet' = quiet /\ launched' = launched
  BY DEF Serves, procVars
<1>7. DOMAIN agent'.inbox = {}
  BY <1>2, <1>5
<1>8. Types' /\ Exclusive' /\ Unread' /\ HeardWaits' /\ OwnIsLast' /\ PauseIsLast'
  BY <1>2, <1>5, <1>6, <1>7
     DEF QuietInv, Types, Exclusive, Unread, HeardWaits, OwnIsLast, PauseIsLast
<1>9. NothingOpens'
  BY <1>1, <1>4, <1>5, <1>6, <1>7 DEF QuietInv, NothingOpens, LoginOnItsWay
<1> QED
  BY <1>8, <1>9 DEF QuietInv

LEMMA FinishesQuietInv ==
  ASSUME QuietInv, Finishes
  PROVE  QuietInv'
<1>1. agent \in Agents /\ agent.phase = "closing"
  BY DEF QuietInv, Types, Finishes
<1>2. /\ agent' \in Agents /\ agent'.phase = "final" /\ agent'.capture = agent.capture
      /\ agent'.kind = agent.kind /\ agent'.inbox = agent.inbox /\ agent'.heard = agent.heard
      /\ agent'.reply = agent.reply
  BY <1>1 DEF Finishes, Agents, Phases
<1>3. op' = op /\ quiet' = quiet /\ launched' = launched
  BY DEF Finishes
<1>4. Types' /\ Exclusive' /\ Unread' /\ HeardWaits' /\ OwnIsLast' /\ PauseIsLast'
  BY <1>1, <1>2, <1>3
     DEF QuietInv, Types, Exclusive, Unread, HeardWaits, OwnIsLast, PauseIsLast
<1>5. NothingOpens'
  BY <1>1, <1>2, <1>3 DEF QuietInv, NothingOpens, LoginOnItsWay
<1> QED
  BY <1>4, <1>5 DEF QuietInv

LEMMA ExitsQuietInv ==
  ASSUME QuietInv, Exits
  PROVE  QuietInv'
<1>1. agent.n \in Nat /\ agent' = Absent(agent.n)
  BY DEF QuietInv, Types, Agents, Exits
<1>2. /\ agent' \in Agents /\ agent'.phase = "none" /\ agent'.inbox = <<>>
      /\ agent'.heard = {} /\ agent'.reply = NoReply
  BY <1>1, AbsentType
<1>3. \A c \in Clients : agent'.reply[c] = "none"
  BY <1>2 DEF NoReply
<1>4. op' = op /\ quiet' = quiet /\ launched' = launched /\ DOMAIN agent'.inbox = {}
  BY <1>2 DEF Exits, procVars
<1>5. Types' /\ Exclusive' /\ Unread' /\ HeardWaits' /\ OwnIsLast' /\ PauseIsLast'
  BY <1>2, <1>3, <1>4
     DEF QuietInv, Types, Exclusive, Unread, HeardWaits, OwnIsLast, PauseIsLast
<1>6. NothingOpens'
  BY <1>2, <1>4 DEF QuietInv, NothingOpens, LoginOnItsWay
<1> QED
  BY <1>5, <1>6 DEF QuietInv

(***************************************************************************)
(* A request is executed.  What a command may answer and where it may      *)
(* leave the gate:                                                         *)
(***************************************************************************)
LEMMA ExecutesFacts ==
  ASSUME QuietInv, Executes
  PROVE  \E result \in {"ok", "err"}, state \in CaptureStates :
           /\ agent' = [agent EXCEPT !.inbox = Tail(@), !.capture = state,
                !.reply = IF Head(agent.inbox).client = Nobody THEN @
                          ELSE [@ EXCEPT ![Head(agent.inbox).client] = result]]
           /\ Head(agent.inbox).command \in ClosingCommands =>
                state = agent.capture \/ state # "Running"
           /\ Head(agent.inbox).command = "pause" /\ result = "ok" => state = "Paused"
<1> DEFINE command == Head(agent.inbox).command
<1> DEFINE client == Head(agent.inbox).client
<1> DEFINE Ends(result, state) ==
             agent' = [agent EXCEPT !.inbox = Tail(@), !.capture = state,
                !.reply = IF client = Nobody THEN @ ELSE [@ EXCEPT ![client] = result]]
<1>1. agent.capture \in CaptureStates /\ agent.inbox \in Seq(Requests) /\ agent.inbox # <<>>
  BY DEF QuietInv, Types, Agents, Executes
<1>2. command \in Commands
  <2>1. Head(agent.inbox) \in Requests
    BY <1>1
  <2> QED
    BY <2>1 DEF Requests
<1>3. /\ Target(command) \in CaptureStates
      /\ command \in ClosingCommands => Target(command) # "Running"
      /\ command = "pause" => Target(command) = "Paused"
  <2> HIDE DEF command
  <2> QED
    BY <1>2 DEF Target, Commands, OpeningCommands, ClosingCommands, CaptureStates
<1>4. ClosingCommands \cap OpeningCommands = {}
  BY DEF ClosingCommands, OpeningCommands
<1>5. \/ Ends("err", agent.capture)
      \/ agent.capture = Target(command) /\ Ends("ok", agent.capture)
      \/ Ends("ok", Target(command))
      \/ command \in OpeningCommands /\ \E state \in {agent.capture, "Stopped"} : Ends("err", state)
      \/ command \in ClosingCommands /\ Ends("err", Target(command))
  BY DEF Executes, Idempotent
<1>6. \E result \in {"ok", "err"}, state \in CaptureStates :
        /\ Ends(result, state)
        /\ command \in ClosingCommands => state = agent.capture \/ state # "Running"
        /\ command = "pause" /\ result = "ok" => state = "Paused"
  <2>1. "Stopped" \in CaptureStates
    BY DEF CaptureStates
  <2> HIDE DEF command, Ends
  <2>2. CASE Ends("err", agent.capture)
    BY <1>1, <2>2
  <2>3. CASE agent.capture = Target(command) /\ Ends("ok", agent.capture)
    BY <1>1, <1>3, <2>3
  <2>4. CASE Ends("ok", Target(command))
    BY <1>3, <2>4
  <2>5. CASE command \in OpeningCommands /\ \E state \in {agent.capture, "Stopped"} : Ends("err", state)
    BY <1>1, <1>4, <2>1, <2>5
  <2>6. CASE command \in ClosingCommands /\ Ends("err", Target(command))
    BY <1>3, <2>6
  <2> QED
    BY <1>5, <2>2, <2>3, <2>4, <2>5, <2>6
<1> QED
  BY <1>6

LEMMA ExecutesQuietInv ==
  ASSUME QuietInv, Executes
  PROVE  QuietInv'
<1> DEFINE request == Head(agent.inbox)
<1>1. /\ agent \in Agents /\ agent.inbox \in Seq(Requests) /\ agent.inbox # <<>>
      /\ agent.reply \in [Clients -> Results] /\ Reachable
  BY DEF QuietInv, Types, Agents, Executes
<1>2. op' = op /\ quiet' = quiet /\ launched' = launched
  BY DEF Executes, procVars
<1>3. /\ request \in Requests /\ request = agent.inbox[1] /\ 1 \in DOMAIN agent.inbox
      /\ Tail(agent.inbox) \in Seq(Requests) /\ Len(Tail(agent.inbox)) = Len(agent.inbox) - 1
      /\ Len(agent.inbox) \in Nat /\ DOMAIN agent.inbox = 1 .. Len(agent.inbox)
      /\ \A i \in DOMAIN Tail(agent.inbox) :
           /\ i \in Nat /\ i + 1 \in DOMAIN agent.inbox
           /\ Tail(agent.inbox)[i] = agent.inbox[i + 1]
  BY <1>1
<1>4. PICK result \in {"ok", "err"}, state \in CaptureStates :
        /\ agent' = [agent EXCEPT !.inbox = Tail(@), !.capture = state,
             !.reply = IF request.client = Nobody THEN @
                       ELSE [@ EXCEPT ![request.client] = result]]
        /\ request.command \in ClosingCommands => state = agent.capture \/ state # "Running"
        /\ request.command = "pause" /\ result = "ok" => state = "Paused"
  BY ExecutesFacts
<1>5. request.client \in Clients \cup {Nobody} /\ request.command \in Commands
  BY <1>3 DEF Requests
<1> HIDE DEF request
<1>6. /\ agent' \in Agents /\ agent'.phase = agent.phase /\ agent'.kind = agent.kind
      /\ agent'.heard = agent.heard /\ agent'.inbox = Tail(agent.inbox) /\ agent'.capture = state
      /\ agent'.reply = IF request.client = Nobody THEN agent.reply
                        ELSE [agent.reply EXCEPT ![request.client] = result]
  BY <1>1, <1>3, <1>4, <1>5 DEF Agents, Results
<1>7. \A c \in Clients : request.client = c =>
        Len(agent.inbox) = 1 /\ c \in agent.heard /\ request.command = op[c].kind
  BY <1>3 DEF QuietInv, OwnIsLast
<1>8. \A c \in Clients :
        \/ agent'.reply[c] = agent.reply[c]
        \/ request.client = c /\ agent'.reply[c] = result
  BY <1>1, <1>5, <1>6
<1>9. Types' /\ Exclusive' /\ Unread'
  BY <1>1, <1>2, <1>6 DEF QuietInv, Types, Exclusive, Unread, Reachable
<1>10. HeardWaits'
  BY <1>2, <1>6, <1>7, <1>8 DEF QuietInv, HeardWaits
<1>11. OwnIsLast'
  <2> SUFFICES ASSUME NEW c \in Clients
               PROVE  /\ \A i \in DOMAIN agent'.inbox : agent'.inbox[i].client = c =>
                           /\ i = Len(agent'.inbox) /\ c \in agent'.heard
                           /\ agent'.inbox[i].command = op'[c].kind
                      /\ c \in agent'.heard /\ agent'.inbox # <<>> =>
                           agent'.inbox[Len(agent'.inbox)].client = c
    BY DEF OwnIsLast
  <2>1. ASSUME NEW i \in DOMAIN agent'.inbox, agent'.inbox[i].client = c
        PROVE  /\ i = Len(agent'.inbox) /\ c \in agent'.heard
               /\ agent'.inbox[i].command = op'[c].kind
    <3>1. i \in Nat /\ i + 1 \in DOMAIN agent.inbox /\ agent'.inbox[i] = agent.inbox[i + 1]
      BY <1>3, <1>6, <2>1
    <3>2. /\ i + 1 = Len(agent.inbox) /\ c \in agent.heard
          /\ agent.inbox[i + 1].command = op[c].kind
      BY <2>1, <3>1 DEF QuietInv, OwnIsLast
    <3> QED
      BY <1>2, <1>3, <1>6, <3>1, <3>2
  <2>2. ASSUME c \in agent'.heard, agent'.inbox # <<>>
        PROVE  agent'.inbox[Len(agent'.inbox)].client = c
    <3>1. agent.inbox[Len(agent.inbox)].client = c
      BY <1>1, <1>6, <2>2 DEF QuietInv, OwnIsLast
    <3>2. Len(agent'.inbox) \in DOMAIN agent'.inbox
      BY <1>3, <1>6, <2>2
    <3> QED
      BY <1>3, <1>6, <3>1, <3>2
  <2> QED
    BY <2>1, <2>2
<1>12. PauseIsLast'
  <2> SUFFICES ASSUME NEW c \in Clients, op[c].kind = "pause", agent'.reply[c] = "ok"
               PROVE  c \in agent'.heard /\ agent'.inbox = <<>> /\ agent'.capture # "Running"
    BY <1>2 DEF PauseIsLast
  <2>1. agent.reply[c] # "ok"
    BY <1>1 DEF QuietInv, PauseIsLast
  <2>2. request.client = c /\ result = "ok"
    BY <1>8, <2>1
  <2>3. Len(agent.inbox) = 1 /\ c \in agent.heard /\ request.command = "pause"
    BY <1>7, <2>2
  <2>4. agent'.inbox = <<>>
    BY <1>3, <1>6, <2>3
  <2> QED
    BY <1>4, <1>6, <2>2, <2>3, <2>4
<1>13. NothingOpens'
  <2> SUFFICES ASSUME quiet, agent.phase \in {"serving", "closing"}
               PROVE  /\ state # "Running"
                      /\ \A i \in DOMAIN Tail(agent.inbox) :
                           Tail(agent.inbox)[i].command \in ClosingCommands
    BY <1>2, <1>6 DEF QuietInv, NothingOpens, LoginOnItsWay
  <2>1. /\ agent.capture # "Running"
        /\ \A i \in DOMAIN agent.inbox : agent.inbox[i].command \in ClosingCommands
    BY DEF QuietInv, NothingOpens
  <2> QED
    BY <1>3, <1>4, <2>1
<1> QED
  BY <1>9, <1>10, <1>11, <1>12, <1>13 DEF QuietInv

(* A login that starts the Agent is somebody who asks to record. *)
LEMMA LoginQuietInv ==
  ASSUME QuietInv, LoginStart
  PROVE  QuietInv'
<1>1. launched' \in [Kinds -> Nat]
  BY DEF QuietInv, Types, LoginStart, Created, Kinds
<1>2. op' = op /\ agent' = agent /\ quiet' = FALSE
  BY DEF LoginStart
<1> QED
  BY <1>1, <1>2
     DEF QuietInv, Types, Exclusive, Unread, HeardWaits, OwnIsLast, PauseIsLast, NothingOpens

LEMMA StepQuietInv == RowInv /\ QuietInv /\ [Next]_vars => QuietInv'
<1> SUFFICES ASSUME RowInv, QuietInv, [Next]_vars PROVE QuietInv'
  OBVIOUS
<1>1. CASE \E c \in Clients : ClientSteps(c)
  BY <1>1, ClientQuietInv
<1>2. CASE \E kind \in Kinds : ReachesMutex(kind)
  BY <1>2, ReachesMutexQuietInv
<1>3. CASE Recovers
  BY <1>3, RecoversQuietInv
<1>4. CASE Serves
  BY <1>4, ServesQuietInv
<1>5. CASE Executes
  BY <1>5, ExecutesQuietInv
<1>6. CASE Finishes
  BY <1>6, FinishesQuietInv
<1>7. CASE Exits
  BY <1>7, ExitsQuietInv
<1>8. CASE LoginStart
  BY <1>8, LoginQuietInv
<1>9. CASE DesktopQuits
  BY <1>9, QuitQuietInv
<1>10. CASE UNCHANGED vars
  BY <1>10 DEF vars, QuietInv, Types, Exclusive, Unread, HeardWaits, OwnIsLast, PauseIsLast,
               NothingOpens, LoginOnItsWay
<1> QED
  BY <1>1, <1>2, <1>3, <1>4, <1>5, <1>6, <1>7, <1>8, <1>9, <1>10 DEF Next, AgentSteps

(* After ControlService has confirmed a pause or a stop (control.rs), the  *)
(* Agent records again only when a client or a login asks for it: neither  *)
(* the second attempt of a call in ipc.rs nor a request that was given up  *)
(* nor a process that is still starting brings the recording back.         *)
THEOREM QuietProof == Spec => []StaysQuiet
<1>1. Init => QuietInv
  BY InitQuietInv
<1>2. RowInv /\ QuietInv /\ [Next]_vars => QuietInv'
  BY StepQuietInv
<1>3. QuietInv => StaysQuiet
  BY DEF QuietInv, NothingOpens, StaysQuiet, Recording
<1> QED
  BY <1>1, <1>2, <1>3, RowsInOrder, PTL DEF Spec
=============================================================================
