---------------------- MODULE SettingsPersistenceProofs ----------------------
(***************************************************************************)
(* What the double-slot protocol guarantees for any set of bodies, any     *)
(* bound on revisions and any number of events.                            *)
(*                                                                         *)
(* The invariant adds to the type invariant what holds of a persist call   *)
(* at each of its stages: from the pre-check on its content is not         *)
(* refused, and before the commit a slot holds it.                         *)
(***************************************************************************)
EXTENDS SettingsPersistence, TLAPS

(* A tuple of variables, for what a step leaves alone.                     *)
USE DEF login

JobInv ==
    /\ job.by = "nobody" => job.pc = "check"
    /\ agent.pc = "down" \/ agent.blocked => job.by = "nobody"
    /\ job.pc \in {"slot", "commit"} => ~Refused(job.s)
    /\ job.pc = "commit" => job.s.rev > db.rev
    /\ job.pc = "commit" /\ ~damaged => \E n \in Slots : slots[n] = job.s

LkgInv ==
    /\ db.rev = 0 => db = Default
    /\ ~damaged /\ db.rev > 0 => \E n \in Slots : slots[n] = db

EngineInv ==
    /\ agent.pc = "up" =>
           agent.applied = db.rev /\ agent.engine = (IF agent.blocked THEN Default ELSE db)
    /\ agent.blocked => agent.pc = "up" /\ db.rev > 0

IInv == TypeOK /\ JobInv /\ LkgInv /\ EngineInv /\ NeverBlockedByItself

(* Settings are equal when their fields are.                               *)
LEMMA SettingsEqual ==
    ASSUME NEW s \in Settings, NEW t \in Settings, s.rev = t.rev, s.body = t.body
    PROVE  s = t
BY DEF Settings

(* The slot a write goes to is never the only one that matches the row.    *)
LEMMA ChosenSlotIsSpare ==
    ASSUME slots \in [Slots -> Settings \cup {Missing}], NEW s,
           \E n \in Slots : slots[n] = db
    PROVE  \E n \in Slots : [slots EXCEPT ![ChosenSlot] = s][n] = db \/ s = db
<1>1. CASE slots["a"] = db /\ slots["b"] # db
    <2>1. Matching(db) = {"a"}
        BY <1>1 DEF Matching, Slots
    <2>2. ChosenSlot = "b"
        BY <2>1 DEF ChosenSlot
    <2> QED BY <1>1, <2>2 DEF Slots
<1>2. CASE slots["b"] = db
    <2>1. "b" \in Matching(db)
        BY <1>2 DEF Matching, Slots
    <2>2. ChosenSlot = "a"
        BY <2>1 DEF ChosenSlot
    <2> QED BY <1>2, <2>2 DEF Slots
<1> QED BY <1>1, <1>2 DEF Slots

(* What was written is in the slot it was written to.                      *)
LEMMA ChosenSlotTakes ==
    ASSUME slots \in [Slots -> Settings \cup {Missing}], NEW s
    PROVE  /\ ChosenSlot \in Slots
           /\ [slots EXCEPT ![ChosenSlot] = s][ChosenSlot] = s
BY DEF ChosenSlot, Slots

LEMMA DefaultIsSettings == Default \in Settings
BY SettingsAssumption DEF Default, Settings

LEMMA IdleIsSave == Idle \in Saves
BY DefaultIsSettings DEF Idle, Saves

LEMMA NoJobIsJob == NoJob \in Jobs
BY DefaultIsSettings DEF NoJob, Jobs

LEMMA DownIsAgent == Down \in Agents
BY DefaultIsSettings, SettingsAssumption DEF Down, Agents

LEMMA NoResyncIsResync == NoResync \in Resyncs
BY DEF NoResync, Resyncs

LEMMA InitInv == Init => IInv
<1> SUFFICES ASSUME Init PROVE IInv
    OBVIOUS
<1> USE DEF Init
<1>1. TypeOK
    <2>1. slots \in [Slots -> Settings \cup {Missing}] /\ file \in Files
        BY DEF Files
    <2>2. agent \in Agents
        BY DefaultIsSettings, SettingsAssumption DEF Down, Agents
    <2>3. asked \in [Callers -> Settings \cup {None}]
        BY DEF NobodyAsks
    <2>4. job \in Jobs
        BY NoJobIsJob
    <2>5. desktop \in Saves
        BY IdleIsSave
    <2>6. db \in Settings /\ events \in 0..MaxEvents
        BY DefaultIsSettings, SettingsAssumption
    <2>7. resync \in Resyncs
        BY NoResyncIsResync
    <2> QED BY <2>1, <2>2, <2>3, <2>4, <2>5, <2>6, <2>7 DEF TypeOK
<1>2. JobInv
    BY DEF JobInv, NoJob, Down
<1>3. LkgInv
    BY DEF LkgInv, Default
<1>4. EngineInv /\ NeverBlockedByItself
    BY DEF EngineInv, NeverBlockedByItself, Down
<1> QED BY <1>1, <1>2, <1>3, <1>4 DEF IInv

-----------------------------------------------------------------------------
(* The start.                                                              *)

(* What Adopt does to the Agent, for settings that are the row's own or    *)
(* newer than it.                                                          *)
LEMMA AdoptInv ==
    ASSUME IInv, agent.pc = "down", NEW s \in Settings, Adopt(s), ~Refused(s),
           UNCHANGED <<file, slots, db, asked, desktop, login, damaged, events>>
    PROVE  IInv'
<1> USE DEF IInv
<1>1. CASE s.rev = 0
    <2>1. /\ agent' = [pc |-> "up", blocked |-> FALSE, faulted |-> FALSE,
                      engine |-> s, applied |-> 0]
          /\ job' = job
        BY <1>1 DEF Adopt, Up
    <2>2. s = db /\ db.rev = 0
        BY <1>1, SettingsAssumption DEF Refused, TypeOK, Settings
    <2>3. TypeOK'
        <3>1. agent' \in Agents
            BY <2>1, SettingsAssumption DEF Agents
        <3> QED BY <2>1, <3>1 DEF TypeOK
    <2>4. JobInv'
        BY <2>1 DEF JobInv, Refused
    <2>5. LkgInv' /\ EngineInv' /\ NeverBlockedByItself'
        BY <2>1, <2>2 DEF LkgInv, EngineInv, NeverBlockedByItself
    <2> QED BY <2>3, <2>4, <2>5
<1>2. CASE s.rev # 0
    <2>1. /\ agent' = [pc |-> "starting", blocked |-> FALSE, faulted |-> FALSE,
                      engine |-> s, applied |-> 0]
          /\ job' = [by |-> "startup", pc |-> "check", s |-> s]
        BY <1>2 DEF Adopt
    <2>2. TypeOK'
        <3>1. agent' \in Agents /\ job' \in Jobs
            BY <2>1, SettingsAssumption DEF Agents, Jobs
        <3> QED BY <3>1 DEF TypeOK
    <2>3. JobInv' /\ LkgInv' /\ EngineInv' /\ NeverBlockedByItself'
        BY <2>1 DEF JobInv, LkgInv, EngineInv, NeverBlockedByItself
    <2> QED BY <2>2, <2>3
<1> QED BY <1>1, <1>2

LEMMA StartInv == IInv /\ Start => IInv'
<1> SUFFICES ASSUME IInv, Start PROVE IInv'
    OBVIOUS
<1> DEFINE Rest == UNCHANGED <<file, slots, db, asked, desktop, login, damaged, events>>
<1>0. agent.pc = "down" /\ Rest /\ db \in Settings
    BY DEF Start, IInv, TypeOK
<1>1. CASE Follows(file) /\ Adopt(file)
    <2>1. file \in Settings
        BY <1>1 DEF Follows, Ready
    <2>2. ~Refused(file)
        BY <1>0, <1>1, <2>1, SettingsAssumption DEF Follows, Refused, Settings
    <2> QED BY <1>0, <1>1, <2>1, <2>2, AdoptInv
<1>2. CASE Adopt(db)
    <2>1. ~Refused(db)
        BY <1>0, SettingsAssumption DEF Refused, Settings
    <2> QED BY <1>0, <1>2, <2>1, AdoptInv
<1>3. CASE db.rev = 0 /\ Adopt(Default)
    <2>1. db = Default
        BY <1>3 DEF IInv, LkgInv
    <2> QED BY <1>2, <1>3, <2>1
<1>4. CASE db.rev > 0 /\ Matching(db) = {} /\ Up(Default, TRUE, db.rev) /\ job' = job
    <2>1. agent' = [pc |-> "up", blocked |-> TRUE, faulted |-> FALSE,
                      engine |-> Default, applied |-> db.rev]
        BY <1>4 DEF Up
    <2>2. damaged
        BY <1>0, <1>4 DEF IInv, LkgInv, Matching
    <2>3. TypeOK'
        <3>1. agent' \in Agents
            BY <1>0, <2>1, DefaultIsSettings DEF Agents, Settings
        <3> QED BY <1>0, <1>4, <3>1 DEF IInv, TypeOK
    <2>4. JobInv' /\ LkgInv' /\ EngineInv' /\ NeverBlockedByItself'
        BY <1>0, <1>4, <2>1, <2>2
        DEF IInv, JobInv, LkgInv, EngineInv, NeverBlockedByItself, Refused
    <2> QED BY <2>3, <2>4 DEF IInv
<1> QED BY <1>1, <1>2, <1>3, <1>4 DEF Start

-----------------------------------------------------------------------------
(* A persist call.                                                         *)

LEMMA AnswerType ==
    ASSUME TypeOK, NEW caller, Answer(caller)
    PROVE  desktop' \in Saves
BY IdleIsSave DEF Answer, TypeOK

LEMMA ErrorInv ==
    ASSUME IInv, PersistError, job.by # "nobody",
           UNCHANGED <<file, slots, db, asked, login, damaged, events>>
    PROVE  IInv'
<1> USE DEF IInv
<1>1. job' = NoJob /\ agent' \in {agent, Down}
    BY DEF PersistError
<1>2. TypeOK'
    <2>1. desktop' \in Saves
        BY AnswerType DEF PersistError
    <2>2. job' \in Jobs /\ agent' \in Agents
        BY <1>1, NoJobIsJob, DownIsAgent DEF TypeOK
    <2> QED BY <2>1, <2>2 DEF TypeOK
<1>3. JobInv'
    BY <1>1 DEF JobInv, NoJob, Down
<1>4. LkgInv' /\ EngineInv' /\ NeverBlockedByItself'
    BY <1>1 DEF LkgInv, EngineInv, NeverBlockedByItself, Down
<1> QED BY <1>2, <1>3, <1>4

(* The engine ends with the row's settings.                                *)
LEMMA DoneInv ==
    ASSUME IInv, job.by # "nobody", NEW s \in Settings, PersistDone(s), db' = s, LkgInv',
           slots' \in [Slots -> Settings \cup {Missing}],
           UNCHANGED <<file, asked, login, damaged, events>>
    PROVE  IInv'
<1> USE DEF IInv
<1>1. /\ job' = NoJob
      /\ agent' = [agent EXCEPT !.pc = "up", !.engine = s, !.applied = s.rev]
    BY DEF PersistDone
<1>2. s.rev \in 0..MaxRev
    BY DEF Settings
<1>3. TypeOK'
    <2>1. Answer(job.by) /\ job' = NoJob
        BY DEF PersistDone
    <2>2. desktop' \in Saves
        BY <2>1, AnswerType
    <2>3. agent' \in Agents
        BY <1>1, <1>2 DEF TypeOK, Agents
    <2>4. job' \in Jobs
        BY <2>1, NoJobIsJob
    <2> QED BY <2>2, <2>3, <2>4 DEF TypeOK
<1>4. JobInv'
    BY <1>1 DEF JobInv, NoJob
<1>5. EngineInv' /\ NeverBlockedByItself'
    <2>1. /\ agent'.pc = "up" /\ agent'.engine = s /\ agent'.applied = s.rev
          /\ agent'.blocked = agent.blocked
        BY <1>1 DEF TypeOK, Agents
    <2>2. ~agent.blocked
        BY DEF JobInv
    <2> QED BY <2>1, <2>2 DEF EngineInv, NeverBlockedByItself
<1> QED BY <1>3, <1>4, <1>5

LEMMA CheckInv == IInv /\ PersistCheck => IInv'
<1> SUFFICES ASSUME IInv, PersistCheck PROVE IInv'
    OBVIOUS
<1>0. /\ UNCHANGED <<file, slots, db, asked, login, damaged, events>>
      /\ job.by # "nobody" /\ job.s \in Settings
    BY DEF PersistCheck, IInv, TypeOK, Jobs
<1>1. CASE PersistError
    BY <1>0, <1>1, ErrorInv
<1>2. CASE job.s = db /\ PersistDone(job.s)
    <2>1. LkgInv' /\ slots' \in [Slots -> Settings \cup {Missing}]
        BY <1>0 DEF IInv, LkgInv, TypeOK
    <2> QED BY <1>0, <1>2, <2>1, DoneInv
<1>3. CASE /\ ~Refused(job.s) /\ job' = [job EXCEPT !.pc = "slot"]
           /\ agent' = IF job.s = db /\ agent.engine.rev < job.s.rev
                       THEN [agent EXCEPT !.engine = job.s] ELSE agent
           /\ UNCHANGED desktop
    <2>0. /\ job' \in Jobs /\ agent' \in Agents
          /\ job'.by = job.by /\ job'.pc = "slot" /\ job'.s = job.s
          /\ agent'.pc = agent.pc /\ agent'.blocked = agent.blocked
          /\ agent'.applied = agent.applied
        BY <1>0, <1>3 DEF IInv, TypeOK, Jobs, Agents
    <2>1. TypeOK'
        BY <1>0, <1>3, <2>0 DEF IInv, TypeOK
    <2>2. JobInv'
        BY <1>0, <1>3, <2>0 DEF IInv, JobInv, Refused
    <2>3. LkgInv' /\ NeverBlockedByItself'
        BY <1>0, <2>0 DEF IInv, LkgInv, NeverBlockedByItself
    <2>4. EngineInv'
        <3>1. agent'.engine = db \/ agent' = agent
            BY <1>3 DEF IInv, TypeOK, Agents
        <3>2. ~agent.blocked
            BY <1>0 DEF IInv, JobInv
        <3> QED BY <1>0, <2>0, <3>1, <3>2 DEF IInv, EngineInv
    <2> QED BY <2>1, <2>2, <2>3, <2>4 DEF IInv
<1> QED
    <2>1. CASE /\ ~Refused(job.s) /\ (job.s # db \/ Matching(db) = {})
               /\ job' = [job EXCEPT !.pc = "slot"]
               /\ agent' = IF job.s = db /\ agent.engine.rev < job.s.rev
                           THEN [agent EXCEPT !.engine = job.s] ELSE agent
               /\ UNCHANGED desktop
        BY <1>3, <2>1
    <2> QED BY <1>1, <1>2, <2>1 DEF PersistCheck

LEMMA SlotInv == IInv /\ PersistSlot => IInv'
<1> SUFFICES ASSUME IInv, PersistSlot PROVE IInv'
    OBVIOUS
<1> USE DEF IInv
<1>0. /\ UNCHANGED <<file, db, asked, login, damaged, events>>
      /\ job.pc = "slot" /\ job.s \in Settings /\ ~Refused(job.s) /\ job.by # "nobody"
      /\ slots' = [slots EXCEPT ![ChosenSlot] = job.s]
    BY DEF PersistSlot, TypeOK, Jobs, JobInv
<1>1. slots' \in [Slots -> Settings \cup {Missing}]
    BY <1>0 DEF TypeOK
<1>2. \E n \in Slots : slots'[n] = job.s
    BY <1>0, ChosenSlotTakes DEF TypeOK
<1>3. LkgInv'
    <2>1. ASSUME ~damaged, db.rev > 0 PROVE \E n \in Slots : slots'[n] = db
        <3>1. \E n \in Slots : slots[n] = db
            BY <2>1 DEF LkgInv
        <3>2. \E n \in Slots : slots'[n] = db \/ job.s = db
            BY <1>0, <3>1, ChosenSlotIsSpare DEF TypeOK
        <3> QED BY <1>2, <3>2
    <2> QED BY <1>0, <2>1 DEF LkgInv
<1>4. CASE job.s = db /\ PersistDone(job.s)
    BY <1>0, <1>1, <1>3, <1>4, DoneInv
<1>5. CASE job.s # db /\ job' = [job EXCEPT !.pc = "commit"] /\ UNCHANGED <<agent, desktop>>
    <2>1. TypeOK'
        <3>1. job' \in Jobs
            BY <1>5 DEF TypeOK, Jobs
        <3> QED BY <1>0, <1>1, <1>5, <3>1 DEF TypeOK
    <2>2. job.s.rev > db.rev
        BY <1>0, <1>5, SettingsAssumption DEF Refused, TypeOK, Settings
    <2>3. JobInv'
        BY <1>0, <1>2, <1>5, <2>2 DEF JobInv, TypeOK, Jobs, Refused
    <2>4. EngineInv' /\ NeverBlockedByItself'
        BY <1>0, <1>5 DEF EngineInv, NeverBlockedByItself
    <2> QED BY <1>3, <2>1, <2>3, <2>4
<1> QED BY <1>4, <1>5 DEF PersistSlot

LEMMA CommitInv == IInv /\ PersistCommit => IInv'
<1> SUFFICES ASSUME IInv, PersistCommit PROVE IInv'
    OBVIOUS
<1> USE DEF IInv
<1>1. /\ UNCHANGED <<file, slots, asked, login, damaged, events>>
      /\ job.pc = "commit" /\ job.s \in Settings /\ db' = job.s /\ PersistDone(job.s)
      /\ job.s.rev > db.rev /\ job.by # "nobody"
    BY DEF PersistCommit, TypeOK, Jobs, JobInv
<1>2. LkgInv'
    BY <1>1 DEF LkgInv, JobInv, TypeOK, Settings
<1>3. slots' \in [Slots -> Settings \cup {Missing}]
    BY <1>1 DEF TypeOK
<1> QED BY <1>1, <1>2, <1>3, DoneInv

LEMMA FailsInv == IInv /\ PersistFails => IInv'
<1>1. ASSUME IInv, PersistFails PROVE job.by # "nobody"
    BY <1>1 DEF IInv, JobInv, PersistFails
<1> QED BY <1>1, ErrorInv DEF PersistFails

-----------------------------------------------------------------------------
(* Everything else leaves the row alone.                                   *)

LEMMA OtherInv ==
    ASSUME IInv, UNCHANGED <<slots, db, agent, job>>, damaged' = damaged, TypeOK'
    PROVE  IInv'
BY DEF IInv, JobInv, LkgInv, EngineInv, NeverBlockedByItself, Refused

LEMMA RuntimeCallersInv ==
    IInv /\ (Tick \/ CallReload \/ GiveUp \/ \E c \in Callers : GetsTurn(c)) => IInv'
<1> SUFFICES ASSUME IInv, Tick \/ CallReload \/ GiveUp \/ \E c \in Callers : GetsTurn(c)
             PROVE  IInv'
    OBVIOUS
<1> USE DEF IInv
<1>1. CASE Tick
    <2>1. TypeOK'
        <3>1. asked' \in [Callers -> Settings \cup {None}]
            BY <1>1 DEF Tick, TypeOK, Ready
        <3> QED BY <1>1, <3>1 DEF Tick, TypeOK
    <2> QED BY <1>1, <2>1, OtherInv DEF Tick
<1>2. CASE CallReload
    <2>1. file \in Settings \/ ~ReloadPasses
        BY DEF ReloadPasses, TypeOK, Saves
    <2>2. CASE ReloadPasses /\ asked' = [asked EXCEPT !["reload"] = file]
                            /\ desktop' = [desktop EXCEPT !.pc = "wait"]
        <3>1. TypeOK'
            <4>1. asked' \in [Callers -> Settings \cup {None}] /\ desktop' \in Saves
                BY <2>1, <2>2 DEF TypeOK, Saves
            <4> QED BY <1>2, <4>1 DEF CallReload, TypeOK
        <3> QED BY <1>2, <3>1, OtherInv DEF CallReload
    <2>3. CASE desktop' = Idle /\ asked' = asked
        <3>1. TypeOK'
            BY <1>2, <2>3, IdleIsSave DEF CallReload, TypeOK
        <3> QED BY <1>2, <3>1, OtherInv DEF CallReload
    <2> QED BY <1>2, <2>2, <2>3 DEF CallReload
<1>3. CASE GiveUp
    <2>1. TypeOK'
        BY <1>3, IdleIsSave DEF GiveUp, TypeOK
    <2> QED BY <1>3, <2>1, OtherInv DEF GiveUp
<1>4. ASSUME NEW c \in Callers, GetsTurn(c) PROVE IInv'
    <2>1. /\ asked[c] \in Settings /\ asked' \in [Callers -> Settings \cup {None}]
          /\ UNCHANGED <<file, slots, db, agent, login, damaged, events>>
        BY <1>4 DEF GetsTurn, Refuse, BarrierFails, Serve, Turn, TypeOK
    <2>2. CASE Answer(c) /\ job' = job
        <3>1. desktop' \in Saves
            BY <2>2, AnswerType
        <3>2. TypeOK'
            BY <2>1, <2>2, <3>1 DEF TypeOK
        <3> QED BY <2>1, <2>2, <3>2, OtherInv
    <2>3. CASE Serve(c)
        <3>1. /\ job' = [by |-> c, pc |-> "check", s |-> asked[c]] /\ desktop' = desktop
              /\ agent.pc = "up" /\ agent.engine.rev = agent.applied
            BY <2>3 DEF Serve, Turn, Fenced
        <3>2. TypeOK'
            <4>1. job' \in Jobs
                BY <2>1, <3>1 DEF Jobs
            <4> QED BY <2>1, <3>1, <4>1 DEF TypeOK
        <3>3. ~agent.blocked
            BY <3>1 DEF EngineInv, Default
        <3>4. JobInv' /\ LkgInv' /\ EngineInv' /\ NeverBlockedByItself'
            BY <2>1, <3>1, <3>3 DEF JobInv, LkgInv, EngineInv, NeverBlockedByItself, Callers
        <3> QED BY <3>2, <3>4
    <2> QED BY <1>4, <2>2, <2>3 DEF GetsTurn, Refuse, BarrierFails
<1> QED BY <1>1, <1>2, <1>3, <1>4

LEMMA DesktopInv ==
    IInv /\ ((\E b \in Bodies : BeginUpdate(b)) \/ WriteFile \/ WriteFileFails \/ Resync
             \/ DesktopDies \/ FileTampered) => IInv'
<1> SUFFICES ASSUME IInv,
                    \/ \E b \in Bodies : BeginUpdate(b)
                    \/ WriteFile \/ WriteFileFails \/ Resync \/ DesktopDies \/ FileTampered
             PROVE  IInv'
    OBVIOUS
<1>0. TypeOK
    BY DEF IInv
<1>1. ASSUME NEW b \in Bodies, BeginUpdate(b) PROVE IInv'
    <2>1. Loaded \in Settings
        BY <1>0, <1>1, DefaultIsSettings DEF BeginUpdate, Loaded, TypeOK, Files
    <2>2. [rev |-> Loaded.rev + 1, body |-> b] \in Settings
        BY <1>1, <2>1, SettingsAssumption DEF BeginUpdate, Settings
    <2> DEFINE cand == [rev |-> Loaded.rev + 1, body |-> b]
    <2>3. desktop' = [pc |-> "write", cand |-> cand, keyed |-> Login(cand) # Login(Loaded)]
        BY <1>1 DEF BeginUpdate
    <2>4. desktop' \in Saves
        BY <2>2, <2>3 DEF Saves
    <2>5. runKey' \in BOOLEAN
        <3> HIDE DEF cand
        <3>1. runKey' = IF Login(cand) # Login(Loaded) THEN Login(cand) ELSE runKey
            BY <1>1 DEF BeginUpdate, cand
        <3>2. Login(cand) \in BOOLEAN
            BY DEF Login
        <3> QED BY <1>0, <3>1, <3>2 DEF TypeOK
    <2>6. TypeOK'
        <3>1. resync' \in Resyncs
            BY <1>0, <1>1 DEF BeginUpdate, TypeOK, Resyncs
        <3> QED BY <1>0, <1>1, <2>4, <2>5, <3>1 DEF BeginUpdate, TypeOK
    <2> QED BY <1>1, <2>6, OtherInv DEF BeginUpdate
<1>2. CASE WriteFile
    <2>1. TypeOK'
        <3>1. file' \in Files /\ desktop' \in Saves
            BY <1>0, <1>2 DEF WriteFile, TypeOK, Files, Saves
        <3> QED BY <1>0, <1>2, <3>1 DEF WriteFile, TypeOK
    <2> QED BY <1>2, <2>1, OtherInv DEF WriteFile
<1>3. CASE WriteFileFails
    <2>1. TypeOK'
        <3>1. runKey' \in BOOLEAN /\ excused' \in BOOLEAN
            BY <1>0, <1>3 DEF WriteFileFails, TypeOK, Login
        <3> QED BY <1>0, <1>3, <3>1, IdleIsSave DEF WriteFileFails, TypeOK
    <2> QED BY <1>3, <2>1, OtherInv DEF WriteFileFails
<1>4. CASE Resync
    <2>1. Login(Loaded) \in BOOLEAN /\ KeyMoves \in BOOLEAN
        BY <1>0 DEF Login, KeyMoves, TypeOK, Saves
    <2>2. resync' \in Resyncs
        <3>1. CASE ResyncReads
            BY <2>1, <3>1 DEF ResyncReads, Resyncs
        <3>2. CASE ResyncWrites \/ ResyncFails
            BY <3>2, NoResyncIsResync DEF ResyncWrites, ResyncFails
        <3> QED BY <1>4, <3>1, <3>2 DEF Resync
    <2>3. /\ UNCHANGED <<file, slots, db, agent, asked, job, desktop, damaged>>
          /\ runKey' \in BOOLEAN /\ excused' \in BOOLEAN /\ events' \in 0..MaxEvents
        <3>1. CASE ResyncReads
            BY <1>0, <3>1, SettingsAssumption DEF ResyncReads, Event, TypeOK
        <3>2. CASE ResyncWrites
            BY <1>0, <3>2 DEF ResyncWrites, TypeOK, Resyncs
        <3>3. CASE ResyncFails
            BY <1>0, <3>3 DEF ResyncFails, TypeOK
        <3> QED BY <1>4, <3>1, <3>2, <3>3 DEF Resync
    <2>4. TypeOK'
        BY <1>0, <2>2, <2>3 DEF TypeOK
    <2> QED BY <2>3, <2>4, OtherInv
<1>5. CASE DesktopDies
    <2>1. TypeOK'
        <3>1. events' \in 0..MaxEvents /\ excused' \in BOOLEAN
            BY <1>0, <1>5, SettingsAssumption DEF DesktopDies, TypeOK, Event, Saves
        <3> QED BY <1>0, <1>5, <3>1, IdleIsSave, NoResyncIsResync DEF DesktopDies, TypeOK
    <2> QED BY <1>5, <2>1, OtherInv DEF DesktopDies
<1>6. CASE FileTampered
    <2>1. TypeOK'
        <3>1. events' \in 0..MaxEvents
            BY <1>0, <1>6, SettingsAssumption DEF FileTampered, TypeOK, Event
        <3>2. resync' \in Resyncs
            BY <1>0, <1>6 DEF FileTampered, TypeOK, Resyncs
        <3> QED BY <1>0, <1>6, <3>1, <3>2 DEF FileTampered, TypeOK
    <2> QED BY <1>6, <2>1, OtherInv DEF FileTampered
<1> QED BY <1>1, <1>2, <1>3, <1>4, <1>5, <1>6

LEMMA EndsInv == IInv /\ (AgentStops \/ AgentDies) => IInv'
<1> SUFFICES ASSUME IInv, AgentStops \/ AgentDies PROVE IInv'
    OBVIOUS
<1> USE DEF IInv
<1>1. /\ agent' = Down /\ asked' = NobodyAsks /\ job' = NoJob
      /\ UNCHANGED <<file, slots, db, desktop, login, damaged>>
    BY DEF AgentStops, AgentDies
<1>2. events' \in 0..MaxEvents
    BY SettingsAssumption DEF AgentStops, AgentDies, Event, TypeOK
<1>3. TypeOK'
    BY <1>1, <1>2, DownIsAgent, NoJobIsJob DEF TypeOK, NobodyAsks
<1>4. JobInv' /\ LkgInv' /\ EngineInv' /\ NeverBlockedByItself'
    BY <1>1 DEF JobInv, LkgInv, EngineInv, NeverBlockedByItself, Down, NoJob
<1> QED BY <1>3, <1>4

LEMMA WriterFaultsInv == IInv /\ WriterFaults => IInv'
<1> SUFFICES ASSUME IInv, WriterFaults PROVE IInv'
    OBVIOUS
<1> USE DEF IInv
<1>1. /\ agent' = [agent EXCEPT !.faulted = TRUE] /\ Answer(job.by)
      /\ UNCHANGED <<file, slots, db, asked, job, login, damaged>>
      /\ events' \in 0..MaxEvents
    BY SettingsAssumption DEF WriterFaults, Event, TypeOK
<1>2. TypeOK'
    <2>1. desktop' \in Saves
        BY <1>1, AnswerType
    <2>2. agent' \in Agents
        BY <1>1 DEF TypeOK, Agents
    <2> QED BY <1>1, <2>1, <2>2 DEF TypeOK
<1>3. JobInv' /\ LkgInv' /\ EngineInv' /\ NeverBlockedByItself'
    BY <1>1 DEF JobInv, LkgInv, EngineInv, NeverBlockedByItself, Refused, TypeOK, Agents
<1> QED BY <1>2, <1>3

LEMMA SlotLostInv == IInv /\ SlotLost => IInv'
<1> SUFFICES ASSUME IInv, SlotLost PROVE IInv'
    OBVIOUS
<1> USE DEF IInv
<1>1. slots' \in [Slots -> Settings \cup {Missing}] /\ events' \in 0..MaxEvents
    BY SettingsAssumption DEF SlotLost, Event, TypeOK
<1>2. TypeOK'
    BY <1>1 DEF SlotLost, TypeOK
<1>3. JobInv' /\ LkgInv' /\ EngineInv' /\ NeverBlockedByItself'
    BY DEF SlotLost, JobInv, LkgInv, EngineInv, NeverBlockedByItself, Refused
<1> QED BY <1>2, <1>3

LEMMA StepInv == IInv /\ [Next]_vars => IInv'
<1>1. IInv /\ UNCHANGED vars => IInv'
    BY DEF vars, IInv, TypeOK, JobInv, LkgInv, EngineInv, NeverBlockedByItself, Refused
<1> QED BY <1>1, StartInv, CheckInv, SlotInv, CommitInv, FailsInv, RuntimeCallersInv,
           DesktopInv, EndsInv, WriterFaultsInv, SlotLostInv DEF Next, Persist

-----------------------------------------------------------------------------
(* The invariant holds in every reachable state, whatever dies and fails.  *)
THEOREM SpecInv == Spec => []IInv
<1> QED BY InitInv, StepInv, PTL DEF Spec

(* Every variable keeps its type.                                          *)
THEOREM SpecTypeOK == Spec => []TypeOK
<1>1. IInv => TypeOK
    BY DEF IInv
<1> QED BY <1>1, SpecInv, PTL

(* reconcile_startup_settings blocks capture only after outside damage to  *)
(* a slot: no crash, lost settings file or failed write leads there.       *)
THEOREM SpecNeverBlockedByItself == Spec => []NeverBlockedByItself
<1>1. IInv => NeverBlockedByItself
    BY DEF IInv
<1> QED BY <1>1, SpecInv, PTL

(* A running Agent uses the settings of the newest row and reports its     *)
(* revision as the applied one.                                            *)
THEOREM SpecEngineMatchesDatabase == Spec => []EngineMatchesDatabase
<1>1. IInv => EngineMatchesDatabase
    BY DEF IInv, EngineInv, EngineMatchesDatabase
<1> QED BY <1>1, SpecInv, PTL

LEMMA SlotWriteKeepsLkg ==
    ASSUME IInv, PersistSlot, Matching(db) # {}
    PROVE  \E n \in Slots : slots'[n] = db'
<1>1. \E n \in Slots : slots[n] = db
    BY DEF Matching
<1>2. /\ slots \in [Slots -> Settings \cup {Missing}]
      /\ slots' = [slots EXCEPT ![ChosenSlot] = job.s] /\ db' = db
    BY DEF PersistSlot, IInv, TypeOK
<1>3. \E n \in Slots : slots'[n] = db \/ job.s = db
    BY <1>1, <1>2, ChosenSlotIsSpare
<1>4. \E n \in Slots : slots'[n] = job.s
    BY <1>2, ChosenSlotTakes
<1> QED BY <1>2, <1>3, <1>4

(* write_backup before the commit, and never over the only matching slot:  *)
(* no step of the program leaves the row without a matching slot.          *)
THEOREM SpecLkgKept == Spec => LkgKept
<1>1. ASSUME IInv, [Next]_vars, Matching(db) # {}, ~(damaged /\ job.pc = "commit"),
             ~SlotLost
      PROVE  (\E n \in Slots : slots'[n] = db') \/ UNCHANGED <<slots, db>>
    <2>1. CASE PersistSlot
        BY <1>1, <2>1, SlotWriteKeepsLkg
    <2>2. CASE PersistCommit
        BY <1>1, <2>2 DEF PersistCommit, IInv, JobInv
    <2>3. CASE ~PersistSlot /\ ~PersistCommit
        BY <1>1, <2>3 DEF Next, Persist, vars, Start, Tick, Serve, PersistCheck, PersistFails,
            BeginUpdate, WriteFile, WriteFileFails, CallReload, GiveUp, GetsTurn, Turn,
            Refuse, BarrierFails, Resync, ResyncReads, ResyncWrites, ResyncFails,
            AgentStops, AgentDies, WriterFaults, DesktopDies, FileTampered
    <2> QED BY <2>1, <2>2, <2>3
<1>2. IInv /\ [Next]_vars =>
        [Matching(db) # {} /\ ~(damaged /\ job.pc = "commit") =>
            SlotLost \/ \E n \in Slots : slots'[n] = db']_<<slots, db>>
    BY <1>1
<1> QED BY <1>2, SpecInv, PTL DEF Spec, LkgKept

(* apply_settings_persistent: what is refused touches no slot.             *)
THEOREM SpecRefusedTouchesNoSlot == Spec => RefusedTouchesNoSlot
<1> DEFINE Sound == \A n \in Slots :
                       slots'[n] \in {slots[n], Missing, db} \/ slots'[n].rev > db.rev
<1>1. ASSUME IInv, [Next]_vars PROVE Sound \/ UNCHANGED slots
    <2>1. CASE PersistSlot
        <3>1. /\ slots \in [Slots -> Settings \cup {Missing}]
              /\ slots' = [slots EXCEPT ![ChosenSlot] = job.s]
              /\ ~Refused(job.s) /\ job.s \in Settings /\ db \in Settings
            BY <1>1, <2>1 DEF PersistSlot, IInv, TypeOK, Jobs, JobInv
        <3>2. job.s = db \/ job.s.rev > db.rev
            BY <3>1, SettingsAssumption DEF Refused, Settings
        <3> QED BY <3>1, <3>2
    <2>2. CASE SlotLost
        BY <1>1, <2>2 DEF SlotLost, IInv, TypeOK
    <2>3. CASE ~PersistSlot /\ ~SlotLost
        BY <1>1, <2>3 DEF Next, Persist, vars, Start, Tick, Serve, PersistCheck, PersistCommit,
            PersistFails, BeginUpdate, WriteFile, WriteFileFails, CallReload, GiveUp, GetsTurn,
            Turn, Refuse, BarrierFails, Resync, ResyncReads, ResyncWrites, ResyncFails,
            AgentStops, AgentDies, WriterFaults, DesktopDies, FileTampered
    <2> QED BY <2>1, <2>2, <2>3
<1>2. IInv /\ [Next]_vars => [Sound]_slots
    BY <1>1
<1> QED BY <1>2, SpecInv, PTL DEF Spec, RefusedTouchesNoSlot

-----------------------------------------------------------------------------
(* The login Run Key.  An update writes it before the file, so in between  *)
(* it is ahead of the file and agrees with the candidate; "keyed" tells    *)
(* whether the two differ, which is what putting it back relies on.  What  *)
(* a resync has read is still the file's word as long as it is alone.      *)

RunKeyInv ==
    /\ desktop.pc # "write" /\ file # Damaged /\ ~excused => runKey = Login(Loaded)
    /\ desktop.pc = "write" => desktop.keyed = (Login(desktop.cand) # Login(Loaded))
    /\ desktop.pc = "write" /\ ~excused => runKey = Login(desktop.cand)
    /\ resync.pc = "write" /\ resync.alone => ~KeyMoves /\ resync.on = Login(Loaded)

(* A step that leaves the save, the file and the Run Key alone; the answer *)
(* to a call that waits, or giving it up, ends a save already on disk.     *)
LEMMA RunKeyStays ==
    ASSUME RunKeyInv, UNCHANGED <<file, login>>,
           \/ UNCHANGED desktop
           \/ desktop.pc # "write" /\ desktop' = Idle
           \/ desktop.pc # "write" /\ desktop'.pc # "write"
    PROVE  RunKeyInv'
BY DEF RunKeyInv, Loaded, Idle, KeyMoves

LEMMA RunKeyBegins ==
    ASSUME TypeOK, RunKeyInv, NEW b \in Bodies, BeginUpdate(b)
    PROVE  RunKeyInv'
<1> DEFINE cand == [rev |-> Loaded.rev + 1, body |-> b]
<1>1. /\ desktop.pc = "idle" /\ file # Damaged /\ UNCHANGED <<file, excused>>
      /\ desktop' = [pc |-> "write", cand |-> cand, keyed |-> Login(cand) # Login(Loaded)]
      /\ runKey' = IF Login(cand) # Login(Loaded) THEN Login(cand) ELSE runKey
      /\ resync' = [resync EXCEPT !.alone = @ /\ Login(cand) = Login(Loaded)]
    BY DEF BeginUpdate
<1>2. Loaded' = Loaded
    BY <1>1 DEF Loaded
<1>3. /\ desktop'.pc = "write" /\ desktop'.cand = cand
      /\ desktop'.keyed = (Login(cand) # Login(Loaded))
    BY <1>1
<1>4. ~excused => runKey = Login(Loaded)
    BY <1>1 DEF RunKeyInv
<1> HIDE DEF cand
<1>5. ~excused => runKey' = Login(cand)
    BY <1>1, <1>4
<1>6. resync'.pc = "write" /\ resync'.alone =>
          Login(cand) = Login(Loaded) /\ resync'.on = Login(Loaded)
    BY <1>1 DEF RunKeyInv, TypeOK, Resyncs
<1> QED BY <1>1, <1>2, <1>3, <1>5, <1>6 DEF RunKeyInv, Login, KeyMoves

(* The file is written, or it is not and the old Run Key is put back.      *)
LEMMA RunKeyWrites ==
    ASSUME TypeOK, RunKeyInv, WriteFile \/ WriteFileFails
    PROVE  RunKeyInv'
<1>0. Login(desktop.cand) \in BOOLEAN /\ Login(Loaded) \in BOOLEAN /\ desktop.keyed \in BOOLEAN
    BY DEF Login, TypeOK, Saves
<1>1. CASE WriteFile
    <2>1. /\ desktop.pc = "write" /\ file' = desktop.cand /\ desktop'.pc = "call"
          /\ UNCHANGED <<runKey, excused, resync>> /\ desktop.cand \in Settings
        BY <1>1 DEF WriteFile, TypeOK, Saves
    <2>2. file' # Missing
        BY <2>1, SettingsAssumption DEF Missing, Settings
    <2>3. Loaded' = desktop.cand
        BY <2>1, <2>2 DEF Loaded
    <2>4. Login(Loaded)' = Login(desktop.cand)
        BY <2>3 DEF Login
    <2>5. resync.pc = "write" /\ resync.alone => resync.on = Login(desktop.cand)
        BY <1>0, <2>1 DEF RunKeyInv, KeyMoves
    <2> QED BY <2>1, <2>4, <2>5 DEF RunKeyInv, KeyMoves
<1>2. CASE WriteFileFails
    <2>1. /\ desktop.pc = "write" /\ desktop'.pc = "idle" /\ Loaded' = Loaded
          /\ UNCHANGED <<file, resync>>
        BY <1>2 DEF WriteFileFails, Idle, Loaded
    <2>2. Login(Loaded)' = Login(Loaded)
        BY <2>1 DEF Login
    <2>3. ~excused' => runKey' = Login(Loaded)
        BY <1>0, <1>2, <2>1 DEF WriteFileFails, RunKeyInv
    <2> QED BY <2>1, <2>2, <2>3 DEF RunKeyInv, KeyMoves
<1> QED BY <1>1, <1>2

(* A resync may read at any time.  One that was alone leaves the Run Key   *)
(* as the file has it; after any other the difference is excused.          *)
LEMMA RunKeyResync ==
    ASSUME TypeOK, RunKeyInv, Resync
    PROVE  RunKeyInv'
<1>1. UNCHANGED <<file, desktop>> /\ Loaded' = Loaded
    BY DEF Resync, ResyncReads, ResyncWrites, ResyncFails, Loaded
<1>2. Login(Loaded)' = Login(Loaded) /\ Login(desktop.cand)' = Login(desktop.cand)
      /\ KeyMoves' = KeyMoves
    BY <1>1 DEF Login, KeyMoves
<1>3. CASE ResyncReads
    <2>1. /\ resync' = [pc |-> "write", on |-> Login(Loaded), alone |-> ~KeyMoves]
          /\ UNCHANGED <<runKey, excused>>
        BY <1>3 DEF ResyncReads
    <2>2. resync'.alone = ~KeyMoves /\ resync'.on = Login(Loaded)
        BY <2>1
    <2> QED BY <1>1, <1>2, <2>1, <2>2 DEF RunKeyInv
<1>4. CASE ResyncWrites
    <2>1. /\ resync.pc = "write" /\ resync'.pc = "idle"
          /\ runKey' = resync.on /\ excused' = ~resync.alone
        BY <1>4 DEF ResyncWrites, NoResync
    <2>2. ~excused' => runKey' = Login(Loaded) /\ ~KeyMoves
        BY <2>1 DEF RunKeyInv
    <2>3. desktop.pc = "write" /\ ~KeyMoves => Login(desktop.cand) = Login(Loaded)
        BY DEF RunKeyInv, KeyMoves, Login
    <2> QED BY <1>1, <1>2, <2>1, <2>2, <2>3 DEF RunKeyInv
<1>5. CASE ResyncFails
    <2>1. resync'.pc = "idle" /\ UNCHANGED <<runKey, excused>>
        BY <1>5 DEF ResyncFails, NoResync
    <2> QED BY <1>1, <1>2, <2>1 DEF RunKeyInv
<1> QED BY <1>3, <1>4, <1>5 DEF Resync

LEMMA RunKeyStep == TypeOK /\ RunKeyInv /\ [Next]_vars => RunKeyInv'
<1> SUFFICES ASSUME TypeOK, RunKeyInv, [Next]_vars PROVE RunKeyInv'
    OBVIOUS
<1>1. CASE \E b \in Bodies : BeginUpdate(b)
    BY <1>1, RunKeyBegins
<1>2. CASE WriteFile \/ WriteFileFails
    BY <1>2, RunKeyWrites
<1>3. CASE Resync
    BY <1>3, RunKeyResync
<1>4. CASE DesktopDies
    <2>1. /\ desktop' = Idle /\ resync' = NoResync /\ UNCHANGED <<file, runKey>>
          /\ Loaded' = Loaded
          /\ excused' = (excused \/ (desktop.pc = "write" /\ desktop.keyed))
        BY <1>4 DEF DesktopDies, Loaded
    <2>2. ~excused' /\ file # Damaged => runKey = Login(Loaded)
        BY <2>1 DEF RunKeyInv
    <2> QED BY <2>1, <2>2 DEF RunKeyInv, Idle, NoResync, Login
<1>5. CASE FileTampered
    <2>1. /\ desktop.pc = "idle" /\ UNCHANGED desktop /\ excused' = TRUE
          /\ resync' = [resync EXCEPT !.alone = FALSE]
        BY <1>5 DEF FileTampered
    <2>2. ~resync'.alone
        BY <2>1 DEF TypeOK, Resyncs
    <2> QED BY <2>1, <2>2 DEF RunKeyInv
<1>6. CASE CallReload \/ GiveUp
    <2>1. /\ UNCHANGED <<file, login>> /\ desktop.pc # "write"
          /\ desktop' = Idle \/ desktop'.pc = "wait"
        BY <1>6 DEF CallReload, GiveUp, TypeOK, Saves
    <2> QED BY <2>1, RunKeyStays
<1>7. CASE Persist \/ WriterFaults \/ \E c \in Callers : GetsTurn(c)
    <2>1. /\ UNCHANGED <<file, login>>
          /\ desktop' = desktop \/ (desktop.pc # "write" /\ desktop' = Idle)
        BY <1>7 DEF Persist, PersistCheck, PersistSlot, PersistCommit, PersistFails,
            PersistError, PersistDone, Answer, GetsTurn, Refuse, BarrierFails, Serve, Turn,
            WriterFaults
    <2> QED BY <2>1, RunKeyStays
<1>8. CASE Start \/ Tick \/ AgentStops \/ AgentDies \/ SlotLost \/ UNCHANGED vars
    <2>1. UNCHANGED <<file, login, desktop>>
        BY <1>8 DEF Start, Tick, AgentStops, AgentDies, SlotLost, vars
    <2> QED BY <2>1, RunKeyStays
<1> QED BY <1>1, <1>2, <1>3, <1>4, <1>5, <1>6, <1>7, <1>8 DEF Next

(* update, its compensation and the unlocked resync: whatever fails, dies  *)
(* or is changed in between, after a save the Run Key agrees with the file *)
(* unless the difference is known or a resync overlapped a save.           *)
THEOREM SpecRunKeyHonest == Spec => []RunKeyHonest
<1>1. Init => RunKeyInv
    <2> SUFFICES ASSUME Init PROVE RunKeyInv
        OBVIOUS
    <2>1. /\ desktop.pc = "idle" /\ resync.pc = "idle" /\ runKey = FALSE
          /\ Loaded = Default
        BY DEF Init, Idle, NoResync, Loaded
    <2>2. Login(Default) = FALSE
        BY SettingsAssumption DEF Login, Default
    <2> QED BY <2>1, <2>2 DEF RunKeyInv
<1>2. RunKeyInv => RunKeyHonest
    BY DEF RunKeyInv, RunKeyHonest
<1> QED BY <1>1, <1>2, RunKeyStep, SpecTypeOK, PTL DEF Spec
=============================================================================
