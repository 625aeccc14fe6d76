------------------------- MODULE SettingsPersistence -------------------------
(***************************************************************************)
(* Settings from the Desktop's save to the Agent's database, and back at   *)
(* the next start: the settings file, the two backup slots, the database's *)
(* newest settings_revisions row, and the Agent that may die between any   *)
(* two writes.                                                             *)
(*                                                                         *)
(* Settings are a revision and a body; two are equal exactly when their    *)
(* content digests are.  Revision 0 with the default body is what          *)
(* bootstrap inserts.  How a Writer comes to be faulted and how a barrier  *)
(* travels are CaptureCoordinator's and CapturePipeline's subject; here a  *)
(* runtime caller gets the coordinator's lock and passes its fences, or it *)
(* is refused, or its barrier comes to nothing.                            *)
(***************************************************************************)
EXTENDS Naturals, FiniteSets

CONSTANTS
    Bodies,       \* what a settings body may be
    DefaultBody,  \* the built-in one
    LoginBodies,  \* the bodies with startCaptureOnLogin
    UnfitBodies,  \* the bodies that parse as JSON but fail validate
    MaxRev,       \* bound on revisions
    MaxEvents     \* bound on crashes, outside interference and resyncs

ASSUME SettingsAssumption ==
    /\ DefaultBody \in Bodies \ (LoginBodies \cup UnfitBodies)
    /\ LoginBodies \subseteq Bodies /\ UnfitBodies \subseteq Bodies
    /\ Bodies \cap {"missing", "damaged", "none"} = {}
    /\ MaxRev \in Nat /\ MaxEvents \in Nat

VARIABLES
    file,     \* settings.json
    slots,    \* settings-lkg-a.json and settings-lkg-b.json
    db,       \* newest row of settings_revisions
    agent,    \* the Agent process: its engine's settings, the applied revision
    asked,    \* settings a runtime caller read, waiting for the coordinator
    job,      \* the persist call in progress
    desktop,  \* settings_update in progress
    resync,   \* settings_resync_login_startup in progress, one at a time, what it
              \* read, and (history) whether it has had the Run Key to itself
    runKey,   \* is the login Run Key set?
    excused,  \* history: the Run Key may differ from the file, because a failure
              \* was reported, the Desktop died in a save, the file was changed
              \* from outside, or the last resync overlapped a save
    damaged,  \* history: a slot was lost to outside interference
    events    \* crashes, interference and resyncs so far
login == <<resync, runKey, excused>>
vars == <<file, slots, db, agent, asked, job, desktop, login, damaged, events>>

Settings == [rev : 0..MaxRev, body : Bodies]
Default  == [rev |-> 0, body |-> DefaultBody]
Missing  == [rev |-> 0, body |-> "missing"]
Damaged  == [rev |-> 0, body |-> "damaged"]
None     == [rev |-> 0, body |-> "none"]
Files    == Settings \cup {Missing, Damaged}
Slots    == {"a", "b"}
Callers  == {"reload", "tick"}

(* parse_settings accepts a file that is JSON and passes validate.         *)
Valid(s) == s.body \notin UnfitBodies
Ready(f) == f \in Settings /\ Valid(f)
Login(s) == s.body \in LoginBodies

(* Settings the Desktop starts from; it does not validate what it loads.   *)
Loaded == IF file = Missing THEN Default ELSE file

Agents  == [pc : {"down", "starting", "up"}, blocked : BOOLEAN, faulted : BOOLEAN,
            engine : Settings, applied : 0..MaxRev]
Jobs    == [by : Callers \cup {"startup", "nobody"}, pc : {"check", "slot", "commit"},
            s : Settings]
Saves   == [pc : {"idle", "write", "call", "wait"}, cand : Settings, keyed : BOOLEAN]
Resyncs == [pc : {"idle", "write"}, on : BOOLEAN, alone : BOOLEAN]

TypeOK ==
    /\ file \in Files
    /\ slots \in [Slots -> Settings \cup {Missing}]
    /\ db \in Settings
    /\ agent \in Agents
    /\ asked \in [Callers -> Settings \cup {None}]
    /\ job \in Jobs /\ desktop \in Saves /\ resync \in Resyncs
    /\ runKey \in BOOLEAN /\ excused \in BOOLEAN /\ damaged \in BOOLEAN
    /\ events \in 0..MaxEvents

NoJob == [by |-> "nobody", pc |-> "check", s |-> Default]
Down  == [pc |-> "down", blocked |-> FALSE, faulted |-> FALSE,
          engine |-> Default, applied |-> 0]
Idle  == [pc |-> "idle", cand |-> Default, keyed |-> FALSE]
NoResync == [pc |-> "idle", on |-> FALSE, alone |-> FALSE]
NobodyAsks == [c \in Callers |-> None]

Init ==
    /\ file = Missing
    /\ slots = [n \in Slots |-> Missing]
    /\ db = Default
    /\ agent = Down /\ asked = NobodyAsks /\ job = NoJob
    /\ desktop = Idle /\ resync = NoResync
    /\ runKey = FALSE /\ excused = FALSE
    /\ damaged = FALSE /\ events = 0

(* Crashes, interference and resyncs have a common bound.                  *)
Event == events < MaxEvents /\ events' = events + 1

-----------------------------------------------------------------------------
(* The double-slot backup.                                                 *)

(* A slot that does not load counts as revision -1.                        *)
NotNewer(m, n) ==
    \/ slots[m] = Missing
    \/ slots[n] # Missing /\ slots[m].rev <= slots[n].rev

Matching(content) == {n \in Slots : slots[n] = content}

(* Mutant: the newer slot's partner is overwritten, whichever matches.     *)
FaultyChosenSlot == IF NotNewer("a", "b") THEN "a" ELSE "b"

(* Never the only slot that matches the database.                          *)
ChosenSlot ==
    IF Matching(db) = {"a"} \/ (Matching(db) = {} /\ ~NotNewer("a", "b")) THEN "b" ELSE "a"

-----------------------------------------------------------------------------
(* apply_settings_persistent, run by the start and by the Writer.          *)

(* The caller gets its answer; the Desktop may have given up on it.        *)
Answer(caller) ==
    desktop' = IF caller = "reload" /\ desktop.pc = "wait" THEN Idle ELSE desktop

(* The start fails with any error; a runtime caller only reports it.       *)
PersistError ==
    /\ job' = NoJob /\ Answer(job.by)
    /\ agent' = IF job.by = "startup" THEN Down ELSE agent

PersistDone(content) ==
    /\ job' = NoJob /\ Answer(job.by)
    /\ agent' = [agent EXCEPT !.pc = "up", !.engine = content, !.applied = content.rev]

(* An older revision, or other content under the same one, is refused      *)
(* before a slot is touched.                                               *)
Refused(s) == s.rev < db.rev \/ (s.rev = db.rev /\ s # db)

PersistCheck ==
    /\ job.by # "nobody" /\ job.pc = "check"
    /\ \/ Refused(job.s) /\ PersistError
       \/ /\ ~Refused(job.s) /\ job.s = db /\ Matching(db) # {}
          /\ PersistDone(job.s)
       \/ /\ ~Refused(job.s) /\ (job.s # db \/ Matching(db) = {})
          /\ job' = [job EXCEPT !.pc = "slot"]
          /\ agent' = IF job.s = db /\ agent.engine.rev < job.s.rev
                      THEN [agent EXCEPT !.engine = job.s] ELSE agent
          /\ UNCHANGED desktop
    /\ UNCHANGED <<file, slots, db, asked, login, damaged, events>>

(* A temporary file, then a rename: the slot is replaced whole or not at   *)
(* all.  Idempotent content needs no commit: only its backup was missing.  *)
PersistSlot ==
    /\ job.pc = "slot"
    /\ slots' = [slots EXCEPT ![ChosenSlot] = job.s]
    /\ IF job.s = db
       THEN PersistDone(job.s)
       ELSE job' = [job EXCEPT !.pc = "commit"] /\ UNCHANGED <<agent, desktop>>
    /\ UNCHANGED <<file, db, asked, login, damaged, events>>

(* engine.apply_settings: the row, and only then the engine's own copy.    *)
(* ensure_settings_revision inserts a row, it never changes one.           *)
PersistCommit ==
    /\ job.pc = "commit" /\ job.s.rev > db.rev
    /\ db' = job.s /\ PersistDone(job.s)
    /\ UNCHANGED <<file, slots, asked, login, damaged, events>>

(* Writing the slot or the row fails; what was there is still there.       *)
PersistFails ==
    /\ job.pc \in {"slot", "commit"} /\ PersistError
    /\ UNCHANGED <<file, slots, db, asked, login, damaged, events>>

-----------------------------------------------------------------------------
(* The start: reconcile_startup_settings and what main does with it.       *)

Up(s, blocked, applied) ==
    agent' = [pc |-> "up", blocked |-> blocked, faulted |-> FALSE,
              engine |-> s, applied |-> applied]

(* Mutant: without a matching backup the start falls back to the defaults. *)
FaultyAdopt(s) == Up(Default, FALSE, db.rev) /\ UNCHANGED job

(* The engine is created with the decision's settings before they persist. *)
Adopt(s) ==
    IF s.rev = 0
    THEN Up(s, FALSE, 0) /\ UNCHANGED job
    ELSE /\ job' = [by |-> "startup", pc |-> "check", s |-> s]
         /\ agent' = [pc |-> "starting", blocked |-> FALSE, faulted |-> FALSE,
                      engine |-> s, applied |-> 0]

(* The file is followed when it is newer than, or the same as, the row.    *)
Follows(f) == Ready(f) /\ (f.rev > db.rev \/ f = db)

Start ==
    /\ agent.pc = "down"
    /\ \/ Follows(file) /\ Adopt(file)
       \/ ~Follows(file) /\ Ready(file) /\ Matching(db) # {} /\ Adopt(db)
       \/ ~Follows(file) /\ ~Ready(file) /\ db.rev > 0 /\ Matching(db) # {} /\ Adopt(db)
       \/ /\ ~Follows(file) /\ db.rev = 0
          /\ ~Ready(file) \/ Matching(db) = {}
          /\ Adopt(Default)
       \/ /\ ~Follows(file) /\ db.rev > 0 /\ Matching(db) = {}
          /\ Up(Default, TRUE, db.rev) /\ UNCHANGED job
    /\ UNCHANGED <<file, slots, db, asked, desktop, login, damaged, events>>

-----------------------------------------------------------------------------
(* Runtime callers: both read the file, then wait for the coordinator.     *)

(* Mutant: the reconciler waits for exactly the next revision.             *)
FaultyTick ==
    /\ agent.pc = "up" /\ asked["tick"] = None /\ job.by # "tick"
    /\ Ready(file) /\ file.rev = agent.applied + 1
    /\ asked' = [asked EXCEPT !["tick"] = file]
    /\ UNCHANGED <<file, slots, db, agent, job, desktop, login, damaged, events>>

(* run_settings_reconciler: every 2 s, strictly newer files only.          *)
Tick ==
    /\ agent.pc = "up" /\ asked["tick"] = None /\ job.by # "tick"
    /\ Ready(file) /\ file.rev > agent.applied
    /\ asked' = [asked EXCEPT !["tick"] = file]
    /\ UNCHANGED <<file, slots, db, agent, job, desktop, login, damaged, events>>

(* settings_reload: the file must still be the one the Desktop saved.      *)
ReloadPasses ==
    agent.pc = "up" /\ file = desktop.cand /\ Valid(file) /\ file.rev >= agent.applied

CallReload ==
    /\ desktop.pc = "call"
    /\ \/ /\ ReloadPasses /\ asked["reload"] = None /\ job.by # "reload"
          /\ asked' = [asked EXCEPT !["reload"] = file]
          /\ desktop' = [desktop EXCEPT !.pc = "wait"]
       \/ ~ReloadPasses /\ desktop' = Idle /\ UNCHANGED asked
    /\ UNCHANGED <<file, slots, db, agent, job, login, damaged, events>>

(* CaptureCoordinator::apply_settings holds the transition lock until the  *)
(* Writer answers, or until the coordinator declares the Writer faulted.   *)
Turn(caller) ==
    /\ agent.pc = "up" /\ asked[caller] # None /\ (job = NoJob \/ agent.faulted)
    /\ asked' = [asked EXCEPT ![caller] = None]
    /\ UNCHANGED <<file, slots, db, agent, login, damaged, events>>

(* The fault fence and the older revision are the coordinator's checks;    *)
(* verify_engine_revision is the Writer's, for the revision the barrier    *)
(* was injected with, which is the applied one.                            *)
Fenced(s) ==
    agent.faulted \/ s.rev < agent.applied \/ agent.engine.rev # agent.applied

Refuse(caller) == Turn(caller) /\ Fenced(asked[caller]) /\ Answer(caller) /\ UNCHANGED job

(* Injection, queueing or the wait for the barrier fails; nothing is       *)
(* written, and the next tick tries again.                                 *)
BarrierFails(caller) ==
    Turn(caller) /\ ~Fenced(asked[caller]) /\ Answer(caller) /\ UNCHANGED job

Serve(caller) ==
    /\ Turn(caller) /\ ~Fenced(asked[caller])
    /\ job' = [by |-> caller, pc |-> "check", s |-> asked[caller]]
    /\ UNCHANGED desktop

(* The Desktop's call times out, or the Agent died: saved, not applied.    *)
GiveUp ==
    /\ desktop.pc = "wait" /\ desktop' = Idle
    /\ UNCHANGED <<file, slots, db, agent, asked, job, login, damaged, events>>

-----------------------------------------------------------------------------
(* The Desktop's settings_update, under its own lock.                      *)

(* The Run Key goes first, and only if the field changes.                  *)
BeginUpdate(body) ==
    LET cand == [rev |-> Loaded.rev + 1, body |-> body]
    IN  /\ desktop.pc = "idle" /\ file # Damaged /\ Loaded.rev < MaxRev
        /\ Valid(cand)
        /\ desktop' = [pc |-> "write", cand |-> cand, keyed |-> Login(cand) # Login(Loaded)]
        /\ runKey' = IF Login(cand) # Login(Loaded) THEN Login(cand) ELSE runKey
        /\ resync' = [resync EXCEPT !.alone = @ /\ Login(cand) = Login(Loaded)]
        /\ UNCHANGED <<file, slots, db, agent, asked, job, excused, damaged, events>>

WriteFile ==
    /\ desktop.pc = "write"
    /\ file' = desktop.cand
    /\ desktop' = [desktop EXCEPT !.pc = "call", !.keyed = FALSE]
    /\ UNCHANGED <<slots, db, agent, asked, job, login, damaged, events>>

(* Mutant: a failed save leaves the Run Key changed.                       *)
FaultyWriteFileFails ==
    /\ desktop.pc = "write"
    /\ desktop' = Idle
    /\ UNCHANGED <<file, slots, db, agent, asked, job, login, damaged, events>>

(* The old Run Key is put back; when that fails too, the user is told.     *)
WriteFileFails ==
    /\ desktop.pc = "write"
    /\ desktop' = Idle
    /\ IF ~desktop.keyed
       THEN UNCHANGED <<runKey, excused>>
       ELSE \/ runKey' = ~Login(desktop.cand) /\ UNCHANGED excused
            \/ excused' = TRUE /\ UNCHANGED runKey
    /\ UNCHANGED <<file, slots, db, agent, asked, job, resync, damaged, events>>

(* A save has written the Run Key and not yet the file.                    *)
KeyMoves == desktop.pc = "write" /\ desktop.keyed

(* settings_resync_login_startup takes no lock: a save may run between its *)
(* read of the file and its write of the Run Key, or the other way round.  *)
ResyncReads ==
    /\ resync.pc = "idle" /\ file # Damaged /\ Event
    /\ resync' = [pc |-> "write", on |-> Login(Loaded), alone |-> ~KeyMoves]
    /\ UNCHANGED <<file, slots, db, agent, asked, job, desktop, runKey, excused, damaged>>

ResyncWrites ==
    /\ resync.pc = "write"
    /\ resync' = NoResync
    /\ runKey' = resync.on
    /\ excused' = ~resync.alone
    /\ UNCHANGED <<file, slots, db, agent, asked, job, desktop, damaged, events>>

ResyncFails ==
    /\ resync.pc = "write" /\ resync' = NoResync
    /\ UNCHANGED <<file, slots, db, agent, asked, job, desktop, runKey, excused,
                   damaged, events>>

-----------------------------------------------------------------------------
(* What goes wrong outside.                                                *)

(* agent_shutdown: the Writer finishes what it is doing first.             *)
AgentStops ==
    /\ agent.pc = "up" /\ job = NoJob
    /\ agent' = Down /\ asked' = NobodyAsks
    /\ UNCHANGED <<file, slots, db, job, desktop, login, damaged, events>>

AgentDies ==
    /\ agent.pc # "down" /\ Event
    /\ agent' = Down /\ asked' = NobodyAsks /\ job' = NoJob
    /\ UNCHANGED <<file, slots, db, desktop, login, damaged>>

(* A task of the pipeline is gone, or the outcome of some control became   *)
(* unknown: the coordinator refuses what comes before the next start.  A   *)
(* persist call the Writer has begun goes on, its caller is told.          *)
WriterFaults ==
    /\ agent.pc = "up" /\ ~agent.faulted /\ Event
    /\ agent' = [agent EXCEPT !.faulted = TRUE] /\ Answer(job.by)
    /\ UNCHANGED <<file, slots, db, asked, job, login, damaged>>

DesktopDies ==
    /\ desktop.pc # "idle" \/ resync.pc # "idle"
    /\ Event
    /\ desktop' = Idle /\ resync' = NoResync
    /\ excused' = (excused \/ (desktop.pc = "write" /\ desktop.keyed))
    /\ UNCHANGED <<file, slots, db, agent, asked, job, runKey, damaged>>

(* settings.json deleted, damaged, or put back to an older version.        *)
FileTampered ==
    /\ desktop.pc = "idle" /\ Event
    /\ \E f \in Files : f # file /\ file' = f
    /\ excused' = TRUE /\ resync' = [resync EXCEPT !.alone = FALSE]
    /\ UNCHANGED <<slots, db, agent, asked, job, desktop, runKey, damaged>>

SlotLost ==
    /\ Event
    /\ \E n \in Slots : slots[n] # Missing /\ slots' = [slots EXCEPT ![n] = Missing]
    /\ damaged' = TRUE
    /\ UNCHANGED <<file, db, agent, asked, job, desktop, login>>

-----------------------------------------------------------------------------
Persist == PersistCheck \/ PersistSlot \/ PersistCommit \/ PersistFails
GetsTurn(caller) == Refuse(caller) \/ BarrierFails(caller) \/ Serve(caller)
Resync == ResyncReads \/ ResyncWrites \/ ResyncFails

Next ==
    \/ Start \/ Tick \/ (\E c \in Callers : GetsTurn(c)) \/ Persist
    \/ (\E b \in Bodies : BeginUpdate(b)) \/ WriteFile \/ WriteFileFails
    \/ CallReload \/ GiveUp \/ Resync
    \/ AgentStops \/ AgentDies \/ WriterFaults \/ DesktopDies \/ FileTampered \/ SlotLost

(* The reconciler and the Writer keep running while the Agent is up, and   *)
(* neither its barriers nor the disk fail every attempt for ever.  Nothing *)
(* is asked of the Desktop and its calls.                                  *)
Fairness ==
    /\ WF_vars(Tick) /\ WF_vars(GetsTurn("tick")) /\ WF_vars(Persist)
    /\ SF_vars(Serve("tick")) /\ SF_vars(PersistSlot) /\ SF_vars(PersistCommit)

Spec == Init /\ [][Next]_vars /\ Fairness

-----------------------------------------------------------------------------
(* No step of the program, whatever dies in between, leaves the database   *)
(* without a slot that matches it once one did: the new content is in a    *)
(* slot before the row is committed, and the slot it goes to is never the  *)
(* only match.  (Damage between those two writes is left out: no order of  *)
(* the writes could help.)                                                 *)
LkgKept ==
    [][Matching(db) # {} /\ ~(damaged /\ job.pc = "commit") =>
           SlotLost \/ \E n \in Slots : slots'[n] = db']_<<slots, db>>

(* Capture is blocked at a start only if a slot was damaged from outside:  *)
(* crashes, lost or older settings files and failed writes never do it.    *)
NeverBlockedByItself == agent.blocked => damaged

(* A running Agent that may capture uses exactly the settings of the       *)
(* database's newest row, which is the revision it reports as applied.  A  *)
(* blocked one reports that revision too, but runs the defaults, and it    *)
(* keeps them: no reload, retry or repaired file reaches its engine.       *)
EngineMatchesDatabase ==
    agent.pc = "up" /\ job = NoJob =>
        agent.applied = db.rev /\ agent.engine = (IF agent.blocked THEN Default ELSE db)

(* Settings that are refused, because they are older than the row or       *)
(* differ from it under the same revision, are refused before a slot is    *)
(* touched: a slot only ever takes the row's own content or a newer one.   *)
RefusedTouchesNoSlot ==
    [][\A n \in Slots : slots'[n] \in {slots[n], Missing, db} \/ slots'[n].rev > db.rev]_slots

(* Between saves the Run Key agrees with the file, unless the difference   *)
(* was reported, the Desktop died in between, the file was changed from    *)
(* outside, or a resync overlapped a save that changes the login start.    *)
(* Nothing else takes them apart: no failed save, and no resync that had   *)
(* the Run Key to itself.  The last exception is needed: update holds the  *)
(* lock, resync_login_startup does not.                                    *)
RunKeyHonest ==
    desktop.pc # "write" /\ file # Damaged /\ ~excused => runKey = Login(Loaded)

(* settings_reconciler: while an Agent is up that was not blocked at its   *)
(* start and whose Writer is not faulted, a valid file that is newer than  *)
(* the row does not stay unapplied for ever, whether or not the Desktop's  *)
(* own call got through.  A blocked Agent applies nothing before its next  *)
(* start: its engine's revision is not the one it reports as applied.      *)
ForwardFileIsApplied ==
    []<>~(/\ agent.pc = "up" /\ ~agent.blocked /\ ~agent.faulted
          /\ Ready(file) /\ file.rev > db.rev)
=============================================================================
