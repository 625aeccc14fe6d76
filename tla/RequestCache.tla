----------------------------- MODULE RequestCache -----------------------------
(***************************************************************************)
(* The Agent's command server (apps/agent command_server.rs) and the calls *)
(* of the Desktop's pipe client (ipc.rs).  A call is tried at most twice   *)
(* with one request id; the server executes an accepted request in a task  *)
(* of its own and remembers its id, so that a second attempt finds the     *)
(* first.  Time is counted in ticks.  What a command does is the business  *)
(* of the other modules: here an execution only ends, with a result or     *)
(* because its task was dropped.  The Agent runs on one thread: a handler  *)
(* is atomic from await to await.  The client gives an attempt up at any   *)
(* time and the server may still read it later, so the two attempts of a   *)
(* call arrive in any order, at any time, or never.                        *)
(***************************************************************************)
EXTENDS Integers, FiniteSets

CONSTANTS
  Ids,            \* request ids: one for each call of a client
  Capacity,       \* REQUEST_ID_CAPACITY
  InProgress,     \* IN_PROGRESS_CAPACITY
  MaxAge,         \* IN_PROGRESS_MAX_AGE
  Ttl,            \* REQUEST_ID_TTL
  MaxNow,         \* bound: ticks
  MaxExtra        \* bound: attempts other than the first of an id

ASSUME CacheConstants ==
  /\ Capacity \in Nat /\ InProgress \in Nat /\ 0 < InProgress /\ InProgress < Capacity
  /\ MaxAge \in Nat /\ Ttl \in Nat /\ MaxNow \in Nat
  /\ MaxExtra \in Nat

(* What arrives with an id: the call, its retry (ipc.rs call), or another  *)
(* command or payload under the same id.                                   *)
Attempts == Ids \X {"call", "retry", "other"}
Hash(a) == IF a[2] = "other" THEN 2 ELSE 1

VARIABLES
  cache,     \* RequestIdCache.entries: an entry or NoEntry for every id
  next,      \* RequestIdCache.next_generation
  running,   \* the tasks that execute a request, each with its guard
  attempt,   \* each attempt: not arrived, waiting for an execution, or over
  told,      \* history: the final replies that were given
  now,       \* the clock
  used,      \* history: when each id was last of use, or Never
  extra      \* bound: attempts other than the first still to come

vars == <<cache, next, running, attempt, told, now, used, extra>>

NoEntry == [kind |-> "none"]
Never == -1
Reply(kind, gen) == [kind |-> kind, gen |-> gen]
NoGen == -1

(* The replies that end a request for good, with the execution they are of. *)
Final == {"outcome", "unknown"}

OnItsWay == [st |-> "coming"]
WaitingFor(gen) == [st |-> "waiting", gen |-> gen]
Over == [st |-> "over"]

Init ==
  /\ cache = [i \in Ids |-> NoEntry]
  /\ next = 0
  /\ running = {}
  /\ attempt = [a \in Attempts |-> OnItsWay]
  /\ told = {}
  /\ now = 0
  /\ used = [i \in Ids |-> Never]
  /\ extra = MaxExtra

(***************************************************************************)
(* The cache.                                                              *)
(***************************************************************************)
Of(kind, entries) == {i \in Ids : entries[i].kind = kind}
Remembered(entries) == Of("active", entries) \cup Of("completed", entries)

(* Mutant: what is too old is forgotten, whether it still runs or not.     *)
FaultyPurged(entries) ==
  [i \in Ids |->
     IF \/ entries[i].kind = "active" /\ now - entries[i].since >= MaxAge
        \/ entries[i].kind = "completed" /\ now - entries[i].last >= Ttl
     THEN NoEntry ELSE entries[i]]

(* purge_expired_at: an execution that is too old is answered for, but its *)
(* entry stays; a completed one is forgotten after its time to live.       *)
Purged(entries) ==
  [i \in Ids |->
     IF entries[i].kind = "active" /\ now - entries[i].since >= MaxAge
     THEN [entries[i] EXCEPT !.visible = TRUE]
     ELSE IF entries[i].kind = "completed" /\ now - entries[i].last >= Ttl
     THEN NoEntry ELSE entries[i]]

(* Mutant: room is made one entry too late.                                *)
FaultyWithRoom(entries) ==
  IF Cardinality(Remembered(entries)) <= Capacity THEN {entries}
  ELSE {[entries EXCEPT ![i] = NoEntry] : i \in Of("completed", entries)}

(* make_room_for_new: the caches with room for one more id, none when all  *)
(* entries are active.                                                     *)
WithRoom(entries) ==
  IF Cardinality(Remembered(entries)) < Capacity THEN {entries}
  ELSE {[entries EXCEPT ![i] = NoEntry] :
          i \in {j \in Of("completed", entries) :
                   \A k \in Of("completed", entries) : entries[j].last <= entries[k].last}}

(* Mutant: a late outcome replaces the answer that was given.              *)
FaultyStable(entry, run, reply) == reply

(* complete_request: the answer already given for the execution, if any,   *)
(* else the outcome itself.                                                *)
Stable(entry, run, reply) ==
  IF entry.kind = "active" /\ entry.gen = run.gen /\ entry.visible
  THEN Reply("unknown", run.gen) ELSE reply

Completed(entry, run, reply) ==
  IF entry.kind = "active" /\ entry.gen = run.gen
  THEN [kind |-> "completed", hash |-> run.hash, gen |-> run.gen,
        reply |-> Stable(entry, run, reply), last |-> now]
  ELSE entry

(***************************************************************************)
(* handle_request_line: an attempt is read from its connection.            *)
(***************************************************************************)
Arrives(a) ==
  /\ attempt[a] = OnItsWay
  /\ a[2] # "call" => extra > 0
  /\ extra' = IF a[2] # "call" THEN extra - 1 ELSE extra

Answers(a, reply) ==
  /\ attempt' = [attempt EXCEPT ![a] = Over]
  /\ told' = IF reply.kind \in Final THEN told \cup {reply} ELSE told

(* The id is known with another command or payload. *)
Conflicts(a) ==
  LET entries == Purged(cache)
      i == a[1]
  IN  /\ Arrives(a)
      /\ i \in Remembered(entries) /\ entries[i].hash # Hash(a)
      /\ cache' = entries
      /\ Answers(a, Reply("conflict", NoGen))
      /\ UNCHANGED <<next, running, now, used>>

(* Mutant: a replay does not count as an access.                           *)
FaultyReplays(a) ==
  LET entries == Purged(cache)
      i == a[1]
  IN  /\ Arrives(a)
      /\ entries[i].kind = "completed" /\ entries[i].hash = Hash(a)
      /\ cache' = entries
      /\ Answers(a, entries[i].reply)
      /\ used' = [used EXCEPT ![i] = now]
      /\ UNCHANGED <<next, running, now>>

(* The execution is over, or its outcome was already called unknown. *)
Replays(a) ==
  LET entries == Purged(cache)
      i == a[1]
  IN  /\ Arrives(a)
      /\ i \in Remembered(entries) /\ entries[i].hash = Hash(a)
      /\ \/ /\ entries[i].kind = "active" /\ entries[i].visible
            /\ cache' = entries
            /\ Answers(a, Reply("unknown", entries[i].gen))
         \/ /\ entries[i].kind = "completed"
            /\ cache' = [entries EXCEPT ![i].last = now]
            /\ Answers(a, entries[i].reply)
      /\ used' = [used EXCEPT ![i] = now]
      /\ UNCHANGED <<next, running, now>>

WaitsFor(a, gen) == attempt' = [attempt EXCEPT ![a] = WaitingFor(gen)]

(* The execution is under way. *)
Joins(a) ==
  LET entries == Purged(cache)
      i == a[1]
  IN  /\ Arrives(a)
      /\ entries[i].kind = "active" /\ entries[i].hash = Hash(a) /\ ~ entries[i].visible
      /\ cache' = entries
      /\ WaitsFor(a, entries[i].gen)
      /\ UNCHANGED <<next, running, told, now, used>>

(* Too many executions under way, or no room. *)
NoPlace(entries) ==
  Cardinality(Of("active", entries)) >= InProgress \/ WithRoom(entries) = {}

Refuses(a) ==
  LET entries == Purged(cache)
  IN  /\ Arrives(a)
      /\ entries[a[1]] = NoEntry
      /\ NoPlace(entries)
      /\ cache' = entries
      /\ Answers(a, Reply("busy", NoGen))
      /\ UNCHANGED <<next, running, now, used>>

(* A new id: its entry and its guard exist before the task first runs. *)
Accepts(a) ==
  LET entries == Purged(cache)
      i == a[1]
  IN  /\ Arrives(a)
      /\ entries[i] = NoEntry
      /\ ~ NoPlace(entries)
      /\ \E room \in WithRoom(entries) :
           cache' = [room EXCEPT ![i] = [kind |-> "active", hash |-> Hash(a), gen |-> next,
                                         since |-> now, visible |-> FALSE]]
      /\ running' = running \cup {[gen |-> next, id |-> i, hash |-> Hash(a)]}
      /\ next' = next + 1
      /\ WaitsFor(a, next)
      /\ used' = [used EXCEPT ![i] = now]
      /\ UNCHANGED <<told, now>>

(* The dispatch returns, or its task is dropped; the guard completes the   *)
(* request either way, and all that wait for it are told.                  *)
Ends(run) ==
  LET outcome == Reply("outcome", run.gen)
      waiting == {a \in Attempts : attempt[a] = WaitingFor(run.gen)}
  IN  /\ run \in running
      /\ running' = running \ {run}
      /\ cache' = [cache EXCEPT ![run.id] = Completed(@, run, outcome)]
      /\ attempt' = [a \in Attempts |-> IF a \in waiting THEN Over ELSE attempt[a]]
      /\ told' = IF waiting = {} THEN told ELSE told \cup {Stable(cache[run.id], run, outcome)}
      /\ used' = [used EXCEPT ![run.id] = now]
      /\ UNCHANGED <<next, now, extra>>

(* A wait ends after REQUEST_TIMEOUT, with an answer nobody remembers; how *)
(* long that is does not matter to the cache.                              *)
TimesOut(a) ==
  /\ attempt[a].st = "waiting"
  /\ attempt' = [attempt EXCEPT ![a] = Over]
  /\ UNCHANGED <<cache, next, running, told, now, used, extra>>

(***************************************************************************)
(* Time.                                                                   *)
(***************************************************************************)
Tick ==
  /\ now < MaxNow
  /\ now' = now + 1
  /\ UNCHANGED <<cache, next, running, attempt, told, used, extra>>

Next ==
  \/ \E a \in Attempts :
       \/ Conflicts(a) \/ Replays(a) \/ Joins(a) \/ Refuses(a) \/ Accepts(a)
       \/ TimesOut(a)
  \/ \E run \in running : Ends(run)
  \/ Tick

Spec == Init /\ [][Next]_vars

(***************************************************************************)
(* Properties.                                                             *)
(***************************************************************************)
Replies == [kind : Final, gen : Nat]

Entries ==
  [kind : {"active"}, hash : {1, 2}, gen : Nat, since : Nat, visible : BOOLEAN]
    \cup [kind : {"completed"}, hash : {1, 2}, gen : Nat, reply : Replies,
          last : Nat]

(* Type correctness, and the two capacities the code only asserts in debug *)
(* builds (command_server.rs:198, 707).                                    *)
CacheTypeOK ==
  /\ cache \in [Ids -> Entries \cup {NoEntry}]
  /\ next \in Nat /\ now \in Nat
  /\ running \subseteq [gen : Nat, id : Ids, hash : {1, 2}]
  /\ told \subseteq Replies
  /\ Cardinality(Remembered(cache)) <= Capacity
  /\ Cardinality(Of("active", cache)) <= InProgress

(* An execution that runs has the active entry of its id, with its own     *)
(* generation, and an active entry has a running execution: no id is ever  *)
(* executed twice at a time, whatever expires or is evicted (doc 09        *)
(* section 8.2), and no entry stays active for ever after its task died.   *)
RunningIsActive ==
  /\ \A run \in running :
       /\ cache[run.id].kind = "active"
       /\ cache[run.id].gen = run.gen /\ cache[run.id].hash = run.hash
  /\ \A i \in Ids : cache[i].kind = "active" =>
       \E run \in running : run.id = i /\ run.gen = cache[i].gen

(* All attempts that got a final answer of one execution got the same one, *)
(* however late and by whichever way (wait, replay, unknown) it reached    *)
(* them, and it is the one that is remembered.                             *)
AnswersAgree ==
  LET kept == {cache[i].reply : i \in Of("completed", cache)}
  IN  \A r, s \in told \cup kept : r.gen = s.gen => r = s

(* An id whose execution is over is forgotten only when its time to live   *)
(* has passed since it was last of use, or when as many other ids as the   *)
(* cache holds have been of use since or are still executed: a retry       *)
(* within that time does not execute the command again (ipc.rs:139).       *)
RememberedLongEnough ==
  \A i \in Ids :
    used[i] # Never /\ cache[i] = NoEntry /\ now - used[i] < Ttl =>
      Cardinality({j \in Ids \ {i} : used[j] >= used[i] \/ cache[j].kind = "active"}) >= Capacity
=============================================================================
