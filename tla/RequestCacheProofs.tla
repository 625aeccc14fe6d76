-------------------------- MODULE RequestCacheProofs --------------------------
(***************************************************************************)
(* Proofs about RequestCache, for any set of ids, any capacities and any   *)
(* time limits.                                                            *)
(***************************************************************************)
EXTENDS RequestCache, FiniteSetTheorems, TLAPS

(***************************************************************************)
(* The inductive invariant.  Generations are never given twice; a reply    *)
(* that is already known of an execution that still runs can only be the   *)
(* one that calls its outcome unknown, and its entry says so.              *)
(***************************************************************************)
Types ==
  /\ cache \in [Ids -> Entries \cup {NoEntry}]
  /\ next \in Nat /\ now \in Nat
  /\ running \subseteq [gen : Nat, id : Ids, hash : {1, 2}]
  /\ told \subseteq Replies

GensAreOld == \A run \in running : run.gen < next

GensAreUnique == \A r, s \in running : r.gen = s.gen => r = s

Kept(entries) == {entries[i].reply : i \in Of("completed", entries)}

RepliesAreOld == \A r \in told \cup Kept(cache) : r.gen < next

EarlyMeansUnknown ==
  \A i \in Of("active", cache) : \A r \in told \cup Kept(cache) :
    r.gen = cache[i].gen => r.kind = "unknown" /\ cache[i].visible

Agree == \A r, s \in told \cup Kept(cache) : r.gen = s.gen => r = s

CacheInv ==
  /\ Types
  /\ RunningIsActive
  /\ GensAreOld
  /\ GensAreUnique
  /\ RepliesAreOld
  /\ EarlyMeansUnknown
  /\ Agree

(***************************************************************************)
(* What stays of the entries when some of them are purged or evicted: the  *)
(* active ones, which may become visible, and some of the completed ones.  *)
(***************************************************************************)
Trimmed(entries, old) ==
  /\ entries \in [Ids -> Entries \cup {NoEntry}]
  /\ \A i \in Ids :
       /\ entries[i].kind = "active" <=> old[i].kind = "active"
       /\ entries[i].kind = "active" =>
            /\ entries[i].gen = old[i].gen /\ entries[i].hash = old[i].hash
            /\ old[i].visible => entries[i].visible
       /\ entries[i].kind = "completed" =>
            /\ old[i].kind = "completed"
            /\ entries[i].reply = old[i].reply /\ entries[i].hash = old[i].hash

(* Purging trims. *)
LEMMA PurgeTrims ==
  ASSUME cache \in [Ids -> Entries \cup {NoEntry}]
  PROVE  Trimmed(Purged(cache), cache)
<1>1. SUFFICES ASSUME NEW i \in Ids
      PROVE /\ Purged(cache)[i] \in Entries \cup {NoEntry}
            /\ Purged(cache)[i].kind = "active" <=> cache[i].kind = "active"
            /\ Purged(cache)[i].kind = "active" =>
                 /\ Purged(cache)[i].gen = cache[i].gen /\ Purged(cache)[i].hash = cache[i].hash
                 /\ cache[i].visible => Purged(cache)[i].visible
            /\ Purged(cache)[i].kind = "completed" =>
                 /\ cache[i].kind = "completed"
                 /\ Purged(cache)[i].reply = cache[i].reply
                 /\ Purged(cache)[i].hash = cache[i].hash
  BY DEF Trimmed, Purged
<1>2. cache[i] \in Entries \cup {NoEntry}
  OBVIOUS
<1>3. CASE cache[i].kind = "active" /\ now - cache[i].since >= MaxAge
  <2>1. Purged(cache)[i] = [cache[i] EXCEPT !.visible = TRUE]
    BY <1>3 DEF Purged
  <2>2. cache[i] \in [kind : {"active"}, hash : {1, 2}, gen : Nat, since : Nat, visible : BOOLEAN]
    BY <1>2, <1>3 DEF Entries, NoEntry
  <2> QED
    BY <2>1, <2>2, <1>3 DEF Entries
<1>4. CASE ~ (cache[i].kind = "active" /\ now - cache[i].since >= MaxAge)
  <2>1. Purged(cache)[i] \in {cache[i], NoEntry} /\ (cache[i].kind # "completed" => Purged(cache)[i] = cache[i])
    BY <1>4 DEF Purged
  <2> QED
    BY <2>1, <1>2 DEF NoEntry
<1> QED
  BY <1>3, <1>4

(* So does making room. *)
LEMMA RoomTrims ==
  ASSUME NEW old, NEW entries, Trimmed(entries, old), NEW room \in WithRoom(entries)
  PROVE  Trimmed(room, old)
<1>1. CASE room = entries
  BY <1>1
<1>2. CASE room # entries
  <2>1. PICK i \in Of("completed", entries) : room = [entries EXCEPT ![i] = NoEntry]
    BY <1>2 DEF WithRoom
  <2>2. i \in Ids /\ entries[i].kind = "completed"
    BY <2>1 DEF Of
  <2> QED
    BY <2>1, <2>2 DEF Trimmed, NoEntry
<1> QED
  BY <1>1, <1>2

(* An invariant part that speaks of kept replies survives trimming. *)
LEMMA TrimKeeps ==
  ASSUME NEW entries, Trimmed(entries, cache)
  PROVE  Kept(entries) \subseteq Kept(cache)
BY DEF Trimmed, Kept, Of

(***************************************************************************)
(* The steps.                                                              *)
(***************************************************************************)
(* A step that only trims, and may tell a reply that is kept or one that   *)
(* calls the outcome of a visible entry unknown.                           *)
LEMMA TrimStep ==
  ASSUME CacheInv, NEW entries, Trimmed(entries, cache),
         cache' \in [Ids -> Entries \cup {NoEntry}],
         \A i \in Ids :
           /\ cache'[i].kind = entries[i].kind
           /\ entries[i].kind = "active" => cache'[i] = entries[i]
           /\ entries[i].kind = "completed" =>
                cache'[i].reply = entries[i].reply /\ cache'[i].hash = entries[i].hash,
         UNCHANGED <<next, running, now>>,
         told' \subseteq Replies,
         \A r \in told' : \/ r \in told \/ r \in Kept(entries)
                          \/ \E i \in Of("active", entries) :
                               entries[i].visible /\ r = Reply("unknown", entries[i].gen)
  PROVE  CacheInv'
<1> USE DEF CacheInv
<1>1. Types'
  BY DEF Types
<1>2. RunningIsActive'
  BY DEF RunningIsActive, Trimmed, Types
<1>3. GensAreOld' /\ GensAreUnique'
  BY DEF GensAreOld, GensAreUnique
<1>4. Kept(cache') \subseteq Kept(cache) /\ Kept(entries) \subseteq Kept(cache)
  BY DEF Kept, Of, Trimmed
<1>5. \A i \in Of("active", cache') :
        /\ i \in Of("active", cache) /\ i \in Of("active", entries)
        /\ cache'[i].gen = cache[i].gen /\ cache'[i].visible = entries[i].visible
        /\ cache[i].visible => cache'[i].visible
        /\ entries[i].gen = cache[i].gen
  BY DEF Of, Trimmed
<1>6. \A i \in Of("active", entries) : i \in Of("active", cache') /\ i \in Of("active", cache)
                                       /\ entries[i].gen = cache[i].gen
  BY DEF Of, Trimmed
<1>7. \A i \in Of("active", cache) : \E run \in running : run.id = i /\ run.gen = cache[i].gen
  BY DEF RunningIsActive, Of
<1>8. \A i, j \in Of("active", cache) : cache[i].gen = cache[j].gen => i = j
  BY <1>7 DEF GensAreUnique
<1>9. \A r \in told' \cup Kept(cache') :
        \/ r \in told \cup Kept(cache)
        \/ \E i \in Of("active", cache') : cache'[i].visible /\ r = Reply("unknown", cache[i].gen)
  BY <1>4, <1>5, <1>6
<1>10. RepliesAreOld'
  BY <1>9, <1>5, <1>7 DEF RepliesAreOld, GensAreOld, Reply, Types
<1>11. EarlyMeansUnknown'
  <2> SUFFICES ASSUME NEW i \in Of("active", cache'), NEW r \in told' \cup Kept(cache'),
                      r.gen = cache'[i].gen
               PROVE  r.kind = "unknown" /\ cache'[i].visible
    BY DEF EarlyMeansUnknown
  <2>1. CASE r \in told \cup Kept(cache)
    BY <2>1, <1>5 DEF EarlyMeansUnknown
  <2>2. CASE \E j \in Of("active", cache') : cache'[j].visible /\ r = Reply("unknown", cache[j].gen)
    BY <2>2, <1>5, <1>8 DEF Reply
  <2> QED
    BY <2>1, <2>2, <1>9
<1>12. Agree'
  <2> SUFFICES ASSUME NEW r \in told' \cup Kept(cache'), NEW s \in told' \cup Kept(cache'),
                      r.gen = s.gen
               PROVE  r = s
    BY DEF Agree
  <2> DEFINE Early(q) == \E i \in Of("active", cache') : q = Reply("unknown", cache[i].gen)
  <2>1. \A q \in told \cup Kept(cache) : q \in Replies
    BY DEF Types, Kept, Of, Entries, NoEntry
  <2>2. ASSUME NEW p \in told \cup Kept(cache), NEW q, Early(q), p.gen = q.gen
        PROVE  p = q
    <3>1. PICK i \in Of("active", cache') : q = Reply("unknown", cache[i].gen)
      BY <2>2
    <3>2. p.kind = "unknown"
      BY <3>1, <2>2, <1>5 DEF EarlyMeansUnknown, Reply
    <3> QED
      BY <3>1, <3>2, <2>1, <2>2 DEF Reply, Replies
  <2>3. CASE r \in told \cup Kept(cache) /\ s \in told \cup Kept(cache)
    BY <2>3 DEF Agree
  <2>4. CASE Early(r) /\ Early(s)
    BY <2>4 DEF Reply
  <2> QED
    BY <2>2, <2>3, <2>4, <1>9
<1> QED
  BY <1>1, <1>2, <1>3, <1>10, <1>11, <1>12

(* A new id gets a generation nobody has heard of. *)
LEMMA AcceptStep ==
  ASSUME CacheInv, NEW a \in Attempts, Accepts(a)
  PROVE  CacheInv'
<1> USE DEF CacheInv
<1> DEFINE i == a[1]
           entry == [kind |-> "active", hash |-> Hash(a), gen |-> next, since |-> now,
                     visible |-> FALSE]
           run == [gen |-> next, id |-> i, hash |-> Hash(a)]
<1>1. i \in Ids /\ Hash(a) \in {1, 2} /\ next \in Nat /\ now \in Nat
  BY DEF Attempts, Hash, Types
<1>2. PICK room \in WithRoom(Purged(cache)) : cache' = [room EXCEPT ![i] = entry]
  BY DEF Accepts
<1>3. Trimmed(room, cache)
  BY PurgeTrims, RoomTrims DEF Types
<1>4. Purged(cache)[i] = NoEntry /\ Trimmed(Purged(cache), cache)
  BY PurgeTrims DEF Accepts, Types
<1>5. cache[i].kind # "active"
  BY <1>4, <1>1 DEF Trimmed, NoEntry
<1>6. /\ running' = running \cup {run}
      /\ next' = next + 1 /\ UNCHANGED <<told, now>>
  BY DEF Accepts
<1>7. /\ cache'[i] = entry
      /\ \A j \in Ids \ {i} : cache'[j] = room[j]
  BY <1>1, <1>2, <1>3 DEF Trimmed
<1>8. Types'
  <2>1. entry \in Entries
    BY <1>1 DEF Entries
  <2> QED
    BY <1>1, <1>2, <1>3, <1>6, <2>1 DEF Types, Trimmed
<1>9. RunningIsActive'
  <2>1. \A r \in running : r.id \in Ids \ {i}
    BY <1>5 DEF RunningIsActive, Types
  <2>2. \A r \in running : /\ cache'[r.id].kind = "active"
                            /\ cache'[r.id].gen = r.gen /\ cache'[r.id].hash = r.hash
    BY <2>1, <1>3, <1>7 DEF RunningIsActive, Trimmed
  <2>3. run.id = i /\ run.gen = next /\ run.hash = Hash(a)
    OBVIOUS
  <2>4. \A r \in running' : /\ cache'[r.id].kind = "active"
                             /\ cache'[r.id].gen = r.gen /\ cache'[r.id].hash = r.hash
    BY <2>2, <2>3, <1>6, <1>7
  <2>5. ASSUME NEW j \in Ids, cache'[j].kind = "active"
        PROVE  \E r \in running' : r.id = j /\ r.gen = cache'[j].gen
    <3>1. CASE j = i
      <4>1. run \in running' /\ entry.gen = next /\ cache'[i] = entry
        BY <1>6, <1>7
      <4> QED
        BY <3>1, <4>1, <2>3
    <3>2. CASE j # i
      BY <3>2, <2>5, <1>3, <1>6, <1>7 DEF RunningIsActive, Trimmed
    <3> QED
      BY <3>1, <3>2
  <2> QED
    BY <2>4, <2>5 DEF RunningIsActive
<1>10. GensAreOld' /\ GensAreUnique'
  BY <1>1, <1>6 DEF GensAreOld, GensAreUnique, Types
<1>11. Kept(cache') \subseteq Kept(cache)
  BY <1>1, <1>3, <1>7 DEF Kept, Of, Trimmed
<1>12. \A r \in told \cup Kept(cache) : r.gen \in Nat /\ r.gen < next
  BY DEF RepliesAreOld, Types, Kept, Of, Entries, NoEntry, Replies
<1>13. RepliesAreOld' /\ Agree'
  BY <1>1, <1>6, <1>11, <1>12 DEF RepliesAreOld, Agree
<1>14. EarlyMeansUnknown'
  <2> SUFFICES ASSUME NEW j \in Of("active", cache'), NEW r \in told \cup Kept(cache'),
                      r.gen = cache'[j].gen
               PROVE  r.kind = "unknown" /\ cache'[j].visible
    BY <1>6 DEF EarlyMeansUnknown
  <2>1. j # i
    BY <1>1, <1>7, <1>11, <1>12
  <2>2. j \in Of("active", cache) /\ cache'[j].gen = cache[j].gen
        /\ (cache[j].visible => cache'[j].visible)
    BY <2>1, <1>3, <1>7 DEF Of, Trimmed
  <2> QED
    BY <2>2, <1>11 DEF EarlyMeansUnknown
<1> QED
  BY <1>8, <1>9, <1>10, <1>13, <1>14

(* An execution ends: its entry is active, and keeps what was said early.  *)
LEMMA EndStep ==
  ASSUME CacheInv, NEW run \in running, Ends(run)
  PROVE  CacheInv'
<1> USE DEF CacheInv
<1> DEFINE i == run.id
           outcome == Reply("outcome", run.gen)
           reply == Stable(cache[i], run, outcome)
           entry == [kind |-> "completed", hash |-> run.hash, gen |-> run.gen,
                     reply |-> reply, last |-> now]
<1>1. /\ i \in Ids /\ run.gen \in Nat /\ run.hash \in {1, 2}
      /\ cache[i].kind = "active" /\ cache[i].gen = run.gen /\ cache[i] \in Entries
  BY DEF Types, RunningIsActive, NoEntry
<1>2. cache' = [cache EXCEPT ![i] = entry]
  BY <1>1 DEF Ends, Completed
<1>3. /\ running' = running \ {run} /\ UNCHANGED <<next, now>>
      /\ told' \in {told, told \cup {reply}}
  BY DEF Ends
<1>4. reply \in Replies /\ reply.gen = run.gen
      /\ (cache[i].visible => reply = Reply("unknown", run.gen))
  BY <1>1 DEF Stable, Reply, Replies, Final
<1>5. /\ cache'[i] = entry
      /\ \A j \in Ids \ {i} : cache'[j] = cache[j]
  BY <1>1, <1>2 DEF Types
<1>6. Types'
  <2>1. entry \in Entries
    BY <1>1, <1>4 DEF Entries, Types
  <2> QED
    BY <1>1, <1>2, <1>3, <1>4, <2>1 DEF Types
<1>7. RunningIsActive'
  <2>1. \A r \in running \ {run} : r.id # i
    BY <1>1 DEF RunningIsActive, GensAreUnique
  <2>2. \A j \in Ids : cache'[j].kind = "active" =>
           j # i /\ \E r \in running' : r.id = j /\ r.gen = cache'[j].gen
    BY <1>3, <1>5 DEF RunningIsActive
  <2> QED
    BY <2>1, <2>2, <1>3, <1>5 DEF RunningIsActive, Types
<1>8. GensAreOld' /\ GensAreUnique'
  BY <1>3 DEF GensAreOld, GensAreUnique
<1>9. \A r \in told' \cup Kept(cache') : r \in told \cup Kept(cache) \/ r = reply
  <2>1. Kept(cache') \subseteq Kept(cache) \cup {reply}
    BY <1>1, <1>5 DEF Kept, Of
  <2> QED
    BY <2>1, <1>3
<1>10. RepliesAreOld'
  BY <1>3, <1>4, <1>9 DEF RepliesAreOld, GensAreOld
<1>11. i \in Of("active", cache)
  BY <1>1 DEF Of
<1>12. EarlyMeansUnknown'
  <2> SUFFICES ASSUME NEW j \in Of("active", cache'), NEW r \in told' \cup Kept(cache'),
                      r.gen = cache'[j].gen
               PROVE  r.kind = "unknown" /\ cache'[j].visible
    BY DEF EarlyMeansUnknown
  <2>1. j # i /\ j \in Of("active", cache) /\ cache'[j] = cache[j]
    BY <1>5 DEF Of
  <2>2. cache[j].gen # run.gen
    BY <2>1, <1>1 DEF RunningIsActive, GensAreUnique, Of
  <2> QED
    BY <2>1, <2>2, <1>4, <1>9 DEF EarlyMeansUnknown
<1>13. Agree'
  <2> SUFFICES ASSUME NEW r \in told \cup Kept(cache), r.gen = run.gen
               PROVE  r = reply
    BY <1>4, <1>9 DEF Agree
  <2>1. r.kind = "unknown" /\ cache[i].visible
    BY <1>1, <1>11 DEF EarlyMeansUnknown
  <2>2. r \in Replies
    BY DEF Types, Kept, Of, Entries, NoEntry
  <2> QED
    BY <2>1, <2>2, <1>4 DEF Reply, Replies
<1> QED
  BY <1>6, <1>7, <1>8, <1>10, <1>12, <1>13

(***************************************************************************)
(* The theorems.                                                           *)
(***************************************************************************)
LEMMA InitInv == Init => CacheInv
BY DEF Init, CacheInv, Types, RunningIsActive, GensAreOld, GensAreUnique, RepliesAreOld,
       EarlyMeansUnknown, Agree, Kept, Of, NoEntry

LEMMA NextInv == CacheInv /\ [Next]_vars => CacheInv'
<1> SUFFICES ASSUME CacheInv, [Next]_vars PROVE CacheInv'
  OBVIOUS
<1>1. Trimmed(Purged(cache), cache) /\ Trimmed(cache, cache)
  BY PurgeTrims DEF CacheInv, Types, Trimmed
<1>2. ASSUME NEW a \in Attempts, Conflicts(a) \/ Refuses(a) PROVE CacheInv'
  BY <1>1, <1>2, TrimStep DEF Conflicts, Refuses, Answers, Reply, Final, Trimmed, CacheInv, Types
<1>3. ASSUME NEW a \in Attempts, Replays(a) PROVE CacheInv'
  <2> DEFINE i == a[1]
             entries == Purged(cache)
  <2>1. i \in Ids
    BY DEF Attempts
  <2>2. CASE /\ entries[i].kind = "active" /\ entries[i].visible
             /\ cache' = entries
             /\ Answers(a, Reply("unknown", entries[i].gen))
    <3>1. Reply("unknown", entries[i].gen) \in Replies
      BY <1>1, <2>1, <2>2 DEF Trimmed, Entries, NoEntry, Reply, Replies, Final
    <3>2. told' = told \cup {Reply("unknown", entries[i].gen)}
      BY <2>2 DEF Answers, Reply, Final
    <3>3. i \in Of("active", entries)
      BY <2>1, <2>2 DEF Of
    <3> QED
      BY <1>1, <1>3, <2>2, <3>1, <3>2, <3>3, TrimStep DEF Replays, Trimmed, CacheInv, Types
  <2>3. CASE /\ entries[i].kind = "completed"
             /\ cache' = [entries EXCEPT ![i].last = now]
             /\ Answers(a, entries[i].reply)
    <3>1. entries[i] \in [kind : {"completed"}, hash : {1, 2}, gen : Nat, reply : Replies, last : Nat]
      BY <1>1, <2>1, <2>3 DEF Trimmed, Entries, NoEntry
    <3>2. /\ cache'[i] \in Entries /\ cache'[i].kind = "completed"
          /\ cache'[i].reply = entries[i].reply /\ cache'[i].hash = entries[i].hash
          /\ \A j \in Ids \ {i} : cache'[j] = entries[j]
      BY <3>1, <1>1, <2>1, <2>3 DEF Trimmed, CacheInv, Types, Entries
    <3>3. cache' \in [Ids -> Entries \cup {NoEntry}]
      BY <3>2, <1>1, <2>1, <2>3 DEF Trimmed
    <3>4. entries[i].reply \in Replies /\ entries[i].reply \in Kept(entries)
      BY <3>1, <2>1, <2>3 DEF Kept, Of
    <3>5. told' = told \cup {entries[i].reply}
      BY <3>4, <2>3 DEF Answers, Replies
    <3>6. told' \subseteq Replies /\ UNCHANGED <<next, running, now>>
      BY <3>4, <3>5, <1>3 DEF CacheInv, Types, Replays
    <3> QED
      BY <1>1, <2>3, <3>2, <3>3, <3>4, <3>5, <3>6, TrimStep
  <2> QED
    BY <1>3, <2>2, <2>3 DEF Replays
<1>4. ASSUME NEW a \in Attempts, Joins(a) PROVE CacheInv'
  BY <1>1, <1>4, TrimStep DEF Joins, Trimmed, CacheInv, Types
<1>5. ASSUME NEW a \in Attempts, Accepts(a) PROVE CacheInv'
  BY <1>5, AcceptStep
<1>6. ASSUME NEW a \in Attempts, TimesOut(a) PROVE CacheInv'
  BY <1>1, <1>6, TrimStep DEF TimesOut, Trimmed, CacheInv, Types
<1>7. ASSUME NEW run \in running, Ends(run) PROVE CacheInv'
  BY <1>7, EndStep
<1>8. CASE Tick
  BY <1>8 DEF Tick, CacheInv, Types, RunningIsActive, GensAreOld, GensAreUnique, RepliesAreOld,
              EarlyMeansUnknown, Agree, Kept, Of, CacheConstants
<1>9. CASE UNCHANGED vars
  BY <1>9 DEF vars, CacheInv, Types, RunningIsActive, GensAreOld, GensAreUnique, RepliesAreOld,
              EarlyMeansUnknown, Agree, Kept, Of
<1> QED
  BY <1>2, <1>3, <1>4, <1>5, <1>6, <1>7, <1>8, <1>9 DEF Next

(* For any capacities and time limits: no command is executed twice at a   *)
(* time under one id, and no entry outlives its execution as active.       *)
THEOREM SpecRunningIsActive == Spec => []RunningIsActive
<1>1. CacheInv => RunningIsActive
  BY DEF CacheInv
<1> QED
  BY <1>1, InitInv, NextInv, PTL DEF Spec

(* Whoever gets a final answer of an execution gets the same one.          *)
THEOREM SpecAnswersAgree == Spec => []AnswersAgree
<1>1. CacheInv => AnswersAgree
  BY DEF CacheInv, Agree, AnswersAgree, Kept
<1> QED
  BY <1>1, InitInv, NextInv, PTL DEF Spec

(***************************************************************************)
(* What is remembered.  The cache never holds more than its capacities,    *)
(* and what it forgets is old or has been pushed out by what is not older: *)
(* the time of a completed entry is the time its id was last of use.       *)
(***************************************************************************)
RoomInv ==
  /\ IsFiniteSet(Remembered(cache))
  /\ Cardinality(Remembered(cache)) <= Capacity
  /\ Cardinality(Of("active", cache)) <= InProgress

InUse == {i \in Ids : used[i] # Never}

UseInv ==
  /\ used \in [Ids -> Nat \cup {Never}]
  /\ IsFiniteSet(InUse)
  /\ \A i \in InUse : used[i] <= now
  /\ Remembered(cache) \subseteq InUse
  /\ \A i \in Of("completed", cache) : cache[i].last = used[i]

(* The ids that push i out: of use since, or still executed. *)
Later(i) == {j \in Ids \ {i} : used[j] >= used[i] \/ cache[j].kind = "active"}

(* Purging drops completed entries that are too old, and nothing else. *)
LEMMA PurgeForgets ==
  ASSUME Types, UseInv
  PROVE  \A j \in Ids :
           /\ Purged(cache)[j].kind = "active" <=> cache[j].kind = "active"
           /\ Purged(cache)[j].kind = "completed" => Purged(cache)[j] = cache[j]
           /\ Purged(cache)[j] = NoEntry =>
                cache[j] = NoEntry \/ (cache[j].kind = "completed" /\ now - used[j] >= Ttl)
<1> SUFFICES ASSUME NEW j \in Ids
             PROVE  /\ Purged(cache)[j].kind = "active" <=> cache[j].kind = "active"
                    /\ Purged(cache)[j].kind = "completed" => Purged(cache)[j] = cache[j]
                    /\ Purged(cache)[j] = NoEntry =>
                         \/ cache[j] = NoEntry
                         \/ cache[j].kind = "completed" /\ now - used[j] >= Ttl
  OBVIOUS
<1>1. cache[j] \in Entries \cup {NoEntry}
  BY DEF Types
<1>2. CASE cache[j].kind = "active" /\ now - cache[j].since >= MaxAge
  <2>1. Purged(cache)[j] = [cache[j] EXCEPT !.visible = TRUE]
    BY <1>2 DEF Purged
  <2>2. cache[j] \in [kind : {"active"}, hash : {1, 2}, gen : Nat, since : Nat,
                      visible : BOOLEAN]
    BY <1>1, <1>2 DEF Entries, NoEntry
  <2>3. Purged(cache)[j].kind = "active"
    BY <2>1, <2>2
  <2> QED
    BY <1>2, <2>3 DEF NoEntry
<1>3. CASE cache[j].kind = "completed" /\ now - cache[j].last >= Ttl
  <2>1. Purged(cache)[j] = NoEntry
    BY <1>3 DEF Purged
  <2>2. cache[j].last = used[j]
    BY <1>3 DEF UseInv, Of
  <2> QED
    BY <1>3, <2>1, <2>2 DEF NoEntry
<1>4. CASE /\ ~ (cache[j].kind = "active" /\ now - cache[j].since >= MaxAge)
           /\ ~ (cache[j].kind = "completed" /\ now - cache[j].last >= Ttl)
  <2>1. Purged(cache)[j] = cache[j]
    BY <1>4 DEF Purged
  <2> QED
    BY <2>1
<1> QED
  BY <1>2, <1>3, <1>4

(* A step by which nothing new is remembered. *)
LEMMA RoomStays ==
  ASSUME RoomInv, Remembered(cache') \subseteq Remembered(cache),
         Of("active", cache') \subseteq Of("active", cache)
  PROVE  RoomInv'
<1>1. /\ IsFiniteSet(Remembered(cache'))
      /\ Cardinality(Remembered(cache')) <= Cardinality(Remembered(cache))
  BY FS_Subset DEF RoomInv
<1>2. IsFiniteSet(Of("active", cache))
  BY FS_Subset DEF RoomInv, Remembered
<1>3. /\ IsFiniteSet(Of("active", cache'))
      /\ Cardinality(Of("active", cache')) <= Cardinality(Of("active", cache))
  BY <1>2, FS_Subset
<1>4. /\ Cardinality(Remembered(cache)) \in Nat /\ Cardinality(Remembered(cache')) \in Nat
      /\ Cardinality(Of("active", cache)) \in Nat /\ Cardinality(Of("active", cache')) \in Nat
  BY <1>1, <1>2, <1>3, FS_CardinalityType DEF RoomInv
<1> QED
  BY <1>1, <1>3, <1>4, CacheConstants DEF RoomInv

(* What pushes a forgotten id out never becomes less. *)
LEMMA LaterGrows ==
  ASSUME UseInv, NEW i \in InUse, used'[i] = used[i], now \in Nat,
         used' \in [Ids -> Nat \cup {Never}], IsFiniteSet(InUse'),
         Remembered(cache') \subseteq InUse',
         \A j \in Ids : used'[j] \in {used[j], now},
         \A j \in Of("active", cache) : cache'[j].kind = "active" \/ used'[j] = now,
         Cardinality(Later(i)) >= Capacity
  PROVE  Cardinality(Later(i)') >= Capacity
<1>1. used[i] \in Nat /\ used[i] <= now
  BY DEF UseInv, InUse, Never
<1>2. Later(i) \subseteq Later(i)'
  <2> SUFFICES ASSUME NEW j \in Later(i)
               PROVE  used'[j] >= used[i] \/ cache'[j].kind = "active"
    BY DEF Later
  <2>1. j \in Ids /\ used'[j] \in {used[j], now} /\ used[j] \in Nat \cup {Never}
    BY DEF Later, UseInv
  <2>2. CASE used[j] >= used[i]
    BY <1>1, <2>1, <2>2
  <2>3. CASE cache[j].kind = "active"
    BY <1>1, <2>1, <2>3 DEF Of
  <2> QED
    BY <2>2, <2>3 DEF Later
<1>3. Later(i)' \subseteq InUse'
  <2> SUFFICES ASSUME NEW j \in Later(i)' PROVE j \in InUse'
    OBVIOUS
  <2>1. j \in Ids /\ (used'[j] >= used[i] \/ cache'[j].kind = "active")
    BY DEF Later
  <2>2. CASE used'[j] >= used[i]
    BY <1>1, <2>1, <2>2 DEF InUse, Never
  <2>3. CASE cache'[j].kind = "active"
    BY <2>1, <2>3 DEF Remembered, Of
  <2> QED
    BY <2>1, <2>2, <2>3
<1>4. IsFiniteSet(Later(i)')
  BY <1>3, FS_Subset
<1>5. IsFiniteSet(Later(i)) /\ Cardinality(Later(i)) <= Cardinality(Later(i)')
  BY <1>2, <1>4, FS_Subset
<1>6. Cardinality(Later(i)) \in Nat /\ Cardinality(Later(i)') \in Nat
  BY <1>4, <1>5, FS_CardinalityType
<1> QED
  BY <1>5, <1>6, CacheConstants

(* A step that uses some ids and forgets none but the old and the pushed.  *)
LEMMA KeptStep ==
  ASSUME Types, Types', UseInv, RememberedLongEnough, now' >= now,
         used' \in [Ids -> Nat \cup {Never}], IsFiniteSet(InUse'),
         \A j \in Ids : used'[j] \in {used[j], now},
         \A j \in Ids : cache'[j] = NoEntry =>
           /\ used'[j] = used[j]
           /\ \/ cache[j] = NoEntry
              \/ now - used[j] >= Ttl
              \/ Cardinality(Later(j)') >= Capacity,
         \A j \in Of("active", cache) : cache'[j].kind = "active" \/ used'[j] = now,
         \A j \in Of("completed", cache') : cache'[j].last = used'[j],
         \A j \in Of("active", cache') : used'[j] # Never
  PROVE  UseInv' /\ RememberedLongEnough'
<1>1. now \in Nat /\ now' \in Nat
  BY DEF Types
<1>2. Remembered(cache') \subseteq InUse'
  <2>1. \A j \in Of("completed", cache') : cache'[j].last \in Nat
    BY DEF Of, Types, Entries, NoEntry
  <2> QED
    BY <2>1 DEF Remembered, InUse, Of, Never
<1>3. \A j \in InUse' : used'[j] <= now'
  BY <1>1 DEF UseInv, InUse, Never
<1>4. UseInv'
  BY <1>2, <1>3 DEF UseInv
<1>5. ASSUME NEW i \in Ids, used'[i] # Never, cache'[i] = NoEntry, now' - used'[i] < Ttl
      PROVE  Cardinality(Later(i)') >= Capacity
  <2>1. used'[i] = used[i] /\ used[i] \in Nat /\ i \in InUse
    BY <1>5 DEF UseInv, InUse, Never
  <2>2. now - used[i] < Ttl
    BY <1>1, <1>5, <2>1, CacheConstants
  <2>3. CASE cache[i] = NoEntry
    <3>1. Cardinality(Later(i)) >= Capacity
      BY <2>1, <2>2, <2>3 DEF RememberedLongEnough, Later, InUse
    <3> QED
      BY <1>1, <1>2, <2>1, <3>1, LaterGrows
  <2> QED
    BY <1>1, <1>5, <2>1, <2>2, <2>3, CacheConstants
<1>6. RememberedLongEnough'
  BY <1>5 DEF RememberedLongEnough, Later
<1> QED
  BY <1>4, <1>6

(* A step that only purges, and counts as a use of at most one id.         *)
LEMMA PurgeStep ==
  ASSUME Types, Types', UseInv, RoomInv, RememberedLongEnough, UNCHANGED now,
         NEW i \in Ids,
         \/ cache' = Purged(cache) /\ used' = used
         \/ /\ cache' = Purged(cache) /\ used' = [used EXCEPT ![i] = now]
            /\ cache'[i].kind = "active"
         \/ /\ used' = [used EXCEPT ![i] = now]
            /\ cache'[i].kind = "completed" /\ cache'[i].last = now
            /\ Purged(cache)[i].kind \in {"active", "completed"}
            /\ \A j \in Ids \ {i} : cache'[j] = Purged(cache)[j]
  PROVE  UseInv' /\ RoomInv' /\ RememberedLongEnough'
<1> DEFINE entries == Purged(cache)
<1>0. /\ now \in Nat /\ used \in [Ids -> Nat \cup {Never}]
      /\ \A j \in Ids : cache[j] \in Entries \cup {NoEntry}
                        /\ cache'[j] \in Entries \cup {NoEntry}
  BY DEF Types, UseInv
<1>1. \A j \in Ids :
        /\ entries[j].kind = "active" <=> cache[j].kind = "active"
        /\ entries[j].kind = "completed" => entries[j] = cache[j]
        /\ entries[j] = NoEntry =>
             cache[j] = NoEntry \/ (cache[j].kind = "completed" /\ now - used[j] >= Ttl)
  BY PurgeForgets
<1> HIDE DEF entries
<1>2. /\ used' \in [Ids -> Nat \cup {Never}]
      /\ \A j \in Ids : used'[j] \in {used[j], now}
      /\ \A j \in Ids \ {i} : used'[j] = used[j]
  BY <1>0
<1>3. IsFiniteSet(InUse')
  <2>1. InUse' \subseteq InUse \cup {i}
    BY <1>2 DEF InUse
  <2> QED
    BY <2>1, FS_AddElement, FS_Subset DEF UseInv
<1>4. \A j \in Ids \ {i} : cache'[j] = entries[j]
  BY DEF entries
<1>5. \/ cache'[i] = entries[i] /\ used'[i] = used[i]
      \/ /\ used'[i] = now
         /\ \/ cache'[i] = entries[i] /\ cache'[i].kind = "active"
            \/ /\ cache'[i].kind = "completed" /\ cache'[i].last = now
               /\ entries[i].kind \in {"active", "completed"}
  BY <1>0 DEF entries
<1>6. \A j \in Of("active", cache) : cache'[j].kind = "active" \/ used'[j] = now
  BY <1>1, <1>4, <1>5 DEF Of
<1>7. \A j \in Of("completed", cache') : cache'[j].last = used'[j]
  BY <1>1, <1>2, <1>4, <1>5 DEF Of, UseInv
<1>8. \A j \in Of("active", cache') : used'[j] # Never
  BY <1>0, <1>1, <1>2, <1>4, <1>5 DEF Of, UseInv, Remembered, InUse, Never
<1>9. \A j \in Ids : cache'[j] = NoEntry =>
        /\ used'[j] = used[j]
        /\ cache[j] = NoEntry \/ now - used[j] >= Ttl
  BY <1>1, <1>2, <1>4, <1>5 DEF NoEntry
<1>10. UseInv' /\ RememberedLongEnough'
  BY <1>0, <1>2, <1>3, <1>6, <1>7, <1>8, <1>9, KeptStep
<1>11. \A j \in Ids : /\ cache'[j].kind = "active" => cache[j].kind = "active"
                      /\ cache'[j].kind = "completed" => cache[j].kind \in {"active", "completed"}
  BY <1>1, <1>4, <1>5
<1>12. RoomInv'
  BY <1>11, RoomStays DEF Remembered, Of
<1> QED
  BY <1>10, <1>12

(* A new id takes the room that was made for it.  When that cost another   *)
(* id its entry, all the others that are remembered push that one out, and *)
(* so does the new one.                                                    *)
LEMMA AcceptKeeps ==
  ASSUME Types, Types', UseInv, RoomInv, RememberedLongEnough, NEW a \in Attempts, Accepts(a)
  PROVE  UseInv' /\ RoomInv' /\ RememberedLongEnough'
<1> DEFINE i == a[1]
           entries == Purged(cache)
           entry == [kind |-> "active", hash |-> Hash(a), gen |-> next, since |-> now,
                     visible |-> FALSE]
<1>1. i \in Ids
  BY DEF Attempts
<1>2. /\ entries[i] = NoEntry /\ ~ NoPlace(entries)
      /\ used' = [used EXCEPT ![i] = now] /\ UNCHANGED now
  BY DEF Accepts
<1>3. PICK room \in WithRoom(entries) : cache' = [room EXCEPT ![i] = entry]
  BY DEF Accepts
<1>4. /\ now \in Nat /\ used \in [Ids -> Nat \cup {Never}]
      /\ \A j \in Ids : cache[j] \in Entries \cup {NoEntry}
      /\ entry.kind = "active" /\ entries = [j \in Ids |-> entries[j]]
  BY DEF Types, UseInv, Purged
<1>5. \A j \in Ids :
        /\ entries[j].kind = "active" <=> cache[j].kind = "active"
        /\ entries[j].kind = "completed" => entries[j] = cache[j]
        /\ entries[j] = NoEntry =>
             cache[j] = NoEntry \/ (cache[j].kind = "completed" /\ now - used[j] >= Ttl)
  BY PurgeForgets
<1>6. /\ Of("active", entries) = Of("active", cache)
      /\ Remembered(entries) \subseteq Remembered(cache)
  BY <1>5 DEF Of, Remembered
<1>7. /\ IsFiniteSet(Remembered(entries)) /\ Cardinality(Remembered(entries)) \in Nat
      /\ Cardinality(Remembered(entries)) <= Capacity
      /\ IsFiniteSet(Of("active", entries)) /\ Cardinality(Of("active", entries)) \in Nat
      /\ Cardinality(Of("active", entries)) < InProgress
  <2>1. /\ IsFiniteSet(Remembered(entries))
        /\ Cardinality(Remembered(entries)) <= Cardinality(Remembered(cache))
    BY <1>6, FS_Subset DEF RoomInv
  <2>2. IsFiniteSet(Of("active", entries))
    BY <2>1, FS_Subset DEF Remembered
  <2>3. /\ Cardinality(Remembered(entries)) \in Nat /\ Cardinality(Remembered(cache)) \in Nat
        /\ Cardinality(Of("active", entries)) \in Nat
    BY <2>1, <2>2, FS_CardinalityType DEF RoomInv
  <2> QED
    BY <1>2, <2>1, <2>2, <2>3, CacheConstants DEF RoomInv, NoPlace
<1>8. i \notin Remembered(entries)
  BY <1>2 DEF Remembered, Of, NoEntry
<1> HIDE DEF entries, entry
<1>9. \/ room = entries /\ Cardinality(Remembered(entries)) < Capacity
      \/ /\ Cardinality(Remembered(entries)) = Capacity
         /\ \E j \in Of("completed", entries) :
              /\ room = [entries EXCEPT ![j] = NoEntry]
              /\ \A k \in Of("completed", entries) : entries[j].last <= entries[k].last
  BY <1>7, CacheConstants DEF WithRoom
<1>10. /\ \A j \in Ids : used'[j] \in {used[j], now}
       /\ \A j \in Ids \ {i} : used'[j] = used[j]
       /\ used'[i] = now /\ used' \in [Ids -> Nat \cup {Never}]
  BY <1>1, <1>2, <1>4
<1>11. IsFiniteSet(InUse')
  <2>1. InUse' \subseteq InUse \cup {i}
    BY <1>10 DEF InUse
  <2> QED
    BY <2>1, FS_AddElement, FS_Subset DEF UseInv
<1>12. \A j \in Ids \ {i} : cache'[j] = room[j] /\ room[j] \in {entries[j], NoEntry}
                            /\ (entries[j].kind # "completed" => room[j] = entries[j])
  BY <1>3, <1>4, <1>9 DEF Of
<1>13. cache'[i] = entry
  BY <1>1, <1>3, <1>4, <1>9
<1>14. Of("active", cache') = Of("active", entries) \cup {i}
  BY <1>1, <1>4, <1>12, <1>13 DEF Of, NoEntry
<1>15. Cardinality(Of("active", cache')) <= InProgress
  <2> DEFINE active == Of("active", entries)
  <2>1. IsFiniteSet(active) /\ Cardinality(active) \in Nat /\ Cardinality(active) < InProgress
    BY <1>7
  <2>2. Of("active", cache') = active \cup {i}
    BY <1>14
  <2> HIDE DEF active
  <2>3. Cardinality(active \cup {i}) \in {Cardinality(active), Cardinality(active) + 1}
    BY <2>1, FS_AddElement
  <2>4. Cardinality(active \cup {i}) <= InProgress
    BY <2>1, <2>3, CacheConstants
  <2> QED
    BY <2>2, <2>4
<1>16. CASE room = entries /\ Cardinality(Remembered(entries)) < Capacity
  <2>1. Remembered(cache') = Remembered(entries) \cup {i}
    BY <1>1, <1>3, <1>4, <1>13, <1>16 DEF Remembered, Of
  <2>2. RoomInv'
    <3>1. /\ IsFiniteSet(Remembered(entries) \cup {i})
          /\ Cardinality(Remembered(entries) \cup {i}) <= Cardinality(Remembered(entries)) + 1
      <4> DEFINE known == Remembered(entries)
      <4>1. IsFiniteSet(known) /\ Cardinality(known) \in Nat
        BY <1>7, FS_CardinalityType
      <4> HIDE DEF known
      <4>2. IsFiniteSet(known \cup {i}) /\ Cardinality(known \cup {i}) <= Cardinality(known) + 1
        BY <4>1, FS_AddElement
      <4> QED BY <4>2 DEF known
    <3>2. Cardinality(Remembered(entries) \cup {i}) <= Capacity
      BY <1>7, <1>16, <3>1, FS_CardinalityType, CacheConstants
    <3> QED
      BY <1>15, <2>1, <3>1, <3>2 DEF RoomInv
  <2>3. \A j \in Ids : cache'[j] = NoEntry =>
          /\ used'[j] = used[j]
          /\ cache[j] = NoEntry \/ now - used[j] >= Ttl
    BY <1>4, <1>5, <1>10, <1>13, <1>12, <1>16, <1>3 DEF NoEntry
  <2>4. /\ \A j \in Of("active", cache) : cache'[j].kind = "active" \/ used'[j] = now
        /\ \A j \in Of("completed", cache') : cache'[j].last = used'[j]
        /\ \A j \in Of("active", cache') : used'[j] # Never
    BY <1>4, <1>5, <1>10, <1>12, <1>13, <1>14, <1>6
       DEF Of, UseInv, Remembered, InUse, NoEntry, Never
  <2>5. UseInv' /\ RememberedLongEnough'
    BY <1>2, <1>4, <1>10, <1>11, <2>3, <2>4, KeptStep
  <2> QED
    BY <2>2, <2>5
<1>17. CASE /\ Cardinality(Remembered(entries)) = Capacity
            /\ \E j \in Of("completed", entries) :
                 /\ room = [entries EXCEPT ![j] = NoEntry]
                 /\ \A k \in Of("completed", entries) : entries[j].last <= entries[k].last
  <2>1. PICK e \in Of("completed", entries) :
               /\ room = [entries EXCEPT ![e] = NoEntry]
               /\ \A k \in Of("completed", entries) : entries[e].last <= entries[k].last
    BY <1>17
  <2>2. e \in Ids /\ e # i /\ e \in Remembered(entries) /\ entries[e].kind = "completed"
    BY <1>2, <2>1 DEF Of, Remembered, NoEntry
  <2>3. /\ cache'[e] = NoEntry
        /\ \A j \in Ids \ {i, e} : cache'[j] = entries[j]
    BY <1>3, <1>4, <2>1, <2>2
  <2>4. Remembered(cache') = (Remembered(entries) \ {e}) \cup {i}
    BY <1>1, <1>4, <1>13, <2>2, <2>3 DEF Remembered, Of, NoEntry
  <2>5. /\ IsFiniteSet((Remembered(entries) \ {e}) \cup {i})
        /\ Cardinality((Remembered(entries) \ {e}) \cup {i}) = Capacity
    <3>1. /\ IsFiniteSet(Remembered(entries) \ {e})
          /\ Cardinality(Remembered(entries) \ {e}) = Capacity - 1
      BY <1>7, <1>17, <2>2, FS_RemoveElement
    <3>2. i \notin Remembered(entries) \ {e}
      BY <1>8
    <3>3. /\ IsFiniteSet((Remembered(entries) \ {e}) \cup {i})
          /\ Cardinality((Remembered(entries) \ {e}) \cup {i})
               = Cardinality(Remembered(entries) \ {e}) + 1
      BY <3>1, <3>2, FS_AddElement
    <3> QED
      BY <3>1, <3>3, CacheConstants
  <2>6. RoomInv'
    BY <1>15, <2>4, <2>5, CacheConstants DEF RoomInv
  <2>7. Remembered(cache') \subseteq Later(e)'
    <3> SUFFICES ASSUME NEW j \in Remembered(cache')
                 PROVE  j \in Later(e)'
      OBVIOUS
    <3>1. j \in Ids \ {e}
      BY <2>2, <2>3 DEF Remembered, Of, NoEntry
    <3>2. CASE j = i
      BY <1>4, <1>13, <3>1, <3>2 DEF Later
    <3>3. CASE j # i /\ entries[j].kind = "active"
      BY <2>3, <3>1, <3>3 DEF Later
    <3>4. CASE j # i /\ entries[j].kind = "completed"
      <4>1. j \in Of("completed", entries) /\ entries[e].last <= entries[j].last
        BY <2>1, <3>1, <3>4 DEF Of
      <4>2. entries[e] = cache[e] /\ entries[j] = cache[j]
        BY <1>5, <2>2, <3>1, <3>4
      <4>3. cache[e].last = used[e] /\ cache[j].last = used[j]
        BY <2>2, <3>1, <3>4, <4>2 DEF UseInv, Of
      <4>4. used'[e] = used[e] /\ used'[j] = used[j]
        BY <1>10, <2>2, <3>1, <3>4
      <4>5. used[e] \in Nat \cup {Never} /\ used[j] \in Nat \cup {Never}
        BY <1>4, <2>2, <3>1
      <4> QED
        BY <3>1, <4>1, <4>2, <4>3, <4>4, <4>5 DEF Later, Never
    <3>5. j = i \/ entries[j].kind \in {"active", "completed"}
      BY <2>4 DEF Remembered, Of
    <3> QED
      BY <3>2, <3>3, <3>4, <3>5
  <2>8. Cardinality(Later(e)') >= Capacity
    <3>1. Later(e)' \subseteq InUse' \cup Of("active", cache')
      <4> SUFFICES ASSUME NEW j \in Later(e)', j \notin Of("active", cache')
                   PROVE  j \in InUse'
        OBVIOUS
      <4>1. j \in Ids /\ used'[j] >= used'[e]
        BY DEF Later, Of
      <4>2. used'[e] \in Nat
        <5>1. e \in InUse
          BY <1>6, <2>2 DEF UseInv
        <5> QED
          BY <1>4, <1>10, <2>2, <5>1 DEF InUse
      <4> QED
        BY <1>10, <4>1, <4>2 DEF InUse, Never
    <3>2. IsFiniteSet(Of("active", cache'))
      BY <1>7, <1>14, FS_AddElement
    <3>3. IsFiniteSet(Later(e)')
      BY <1>11, <3>1, <3>2, FS_Union, FS_Subset
    <3>4. /\ Cardinality(Remembered(cache')) <= Cardinality(Later(e)')
          /\ Cardinality(Later(e)') \in Nat
      BY <2>7, <3>3, FS_Subset, FS_CardinalityType
    <3> QED
      BY <2>4, <2>5, <3>4, CacheConstants
  <2>9. \A j \in Ids : cache'[j] = NoEntry =>
          /\ used'[j] = used[j]
          /\ \/ cache[j] = NoEntry
             \/ now - used[j] >= Ttl
             \/ Cardinality(Later(j)') >= Capacity
    <3> SUFFICES ASSUME NEW j \in Ids, cache'[j] = NoEntry
                 PROVE  /\ used'[j] = used[j]
                        /\ \/ cache[j] = NoEntry
                           \/ now - used[j] >= Ttl
                           \/ Cardinality(Later(j)') >= Capacity
      OBVIOUS
    <3>1. j # i /\ used'[j] = used[j]
      BY <1>4, <1>10, <1>13 DEF NoEntry
    <3>2. CASE j = e
      BY <2>8, <3>1, <3>2
    <3>3. CASE j # e
      BY <1>5, <2>3, <3>1, <3>3
    <3> QED
      BY <3>2, <3>3
  <2>10. /\ \A j \in Of("active", cache) : cache'[j].kind = "active" \/ used'[j] = now
         /\ \A j \in Of("completed", cache') : cache'[j].last = used'[j]
         /\ \A j \in Of("active", cache') : used'[j] # Never
    BY <1>4, <1>5, <1>10, <1>12, <1>13, <1>14, <1>6
       DEF Of, UseInv, Remembered, InUse, NoEntry, Never
  <2>11. UseInv' /\ RememberedLongEnough'
    BY <1>2, <1>4, <1>10, <1>11, <2>9, <2>10, KeptStep
  <2> QED
    BY <2>6, <2>11
<1> QED
  BY <1>9, <1>16, <1>17

(* An end is a use; it leaves what is remembered as it was. *)
LEMMA EndKeeps ==
  ASSUME CacheInv, Types', UseInv, RoomInv, RememberedLongEnough, NEW run \in running, Ends(run)
  PROVE  UseInv' /\ RoomInv' /\ RememberedLongEnough'
<1> DEFINE i == run.id
           entry == [kind |-> "completed", hash |-> run.hash, gen |-> run.gen,
                     reply |-> Stable(cache[i], run, Reply("outcome", run.gen)), last |-> now]
<1>1. /\ i \in Ids /\ cache[i].kind = "active" /\ cache[i].gen = run.gen
      /\ cache \in [Ids -> Entries \cup {NoEntry}]
  BY DEF CacheInv, Types, RunningIsActive
<1>2. cache' = [cache EXCEPT ![i] = entry] /\ used' = [used EXCEPT ![i] = now] /\ now' = now
  BY <1>1 DEF Ends, Completed
<1>3. /\ cache'[i].kind = "completed" /\ cache'[i].last = now
      /\ \A j \in Ids \ {i} : cache'[j] = cache[j]
  BY <1>1, <1>2
<1> HIDE DEF entry
<1>4. /\ now \in Nat /\ used \in [Ids -> Nat \cup {Never}] /\ Types
  BY DEF CacheInv, Types, UseInv
<1>5. /\ used' \in [Ids -> Nat \cup {Never}] /\ used'[i] = now
      /\ \A j \in Ids : used'[j] \in {used[j], now}
      /\ \A j \in Ids \ {i} : used'[j] = used[j]
  BY <1>1, <1>2, <1>4
<1>6. IsFiniteSet(InUse')
  <2>1. InUse' \subseteq InUse \cup {i}
    BY <1>5 DEF InUse
  <2> QED
    BY <2>1, FS_AddElement, FS_Subset DEF UseInv
<1>7. \A j \in Ids : cache'[j] = NoEntry => used'[j] = used[j] /\ cache[j] = NoEntry
  BY <1>3, <1>5 DEF NoEntry
<1>8. /\ \A j \in Of("active", cache) : cache'[j].kind = "active" \/ used'[j] = now
      /\ \A j \in Of("completed", cache') : cache'[j].last = used'[j]
      /\ \A j \in Of("active", cache') : used'[j] # Never
  BY <1>3, <1>4, <1>5 DEF Of, UseInv, Remembered, InUse, Never
<1>9. UseInv' /\ RememberedLongEnough'
  <2>1. now' >= now
    BY <1>2, <1>4
  <2> QED
    BY <1>4, <1>5, <1>6, <1>7, <1>8, <2>1, KeptStep
<1>10. RoomInv'
  BY <1>1, <1>3, RoomStays DEF Remembered, Of
<1> QED
  BY <1>9, <1>10

FullInv == CacheInv /\ UseInv /\ RoomInv /\ RememberedLongEnough

LEMMA FullInit == Init => FullInv
<1> SUFFICES ASSUME Init PROVE FullInv
  OBVIOUS
<1>1. Remembered(cache) = {} /\ Of("active", cache) = {} /\ InUse = {}
  BY DEF Init, Remembered, Of, InUse, NoEntry
<1>2. RoomInv
  BY <1>1, FS_EmptySet, CacheConstants DEF RoomInv
<1>3. UseInv
  BY <1>1, FS_EmptySet DEF UseInv, Init, Remembered
<1>4. RememberedLongEnough
  BY DEF Init, RememberedLongEnough
<1> QED
  BY <1>2, <1>3, <1>4, InitInv DEF FullInv

LEMMA FullStep == FullInv /\ [Next]_vars => FullInv'
<1> SUFFICES ASSUME FullInv, [Next]_vars PROVE FullInv'
  OBVIOUS
<1> USE DEF FullInv
<1>0. CacheInv' /\ Types /\ Types'
  BY NextInv DEF CacheInv
<1>1. ASSUME NEW a \in Attempts, Conflicts(a) \/ Refuses(a) \/ Joins(a)
      PROVE  UseInv' /\ RoomInv' /\ RememberedLongEnough'
  <2>1. a[1] \in Ids /\ cache' = Purged(cache) /\ UNCHANGED <<used, now>>
    BY <1>1 DEF Attempts, Conflicts, Refuses, Joins
  <2> QED
    BY <1>0, <2>1, PurgeStep
<1>2. ASSUME NEW a \in Attempts, Replays(a)
      PROVE  UseInv' /\ RoomInv' /\ RememberedLongEnough'
  <2> DEFINE i == a[1]
             entries == Purged(cache)
  <2>1. i \in Ids /\ used' = [used EXCEPT ![i] = now] /\ now' = now
    BY <1>2 DEF Attempts, Replays
  <2>2. CASE entries[i].kind = "active" /\ cache' = entries
    <3>1. cache'[i].kind = "active"
      BY <2>2
    <3> QED
      BY <1>0, <2>1, <2>2, <3>1, PurgeStep
  <2>3. CASE entries[i].kind = "completed" /\ cache' = [entries EXCEPT ![i].last = now]
    <3>1. entries[i] = cache[i] /\ i \in DOMAIN entries
      BY <1>0, <2>1, <2>3, PurgeForgets DEF Purged
    <3>2. cache[i] \in [kind : {"completed"}, hash : {1, 2}, gen : Nat, reply : Replies,
                        last : Nat]
      BY <1>0, <2>1, <2>3, <3>1 DEF Types, Entries, NoEntry
    <3>3. /\ cache'[i].kind = "completed" /\ cache'[i].last = now
          /\ \A j \in Ids \ {i} : cache'[j] = entries[j]
      BY <2>1, <2>3, <3>1, <3>2
    <3> QED
      BY <1>0, <2>1, <2>3, <3>3, PurgeStep
  <2> QED
    BY <1>2, <2>2, <2>3 DEF Replays
<1>3. ASSUME NEW a \in Attempts, Accepts(a)
      PROVE  UseInv' /\ RoomInv' /\ RememberedLongEnough'
  BY <1>0, <1>3, AcceptKeeps
<1>4. ASSUME NEW run \in running, Ends(run)
      PROVE  UseInv' /\ RoomInv' /\ RememberedLongEnough'
  BY <1>0, <1>4, EndKeeps
<1>5. ASSUME Tick \/ (\E a \in Attempts : TimesOut(a)) \/ UNCHANGED vars
      PROVE  UseInv' /\ RoomInv' /\ RememberedLongEnough'
  <2>1. UNCHANGED <<cache, used>> /\ now' \in {now, now + 1} /\ now \in Nat
    BY <1>0, <1>5 DEF Tick, TimesOut, vars, Types
  <2>2. /\ \A j \in Of("completed", cache') : cache'[j].last = used'[j]
        /\ \A j \in Of("active", cache') : used'[j] # Never
        /\ used' \in [Ids -> Nat \cup {Never}] /\ IsFiniteSet(InUse')
    BY <2>1 DEF UseInv, Remembered, InUse
  <2>3. UseInv' /\ RememberedLongEnough'
    BY <1>0, <2>1, <2>2, KeptStep DEF Of
  <2>4. RoomInv'
    BY <2>1 DEF RoomInv, Remembered, Of
  <2> QED
    BY <2>3, <2>4
<1>6. UseInv' /\ RoomInv' /\ RememberedLongEnough'
  BY <1>1, <1>2, <1>3, <1>4, <1>5 DEF Next
<1> QED
  BY <1>0, <1>6

LEMMA SpecFull == Spec => []FullInv
<1> QED
  BY FullInit, FullStep, PTL DEF Spec

(* The cache and its parts keep their types, and it never holds more       *)
(* entries, nor more active ones, than its two capacities: what the code   *)
(* asserts in debug builds only.                                           *)
THEOREM SpecCacheTypeOK == Spec => []CacheTypeOK
<1>1. FullInv => CacheTypeOK
  BY DEF FullInv, CacheInv, Types, RoomInv, CacheTypeOK
<1> QED
  BY <1>1, SpecFull, PTL

(* purge_expired_at and make_room_for_new: an id is forgotten only when    *)
(* its time to live has passed or as many others as the cache holds have   *)
(* been of use since, for any number of ids.                               *)
THEOREM SpecRememberedLongEnough == Spec => []RememberedLongEnough
<1>1. FullInv => RememberedLongEnough
  BY DEF FullInv
<1> QED
  BY <1>1, SpecFull, PTL
=============================================================================
