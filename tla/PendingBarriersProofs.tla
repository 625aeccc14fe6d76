------------------------ MODULE PendingBarriersProofs ------------------------
(***************************************************************************)
(* For any number of ids, any capacity and any time to live, the bounded   *)
(* table never launders a condemned id.                                    *)
(*                                                                         *)
(* The types come first; the argument then is LaunderingInv.  An operation *)
(* purges, which keeps it (PurgeKeeps), and then either leaves the table,  *)
(* adds an id that saturation does not keep out (PutNewcomer), removes one *)
(* that is no tombstone (RemoveEntry), or condemns an id (PoisonKeeps).    *)
(***************************************************************************)
EXTENDS PendingBarriers, FiniteSetTheorems, TLAPS

(* The types the argument needs; the capacity plays no part in it.         *)
Typed ==
    /\ DOMAIN states \subseteq Ids
    /\ states \in [DOMAIN states -> Entries]
    /\ saturatedUntil \in Nat
    /\ now \in Clock
    /\ draining \in Tokens \cup {NoDrain}
    /\ outcome \in [id : Ids \cup {None}, what : Outcomes]
    /\ outcome.what = "accepted" => outcome.id \in Ids
    /\ condemned \in [Ids -> {Never} \cup Clock]

(* A table a step may start from: like LaunderingInv, for any table t.     *)
Table(t) == DOMAIN t \subseteq Ids /\ t \in [DOMAIN t -> Entries]

RememberedIn(t, i) ==
    IF i \in DOMAIN t
    THEN t[i].variant = None /\ condemned[i] <= t[i].at
    ELSE condemned[i] + TTL <= saturatedUntil

AllRemembered(t) == \A i \in Ids : now - condemned[i] < TTL => RememberedIn(t, i)

(* The part of the types and of LaunderingInv that speaks of the table.    *)
TableInv ==
    /\ DOMAIN states \subseteq Ids
    /\ states \in [DOMAIN states -> Entries]
    /\ saturatedUntil \in Nat
    /\ condemned \in [Ids -> {Never} \cup Clock]
    /\ saturatedUntil <= now + TTL
    /\ \A i \in Ids : condemned[i] <= now
    /\ \A i \in Ids : now - condemned[i] < TTL => Remembered(i)

Inv == Typed /\ LaunderingInv /\ NotLaundered

-----------------------------------------------------------------------------
(* Purging drops only what is too old to matter.                           *)
LEMMA PurgeKeeps ==
    ASSUME Typed, LaunderingInv
    PROVE  Table(Purged) /\ AllRemembered(Purged)
<1> DEFINE D == {j \in DOMAIN states : now - states[j].at < TTL}
<1>1. Table(Purged)
  <2>1. DOMAIN Purged = D
    BY DEF Purged
  <2>2. D \subseteq Ids
    BY DEF Typed
  <2>3. \A i \in D : Purged[i] \in Entries
    BY DEF Typed, Purged
  <2> QED BY <2>1, <2>2, <2>3 DEF Table, Purged
<1>2. ASSUME NEW i \in Ids, now - condemned[i] < TTL
      PROVE  RememberedIn(Purged, i)
  <2>1. Remembered(i)
    BY <1>2 DEF LaunderingInv
  <2>2. CASE i \in DOMAIN states
    <3>1. states[i].at \in Int /\ now \in Int /\ condemned[i] \in Int /\ TTL \in Int
      BY <2>2, PendingAssumption DEF Typed, Entries, Clock, Never
    <3>2. now - states[i].at < TTL
      BY <1>2, <2>1, <2>2, <3>1 DEF Remembered
    <3>3. i \in DOMAIN Purged /\ Purged[i] = states[i]
      BY <2>2, <3>2 DEF Purged
    <3> QED BY <2>1, <2>2, <3>3 DEF Remembered, RememberedIn
  <2>3. CASE i \notin DOMAIN states
    BY <2>1, <2>3 DEF Remembered, RememberedIn, Purged
  <2> QED BY <2>2, <2>3
<1> QED BY <1>1, <1>2 DEF AllRemembered

(* What a step does to the table, said once for every table t.             *)
Kept(t) ==
    /\ states' = t
    /\ UNCHANGED <<saturatedUntil, condemned, now>>

LEMMA KeepTable ==
    ASSUME Typed, LaunderingInv, NEW t, Table(t), AllRemembered(t), Kept(t)
    PROVE  TableInv'
BY DEF Typed, LaunderingInv, Table, AllRemembered, RememberedIn, Kept, Remembered, TableInv

(* Condemning an id, whatever room the table has.                          *)
LEMMA PoisonKeeps ==
    ASSUME Typed, LaunderingInv, NEW t, Table(t), AllRemembered(t),
           NEW i \in Ids, Poison(t, i), now' = now
    PROVE  TableInv'
<1>1. /\ now \in Nat /\ now \in Clock /\ TTL \in Nat \ {0} /\ saturatedUntil \in Nat
      /\ \A j \in Ids : condemned[j] \in Int
  BY PendingAssumption DEF Typed, Clock, Never
<1>2. condemned' = [condemned EXCEPT ![i] = now]
  BY DEF Poison
<1>3. condemned' \in [Ids -> {Never} \cup Clock]
  BY <1>1, <1>2 DEF Typed
<1>4. \A j \in Ids : condemned'[j] = IF j = i THEN now ELSE condemned[j]
  BY <1>2 DEF Typed
<1>5. \A j \in Ids : condemned'[j] <= now'
  BY <1>1, <1>4 DEF LaunderingInv
<1>6. CASE states' = Put(t, i, None) /\ saturatedUntil' = saturatedUntil
  <2>1. DOMAIN states' = DOMAIN t \cup {i}
    BY <1>6 DEF Put
  <2>2. \A j \in DOMAIN states' :
          states'[j] = IF j = i THEN [variant |-> None, at |-> now] ELSE t[j]
    BY <1>6, <2>1 DEF Put
  <2>3. states' \in [DOMAIN states' -> Entries]
    <3>1. \A j \in DOMAIN states' : states'[j] \in Entries
      BY <1>1, <2>1, <2>2 DEF Table, Entries
    <3>2. states' = [j \in DOMAIN states' |-> states'[j]]
      BY <1>6, <2>1 DEF Put
    <3> QED BY <3>1, <3>2
  <2>4. DOMAIN states' \subseteq Ids
    BY <2>1 DEF Table
  <2>5. ASSUME NEW j \in Ids, now' - condemned'[j] < TTL
        PROVE  Remembered(j)'
    <3>1. CASE j = i
      <4>1. states'[i] = [variant |-> None, at |-> now] /\ i \in DOMAIN states'
        BY <2>1, <2>2
      <4> QED BY <1>1, <1>4, <3>1, <4>1 DEF Remembered
    <3>2. CASE j # i
      <4>1. RememberedIn(t, j) /\ condemned'[j] = condemned[j]
        BY <1>4, <2>5, <3>2 DEF AllRemembered
      <4>2. j \in DOMAIN states' <=> j \in DOMAIN t
        BY <2>1, <3>2
      <4>3. j \in DOMAIN t => states'[j] = t[j]
        BY <2>1, <2>2, <3>2
      <4> QED BY <1>6, <4>1, <4>2, <4>3 DEF RememberedIn, Remembered
    <3> QED BY <3>1, <3>2
  <2> QED BY <1>1, <1>3, <1>5, <1>6, <2>3, <2>4, <2>5 DEF LaunderingInv, TableInv
<1>7. CASE states' = t /\ saturatedUntil' = now + TTL /\ i \notin DOMAIN t
  <2>1. ASSUME NEW j \in Ids, now' - condemned'[j] < TTL
        PROVE  Remembered(j)'
    <3>1. CASE j = i
      BY <1>1, <1>4, <1>7, <3>1 DEF Remembered
    <3>2. CASE j # i
      <4>1. RememberedIn(t, j) /\ condemned'[j] = condemned[j] /\ condemned[j] <= now
        BY <1>4, <2>1, <3>2 DEF AllRemembered, LaunderingInv
      <4> QED BY <1>1, <1>7, <4>1 DEF RememberedIn, Remembered
    <3> QED BY <3>1, <3>2
  <2> QED BY <1>1, <1>3, <1>5, <1>7, <2>1 DEF Table, TableInv
<1> QED BY <1>6, <1>7 DEF Poison

(* Admitting a newcomer: nobody condemned recently is outside the table    *)
(* unless the table is saturated.                                          *)
LEMMA PutNewcomer ==
    ASSUME Typed, LaunderingInv, NEW t, Table(t), AllRemembered(t),
           NEW i \in Ids, i \notin DOMAIN t, ~Saturated, NEW variant \in Variants
    PROVE  Table(Put(t, i, variant)) /\ AllRemembered(Put(t, i, variant))
<1> DEFINE u == Put(t, i, variant)
<1>1. /\ now \in Nat /\ now \in Clock /\ TTL \in Nat /\ saturatedUntil \in Nat
      /\ \A j \in Ids : condemned[j] \in Int
  BY PendingAssumption DEF Typed, Clock, Never
<1>2. DOMAIN u = DOMAIN t \cup {i}
  BY DEF Put
<1>3. \A j \in DOMAIN u : u[j] = IF j = i THEN [variant |-> variant, at |-> now] ELSE t[j]
  BY <1>2 DEF Put
<1>4. \A j \in DOMAIN u : u[j] \in Entries
  BY <1>1, <1>2, <1>3 DEF Table, Entries
<1>5. Table(u)
  <2>1. u = [j \in DOMAIN u |-> u[j]]
    BY <1>2 DEF Put
  <2> QED BY <1>2, <1>4, <2>1 DEF Table
<1>6. ~(now - condemned[i] < TTL)
  BY <1>1 DEF AllRemembered, RememberedIn, Saturated
<1>7. ASSUME NEW j \in Ids, now - condemned[j] < TTL
      PROVE  RememberedIn(u, j)
  <2>1. j # i /\ RememberedIn(t, j)
    BY <1>6, <1>7 DEF AllRemembered
  <2>2. (j \in DOMAIN u <=> j \in DOMAIN t) /\ (j \in DOMAIN t => u[j] = t[j])
    BY <1>2, <1>3, <2>1
  <2> HIDE DEF u
  <2> QED BY <2>1, <2>2 DEF RememberedIn
<1> QED BY <1>5, <1>7 DEF AllRemembered

(* Taking an entry that is no tombstone: its id was not condemned lately.  *)
LEMMA RemoveEntry ==
    ASSUME NEW t, Table(t), AllRemembered(t), NEW i \in DOMAIN t, t[i].variant # None
    PROVE  /\ Table(Without(t, i)) /\ AllRemembered(Without(t, i))
           /\ ~(now - condemned[i] < TTL)
<1> DEFINE u == Without(t, i)
<1>1. i \in Ids /\ ~(now - condemned[i] < TTL)
  BY DEF Table, AllRemembered, RememberedIn
<1>2. DOMAIN u = DOMAIN t \ {i} /\ \A j \in DOMAIN u : u[j] = t[j]
  BY DEF Without
<1>3. Table(u)
  <2>1. u = [j \in DOMAIN u |-> u[j]]
    BY <1>2 DEF Without
  <2>2. \A j \in DOMAIN u : u[j] \in Entries
    BY <1>2 DEF Table
  <2> QED BY <1>2, <2>1, <2>2 DEF Table
<1>4. ASSUME NEW j \in Ids, now - condemned[j] < TTL
      PROVE  RememberedIn(u, j)
  <2>1. j # i /\ RememberedIn(t, j)
    BY <1>1, <1>4 DEF AllRemembered
  <2> HIDE DEF u
  <2> QED BY <1>2, <2>1 DEF RememberedIn
<1> QED BY <1>1, <1>3, <1>4 DEF AllRemembered

-----------------------------------------------------------------------------
(* What an operation does to the table leaves the table's invariant.       *)
LEMMA LeaveKeeps ==
    ASSUME Typed, LaunderingInv, Leave(Purged), now' = now
    PROVE  TableInv' /\ condemned' = condemned
<1>1. Kept(Purged) /\ condemned' = condemned
  BY DEF Leave, history, Kept
<1> QED BY <1>1, PurgeKeeps, KeepTable

LEMMA RegisterKeeps ==
    ASSUME Typed, LaunderingInv, NEW token \in Tokens, Register(token), now' = now
    PROVE  /\ TableInv'
           /\ \A j \in Ids \ {token.id} : condemned'[j] = condemned[j]
           /\ outcome'.what # "accepted"
           /\ outcome' \in [id : Ids \cup {None}, what : Outcomes]
<1> DEFINE i == token.id
<1>1. i \in Ids /\ token.variant \in Variants
  BY DEF Tokens
<1>2. Table(Purged) /\ AllRemembered(Purged)
  BY PurgeKeeps
<1>3. ASSUME Leave(Purged), NEW what \in Outcomes \ {"accepted"}, Says(i, what)
      PROVE  /\ TableInv'
             /\ \A j \in Ids \ {i} : condemned'[j] = condemned[j]
             /\ outcome'.what # "accepted"
             /\ outcome' \in [id : Ids \cup {None}, what : Outcomes]
  BY <1>1, <1>3, LeaveKeeps DEF Says
<1>4. ASSUME Poison(Purged, i), Says(i, "conflict")
      PROVE  /\ TableInv'
             /\ \A j \in Ids \ {i} : condemned'[j] = condemned[j]
             /\ outcome'.what # "accepted"
             /\ outcome' \in [id : Ids \cup {None}, what : Outcomes]
  <2>1. TableInv'
    BY <1>1, <1>2, <1>4, PoisonKeeps
  <2>2. \A j \in Ids \ {i} : condemned'[j] = condemned[j]
    BY <1>4 DEF Poison, Typed
  <2> QED BY <1>1, <1>4, <2>1, <2>2 DEF Says, Outcomes
<1>5. ASSUME i \notin DOMAIN Purged, ~Saturated, states' = Put(Purged, i, token.variant),
             UNCHANGED <<saturatedUntil, condemned>>, Says(i, "registered")
      PROVE  /\ TableInv'
             /\ \A j \in Ids \ {i} : condemned'[j] = condemned[j]
             /\ outcome'.what # "accepted"
             /\ outcome' \in [id : Ids \cup {None}, what : Outcomes]
  <2>1. /\ Table(Put(Purged, i, token.variant))
        /\ AllRemembered(Put(Purged, i, token.variant))
    BY <1>1, <1>2, <1>5, PutNewcomer
  <2>2. Kept(Put(Purged, i, token.variant))
    BY <1>5 DEF Kept
  <2>3. TableInv'
    BY <2>1, <2>2, KeepTable
  <2> QED BY <1>1, <1>5, <2>3 DEF Says, Outcomes
<1>6. CASE i \in DOMAIN Purged
  <2>1. CASE Purged[i].variant = None
    BY <1>3, <1>6, <2>1 DEF Register, Outcomes
  <2>2. CASE Purged[i].variant = token.variant /\ Purged[i].variant # None
    BY <1>3, <1>6, <2>2 DEF Register, Outcomes
  <2>3. CASE Purged[i].variant # token.variant /\ Purged[i].variant # None
    BY <1>4, <1>6, <2>3 DEF Register
  <2> QED BY <2>1, <2>2, <2>3
<1>7. CASE i \notin DOMAIN Purged
  <2>1. CASE Saturated
    BY <1>3, <1>7, <2>1 DEF Register, Outcomes
  <2>2. CASE ~Saturated /\ Cardinality(DOMAIN Purged) >= Capacity
    BY <1>3, <1>7, <2>2 DEF Register, Outcomes
  <2>3. CASE ~Saturated /\ ~(Cardinality(DOMAIN Purged) >= Capacity)
    BY <1>5, <1>7, <2>3 DEF Register
  <2> QED BY <2>1, <2>2, <2>3
<1> QED BY <1>6, <1>7

-----------------------------------------------------------------------------
(* One lemma per step.                                                     *)
LEMMA BarrierArrivesInv ==
    ASSUME Inv, NEW token \in Tokens, BarrierArrives(token)
    PROVE  Inv'
<1>1. /\ TableInv'
      /\ \A j \in Ids \ {token.id} : condemned'[j] = condemned[j]
      /\ outcome'.what # "accepted"
      /\ outcome' \in [id : Ids \cup {None}, what : Outcomes]
  BY RegisterKeeps DEF Inv, BarrierArrives
<1>2. now' = now /\ draining' = draining /\ draining.id # token.id
  BY DEF BarrierArrives
<1>3. draining' # NoDrain => now' - condemned'[draining'.id] >= TTL
  <2>1. ASSUME draining # NoDrain
        PROVE  draining.id \in Ids /\ condemned'[draining.id] = condemned[draining.id]
    BY <1>1, <1>2, <2>1 DEF Inv, Typed, Tokens
  <2> QED BY <1>2, <2>1 DEF Inv, LaunderingInv
<1> QED BY <1>1, <1>2, <1>3 DEF Inv, Typed, TableInv, LaunderingInv, NotLaundered

LEMMA ControlArrivesInv ==
    ASSUME Inv, NEW token \in Tokens, ControlArrives(token)
    PROVE  Inv'
<1> DEFINE i == token.id
<1>1. i \in Ids /\ token.variant \in Variants /\ now' = now /\ draining = NoDrain
  BY DEF Tokens, ControlArrives
<1>2. Table(Purged) /\ AllRemembered(Purged) /\ Typed /\ LaunderingInv
  BY PurgeKeeps DEF Inv
<1>3. /\ now \in Int /\ TTL \in Int /\ saturatedUntil \in Int
      /\ \A j \in Ids : condemned[j] \in Int
  BY <1>2, PendingAssumption DEF Typed, Clock, Never
<1>4. ASSUME Leave(Purged), Says(i, "refused"), UNCHANGED draining
      PROVE  Inv'
  BY <1>1, <1>2, <1>4, LeaveKeeps
     DEF Says, Inv, Typed, TableInv, LaunderingInv, NotLaundered, Outcomes
<1>5. ASSUME NEW t, Table(t), AllRemembered(t), NEW what \in {"refused", "stale"},
             Poison(t, i), Says(i, what), UNCHANGED draining
      PROVE  Inv'
  <2>1. TableInv'
    BY <1>1, <1>2, <1>5, PoisonKeeps
  <2> QED BY <1>1, <1>2, <1>5, <2>1
          DEF Says, Inv, Typed, TableInv, LaunderingInv, NotLaundered, Outcomes
<1>6. ASSUME i \in DOMAIN Purged, Purged[i].variant = token.variant,
             Verify(Without(Purged, i), i), UNCHANGED draining
      PROVE  Inv'
  <2>1. /\ Table(Without(Purged, i)) /\ AllRemembered(Without(Purged, i))
        /\ ~(now - condemned[i] < TTL)
    <3>1. Purged[i].variant # None
      BY <1>1, <1>6, PendingAssumption
    <3> HIDE DEF i
    <3> QED BY <1>2, <1>6, <3>1, RemoveEntry
  <2>2. CASE /\ states' = Without(Purged, i)
             /\ UNCHANGED <<saturatedUntil, condemned>>
             /\ Says(i, "accepted")
    <3>1. Kept(Without(Purged, i))
      BY <1>1, <2>2 DEF Kept
    <3>2. TableInv'
      BY <1>2, <2>1, <3>1, KeepTable
    <3>3. now' - condemned'[i] >= TTL
      BY <1>1, <1>3, <2>1, <2>2
    <3> QED BY <1>1, <1>2, <1>6, <2>2, <3>2, <3>3
            DEF Says, Inv, Typed, TableInv, LaunderingInv, NotLaundered, Outcomes
  <2>3. CASE Poison(Without(Purged, i), i) /\ Says(i, "stale")
    BY <1>5, <1>6, <2>1, <2>3
  <2> QED BY <1>6, <2>2, <2>3 DEF Verify
<1>7. ASSUME i \notin DOMAIN Purged, ~Saturated, draining' = token, Leave(Purged),
             Says(i, "waiting")
      PROVE  Inv'
  <2>1. TableInv' /\ condemned' = condemned
    BY <1>1, <1>2, <1>7, LeaveKeeps
  <2>2. now' - condemned'[i] >= TTL
    BY <1>1, <1>2, <1>3, <1>7, <2>1 DEF AllRemembered, RememberedIn, Saturated
  <2> QED BY <1>1, <1>2, <1>7, <2>1, <2>2
          DEF Says, Inv, Typed, TableInv, LaunderingInv, NotLaundered, Outcomes
<1>8. CASE ~Admits(i)
  BY <1>4, <1>8 DEF ControlArrives
<1>9. CASE Admits(i)
  <2>1. CASE i \in DOMAIN Purged
    <3>1. CASE Purged[i].variant = token.variant /\ Verify(Without(Purged, i), i)
               /\ UNCHANGED draining
      BY <1>6, <2>1, <3>1
    <3>2. CASE Poison(Purged, i) /\ Says(i, "refused") /\ UNCHANGED draining
      BY <1>2, <1>5, <3>2
    <3>3. CASE Leave(Purged) /\ Says(i, "refused") /\ UNCHANGED draining
      BY <1>4, <3>3
    <3> QED BY <1>9, <2>1, <3>1, <3>2, <3>3 DEF ControlArrives
  <2>2. CASE i \notin DOMAIN Purged
    <3>1. ~Saturated
      BY <1>9, <2>2 DEF Admits
    <3>2. draining' = token /\ Leave(Purged) /\ Says(i, "waiting")
      BY <1>9, <2>2 DEF ControlArrives
    <3> QED BY <1>7, <2>2, <3>1, <3>2
  <2> QED BY <2>1, <2>2
<1> QED BY <1>8, <1>9

LEMMA DrainedBarrierInv ==
    ASSUME Inv, NEW variant \in Variants, DrainedBarrierArrives(variant)
    PROVE  Inv'
<1> DEFINE i == draining.id
<1>1. i \in Ids /\ now' = now /\ draining # NoDrain /\ draining' = NoDrain
  BY DEF Inv, Typed, Tokens, DrainedBarrierArrives
<1>2. Table(Purged) /\ AllRemembered(Purged) /\ Typed /\ LaunderingInv
  BY PurgeKeeps DEF Inv
<1>3. ASSUME NEW what \in {"refused", "stale"}, Poison(Purged, i), Says(i, what)
      PROVE  Inv'
  <2>1. TableInv'
    BY <1>1, <1>2, <1>3, PoisonKeeps
  <2> QED BY <1>1, <1>2, <1>3, <2>1
          DEF Says, Inv, Typed, TableInv, LaunderingInv, NotLaundered, Outcomes
<1>4. ASSUME UNCHANGED table, UNCHANGED condemned, Says(i, "accepted")
      PROVE  Inv'
  <2>1. now' - condemned'[i] >= TTL
    BY <1>1, <1>2, <1>4 DEF LaunderingInv
  <2> QED BY <1>1, <1>2, <1>4, <2>1
          DEF Says, Inv, Typed, LaunderingInv, Remembered, NotLaundered, Outcomes, table
<1> QED BY <1>3, <1>4 DEF DrainedBarrierArrives

LEMMA TickInv ==
    ASSUME Inv, Tick
    PROVE  Inv'
<1>1. /\ now' = now + 1 /\ now \in Nat /\ now' \in Clock /\ TTL \in Int
      /\ saturatedUntil \in Nat /\ \A i \in Ids : condemned[i] \in Int
  BY PendingAssumption DEF Inv, Typed, Tick, Clock, Never
<1>2. UNCHANGED <<states, saturatedUntil, condemned, draining>>
      /\ outcome' = [id |-> None, what |-> "none"]
  BY DEF Tick, table, history
<1>3. Typed'
  BY <1>1, <1>2 DEF Inv, Typed, Outcomes
<1>4. draining' # NoDrain => now' - condemned'[draining'.id] >= TTL
  BY <1>1, <1>2 DEF Inv, Typed, Tokens, LaunderingInv
<1>5. \A i \in Ids : now' - condemned'[i] < TTL => Remembered(i)'
  BY <1>1, <1>2 DEF Inv, LaunderingInv, Remembered
<1>6. saturatedUntil' <= now' + TTL /\ \A i \in Ids : condemned'[i] <= now'
  BY <1>1, <1>2 DEF Inv, LaunderingInv
<1> QED BY <1>2, <1>3, <1>4, <1>5, <1>6 DEF Inv, LaunderingInv, NotLaundered

LEMMA InitInv ==
    ASSUME Init
    PROVE  Inv
<1>1. DOMAIN states = {}
  BY DEF Init
<1>2. Typed
  BY <1>1, PendingAssumption DEF Init, Typed, Clock, Never, Entries, Outcomes
<1>3. LaunderingInv /\ NotLaundered
  BY PendingAssumption DEF Init, LaunderingInv, NotLaundered, Never
<1> QED BY <1>2, <1>3 DEF Inv

LEMMA StepInv ==
    ASSUME Inv, [Next]_vars
    PROVE  Inv'
<1>1. ASSUME NEW token \in Tokens, BarrierArrives(token) PROVE Inv'
  BY <1>1, BarrierArrivesInv
<1>2. ASSUME NEW token \in Tokens, ControlArrives(token) PROVE Inv'
  BY <1>2, ControlArrivesInv
<1>3. ASSUME NEW variant \in Variants, DrainedBarrierArrives(variant) PROVE Inv'
  BY <1>3, DrainedBarrierInv
<1>4. CASE DrainTimesOut
  BY <1>4 DEF Inv, Typed, LaunderingInv, Remembered, NotLaundered, DrainTimesOut, Says,
              table, history, Tokens, Outcomes
<1>5. CASE Tick
  BY <1>5, TickInv
<1>6. CASE UNCHANGED vars
  BY <1>6 DEF Inv, Typed, LaunderingInv, Remembered, NotLaundered, vars, table, history
<1> QED BY <1>1, <1>2, <1>3, <1>4, <1>5, <1>6 DEF Next

(* The table never launders: no condemned id is accepted before its time   *)
(* to live has passed, whatever the capacity of the table.                 *)
THEOREM NoLaundering == Spec => []NotLaundered
<1>1. Init => Inv
  BY InitInv
<1>2. Inv /\ [Next]_vars => Inv'
  BY StepInv
<1>3. Inv => NotLaundered
  BY DEF Inv
<1> QED BY <1>1, <1>2, <1>3, PTL DEF Spec

-----------------------------------------------------------------------------
(* The bound of the table and the rest of the type invariant.              *)
Bounded(t) == IsFiniteSet(DOMAIN t) /\ Cardinality(DOMAIN t) <= Capacity

PromisedType == promised \in [Ids -> [variant : Variants \cup {None}, at : {Never} \cup Clock]]

LEMMA Smaller ==
    ASSUME NEW t, NEW u, Bounded(t), DOMAIN u \subseteq DOMAIN t
    PROVE  Bounded(u)
<1>1. IsFiniteSet(DOMAIN u) /\ Cardinality(DOMAIN u) <= Cardinality(DOMAIN t)
  BY FS_Subset DEF Bounded
<1>2. Cardinality(DOMAIN u) \in Nat /\ Cardinality(DOMAIN t) \in Nat /\ Capacity \in Nat
  BY <1>1, FS_CardinalityType, PendingAssumption DEF Bounded
<1> QED BY <1>1, <1>2 DEF Bounded

LEMMA Larger ==
    ASSUME NEW t, NEW i, NEW variant, Bounded(t),
           i \in DOMAIN t \/ Cardinality(DOMAIN t) < Capacity
    PROVE  Bounded(Put(t, i, variant))
<1>1. DOMAIN Put(t, i, variant) = DOMAIN t \cup {i}
  BY DEF Put
<1>2. CASE i \in DOMAIN t
  <2>1. DOMAIN t \cup {i} = DOMAIN t
    BY <1>2
  <2> QED BY <1>1, <2>1 DEF Bounded
<1>3. CASE i \notin DOMAIN t
  <2>1. /\ IsFiniteSet(DOMAIN t \cup {i})
        /\ Cardinality(DOMAIN t \cup {i}) = Cardinality(DOMAIN t) + 1
    BY <1>3, FS_AddElement DEF Bounded
  <2>2. Cardinality(DOMAIN t) \in Nat /\ Capacity \in Nat
    BY FS_CardinalityType, PendingAssumption DEF Bounded
  <2> QED BY <1>1, <1>3, <2>1, <2>2 DEF Bounded
<1> QED BY <1>2, <1>3

LEMMA PurgedBounded ==
    ASSUME Bounded(states)
    PROVE  Bounded(Purged)
<1>1. DOMAIN Purged \subseteq DOMAIN states
  BY DEF Purged
<1> QED BY <1>1, Smaller

LEMMA PoisonBounded ==
    ASSUME NEW t, Bounded(t), NEW i \in Ids, Poison(t, i), PromisedType
    PROVE  Bounded(states)' /\ PromisedType'
<1>1. Bounded(states')
  <2>1. CASE i \in DOMAIN t \/ Cardinality(DOMAIN t) < Capacity
    BY <2>1, Larger DEF Poison
  <2>2. CASE ~(i \in DOMAIN t \/ Cardinality(DOMAIN t) < Capacity)
    BY <2>2 DEF Poison
  <2> QED BY <2>1, <2>2
<1>2. PromisedType'
  BY DEF Poison, PromisedType, NoPromise
<1> QED BY <1>1, <1>2 DEF Bounded

LEMMA LeaveBounded ==
    ASSUME NEW t, Bounded(t), Leave(t), PromisedType
    PROVE  Bounded(states)' /\ PromisedType'
BY DEF Leave, history, Bounded, PromisedType

LEMMA RegisterBounded ==
    ASSUME Bounded(states), PromisedType, now \in Clock, NEW token \in Tokens, Register(token)
    PROVE  Bounded(states)' /\ PromisedType'
<1> DEFINE i == token.id
<1>1. i \in Ids /\ token.variant \in Variants /\ Bounded(Purged)
  BY PurgedBounded DEF Tokens
<1>2. CASE Leave(Purged)
  BY <1>1, <1>2, LeaveBounded
<1>3. CASE Poison(Purged, i)
  BY <1>1, <1>3, PoisonBounded
<1>4. CASE /\ i \notin DOMAIN Purged /\ ~(Cardinality(DOMAIN Purged) >= Capacity)
           /\ states' = Put(Purged, i, token.variant)
           /\ promised' = [promised EXCEPT ![i] = [variant |-> token.variant, at |-> now]]
  <2>1. Cardinality(DOMAIN Purged) < Capacity
    BY <1>1, <1>4, FS_CardinalityType, PendingAssumption DEF Bounded
  <2>2. Bounded(states')
    BY <1>1, <1>4, <2>1, Larger
  <2>3. PromisedType'
    BY <1>1, <1>4 DEF PromisedType
  <2> QED BY <2>2, <2>3 DEF Bounded
<1>5. CASE i \in DOMAIN Purged
  BY <1>2, <1>3, <1>5 DEF Register
<1>6. CASE i \notin DOMAIN Purged
  <2>1. CASE Saturated
    BY <1>2, <1>6, <2>1 DEF Register
  <2>2. CASE ~Saturated /\ Cardinality(DOMAIN Purged) >= Capacity
    BY <1>2, <1>6, <2>2 DEF Register
  <2>3. CASE ~Saturated /\ ~(Cardinality(DOMAIN Purged) >= Capacity)
    BY <1>4, <1>6, <2>3 DEF Register
  <2> QED BY <2>1, <2>2, <2>3
<1> QED BY <1>5, <1>6

LEMMA ControlBounded ==
    ASSUME Bounded(states), PromisedType, NEW token \in Tokens, ControlArrives(token)
    PROVE  Bounded(states)' /\ PromisedType'
<1> DEFINE i == token.id
<1>1. i \in Ids /\ Bounded(Purged)
  BY PurgedBounded DEF Tokens
<1>2. CASE Leave(Purged)
  BY <1>1, <1>2, LeaveBounded
<1>3. CASE Poison(Purged, i)
  BY <1>1, <1>3, PoisonBounded
<1>4. CASE Verify(Without(Purged, i), i)
  <2>1. Bounded(Without(Purged, i))
    <3>1. DOMAIN Without(Purged, i) \subseteq DOMAIN Purged
      BY DEF Without
    <3> QED BY <1>1, <3>1, Smaller
  <2>2. CASE Poison(Without(Purged, i), i)
    BY <1>1, <2>1, <2>2, PoisonBounded
  <2>3. CASE /\ states' = Without(Purged, i)
             /\ promised' = [promised EXCEPT ![i] = NoPromise]
    <3>1. PromisedType'
      BY <1>1, <2>3 DEF PromisedType, NoPromise
    <3> QED BY <2>1, <2>3, <3>1 DEF Bounded
  <2> QED BY <1>4, <2>2, <2>3 DEF Verify
<1> QED BY <1>2, <1>3, <1>4 DEF ControlArrives

(* Every reachable state is well typed; in particular the table never      *)
(* holds more than its capacity, tombstones included.                      *)
THEOREM TypeInvariant == Spec => []TypeOK
<1> DEFINE BInv == Inv /\ Bounded(states) /\ PromisedType
<1>1. Init => BInv
  <2> SUFFICES ASSUME Init PROVE Bounded(states) /\ PromisedType /\ Inv
    OBVIOUS
  <2>1. DOMAIN states = {}
    BY DEF Init
  <2>2. Bounded(states)
    BY <2>1, FS_EmptySet, PendingAssumption DEF Bounded
  <2>3. PromisedType
    BY DEF Init, PromisedType, NoPromise
  <2> QED BY <2>2, <2>3, InitInv
<1>2. BInv /\ [Next]_vars => BInv'
  <2> SUFFICES ASSUME BInv, [Next]_vars PROVE BInv'
    OBVIOUS
  <2>1. Inv'
    BY StepInv
  <2>2. Bounded(states)' /\ PromisedType'
    <3>1. ASSUME NEW token \in Tokens, BarrierArrives(token)
          PROVE  Bounded(states)' /\ PromisedType'
      BY <3>1, RegisterBounded DEF BarrierArrives, Inv, Typed
    <3>2. ASSUME NEW token \in Tokens, ControlArrives(token)
          PROVE  Bounded(states)' /\ PromisedType'
      BY <3>2, ControlBounded
    <3>3. ASSUME NEW variant \in Variants, DrainedBarrierArrives(variant)
          PROVE  Bounded(states)' /\ PromisedType'
      <4>1. draining.id \in Ids /\ Bounded(Purged)
        BY <3>3, PurgedBounded DEF DrainedBarrierArrives, Inv, Typed, Tokens
      <4>2. CASE Poison(Purged, draining.id)
        BY <4>1, <4>2, PoisonBounded
      <4>3. CASE UNCHANGED table /\ promised' = [promised EXCEPT ![draining.id] = NoPromise]
        BY <4>3 DEF table, Bounded, PromisedType, NoPromise
      <4> QED BY <3>3, <4>2, <4>3 DEF DrainedBarrierArrives
    <3>4. CASE DrainTimesOut \/ Tick \/ UNCHANGED vars
      BY <3>4 DEF DrainTimesOut, Tick, vars, table, history, Bounded, PromisedType
    <3> QED BY <3>1, <3>2, <3>3, <3>4 DEF Next
  <2> QED BY <2>1, <2>2
<1>3. BInv => TypeOK
  <2> SUFFICES ASSUME BInv PROVE TypeOK
    OBVIOUS
  <2>1. saturatedUntil \in 0 .. MaxTime + TTL
    BY PendingAssumption DEF Inv, Typed, LaunderingInv, Clock
  <2> QED BY <2>1 DEF Inv, Typed, Bounded, PromisedType, TypeOK
<1> HIDE DEF BInv
<1> QED BY <1>1, <1>2, <1>3, PTL DEF Spec

-----------------------------------------------------------------------------
(* A promise that is neither spoiled nor too old is in the table as it was *)
(* registered: same variant, same time.                                    *)
Lively(i) == promised[i].variant # None /\ now - promised[i].at < TTL

PromisedIn(t) == \A i \in Ids : Lively(i) => i \in DOMAIN t /\ t[i] = promised[i]

PromiseInv == PromisedType /\ now \in Clock /\ PromisedIn(states)

LEMMA PurgeKeepsPromises ==
    ASSUME PromiseInv
    PROVE  PromisedIn(Purged)
<1> SUFFICES ASSUME NEW i \in Ids, Lively(i)
             PROVE  i \in DOMAIN Purged /\ Purged[i] = promised[i]
  BY DEF PromisedIn
<1>1. i \in DOMAIN states /\ states[i] = promised[i]
  BY DEF PromiseInv, PromisedIn
<1>2. now - states[i].at < TTL
  BY <1>1 DEF Lively
<1> QED BY <1>1, <1>2 DEF Purged

LEMMA LeaveKeepsPromises ==
    ASSUME PromiseInv, NEW t, PromisedIn(t), Leave(t), now' = now
    PROVE  PromiseInv'
BY DEF PromiseInv, PromisedType, PromisedIn, Lively, Leave, history

(* One id loses its promise, the others keep their entries.                *)
LEMMA SpoilKeepsPromises ==
    ASSUME PromiseInv, NEW t, PromisedIn(t), NEW i \in Ids,
           promised' = [promised EXCEPT ![i] = NoPromise], now' = now,
           \A j \in DOMAIN t \ {i} : j \in DOMAIN states' /\ states'[j] = t[j]
    PROVE  PromiseInv'
<1>1. PromisedType' /\ now' \in Clock
  BY DEF PromiseInv, PromisedType, NoPromise
<1>2. ASSUME NEW j \in Ids, Lively(j)'
      PROVE  j \in DOMAIN states' /\ states'[j] = promised'[j]
  <2>1. j # i /\ promised'[j] = promised[j]
    BY <1>2 DEF PromiseInv, PromisedType, NoPromise, Lively
  <2>2. j \in DOMAIN t /\ t[j] = promised[j]
    BY <1>2, <2>1 DEF PromisedIn, Lively
  <2> QED BY <2>1, <2>2
<1> QED BY <1>1, <1>2 DEF PromiseInv, PromisedIn

LEMMA PoisonKeepsPromises ==
    ASSUME PromiseInv, NEW t, PromisedIn(t), NEW i \in Ids, Poison(t, i), now' = now
    PROVE  PromiseInv'
<1>1. states' = Put(t, i, None) \/ states' = t
  BY DEF Poison
<1>2. \A j \in DOMAIN t \ {i} : j \in DOMAIN states' /\ states'[j] = t[j]
  BY <1>1 DEF Put
<1>3. promised' = [promised EXCEPT ![i] = NoPromise]
  BY DEF Poison
<1> QED BY <1>2, <1>3, SpoilKeepsPromises

LEMMA RegisterKeepsPromises ==
    ASSUME PromiseInv, NEW token \in Tokens, Register(token), now' = now
    PROVE  PromiseInv'
<1> DEFINE i == token.id
           made == [variant |-> token.variant, at |-> now]
<1>1. i \in Ids /\ token.variant \in Variants /\ PromisedIn(Purged)
  BY PurgeKeepsPromises DEF Tokens
<1>2. CASE Leave(Purged)
  BY <1>1, <1>2, LeaveKeepsPromises
<1>3. CASE Poison(Purged, i)
  BY <1>1, <1>3, PoisonKeepsPromises
<1>4. CASE /\ states' = Put(Purged, i, token.variant)
           /\ promised' = [promised EXCEPT ![i] = made]
  <2>1. PromisedType' /\ now' \in Clock
    BY <1>1, <1>4 DEF PromiseInv, PromisedType
  <2>2. ASSUME NEW j \in Ids, Lively(j)'
        PROVE  j \in DOMAIN states' /\ states'[j] = promised'[j]
    <3>1. CASE j = i
      BY <1>1, <1>4, <3>1 DEF Put, PromiseInv, PromisedType
    <3>2. CASE j # i
      <4>1. promised'[j] = promised[j]
        BY <1>4, <3>2 DEF PromiseInv, PromisedType
      <4>2. j \in DOMAIN Purged /\ Purged[j] = promised[j]
        BY <1>1, <2>2, <4>1 DEF PromisedIn, Lively
      <4> QED BY <1>4, <3>2, <4>1, <4>2 DEF Put
    <3> QED BY <3>1, <3>2
  <2> QED BY <2>1, <2>2 DEF PromiseInv, PromisedIn
<1> QED BY <1>2, <1>3, <1>4 DEF Register

LEMMA VerifyKeepsPromises ==
    ASSUME PromiseInv, NEW t, PromisedIn(t), NEW i \in Ids, Verify(Without(t, i), i), now' = now
    PROVE  PromiseInv'
<1>1. \/ states' = Without(t, i)
      \/ states' = Put(Without(t, i), i, None)
  BY DEF Verify, Poison
<1>2. \A j \in DOMAIN t \ {i} : j \in DOMAIN states' /\ states'[j] = t[j]
  BY <1>1 DEF Without, Put
<1>3. promised' = [promised EXCEPT ![i] = NoPromise]
  BY DEF Verify, Poison
<1> QED BY <1>2, <1>3, SpoilKeepsPromises

LEMMA DrainedKeepsPromises ==
    ASSUME PromiseInv, NEW i \in Ids, now' = now,
           \/ UNCHANGED table /\ promised' = [promised EXCEPT ![i] = NoPromise]
           \/ Poison(Purged, i)
    PROVE  PromiseInv'
<1>1. CASE UNCHANGED table /\ promised' = [promised EXCEPT ![i] = NoPromise]
  <2>1. PromisedIn(states) /\ states' = states
    BY <1>1 DEF PromiseInv, table
  <2> QED BY <1>1, <2>1, SpoilKeepsPromises
<1>2. CASE Poison(Purged, i)
  BY <1>2, PurgeKeepsPromises, PoisonKeepsPromises
<1> QED BY <1>1, <1>2

LEMMA PromiseStep ==
    ASSUME PromiseInv, Inv, [Next]_vars
    PROVE  PromiseInv'
<1>1. ASSUME NEW token \in Tokens, BarrierArrives(token) PROVE PromiseInv'
  BY <1>1, RegisterKeepsPromises DEF BarrierArrives
<1>2. ASSUME NEW token \in Tokens, ControlArrives(token) PROVE PromiseInv'
  <2>1. token.id \in Ids /\ now' = now /\ PromisedIn(Purged)
    BY <1>2, PurgeKeepsPromises DEF Tokens, ControlArrives
  <2>2. \/ Leave(Purged) \/ Poison(Purged, token.id)
        \/ Verify(Without(Purged, token.id), token.id)
    BY <1>2 DEF ControlArrives
  <2> QED BY <2>1, <2>2, LeaveKeepsPromises, PoisonKeepsPromises, VerifyKeepsPromises
<1>3. ASSUME NEW variant \in Variants, DrainedBarrierArrives(variant) PROVE PromiseInv'
  <2>1. draining.id \in Ids /\ now' = now
    BY <1>3 DEF DrainedBarrierArrives, Inv, Typed, Tokens
  <2>2. \/ UNCHANGED table /\ promised' = [promised EXCEPT ![draining.id] = NoPromise]
        \/ Poison(Purged, draining.id)
    BY <1>3 DEF DrainedBarrierArrives
  <2> QED BY <2>1, <2>2, DrainedKeepsPromises
<1>4. CASE Tick
  <2>1. UNCHANGED <<states, promised>> /\ now' = now + 1 /\ now' \in Clock /\ now \in Nat
    BY <1>4, PendingAssumption DEF Tick, table, history, Clock, PromiseInv
  <2>2. ASSUME NEW i \in Ids, Lively(i)'
        PROVE  Lively(i)
    <3>1. promised[i].at \in Int /\ TTL \in Int
      BY PendingAssumption DEF PromiseInv, PromisedType, Never, Clock
    <3> QED BY <2>1, <2>2, <3>1 DEF Lively
  <2> QED BY <2>1, <2>2 DEF PromiseInv, PromisedType, PromisedIn
<1>5. CASE DrainTimesOut \/ UNCHANGED vars
  BY <1>5 DEF DrainTimesOut, vars, table, history, PromiseInv, PromisedType, PromisedIn, Lively
<1> QED BY <1>1, <1>2, <1>3, <1>4, <1>5 DEF Next

(* A registration is kept: the control that matches it within its time to  *)
(* live is accepted, or refused for the engine's revision alone, however   *)
(* full or saturated the table is.                                         *)
THEOREM PromisesKept == Spec => PromiseKept
<1>1. Init => PromiseInv
  BY PendingAssumption DEF Init, PromiseInv, PromisedType, PromisedIn, NoPromise, Lively, Clock
<1>2. PromiseInv /\ Inv /\ [Next]_vars => PromiseInv'
  BY PromiseStep
<1>3. ASSUME PromiseInv, NEW token \in Tokens, ControlArrives(token),
             promised[token.id].variant = token.variant, now - promised[token.id].at < TTL
      PROVE  outcome'.what \in {"accepted", "stale"}
  <2>1. token.id \in Ids /\ token.variant # None
    BY PendingAssumption DEF Tokens
  <2>2. token.id \in DOMAIN Purged /\ Purged[token.id].variant = token.variant
    BY <1>3, <2>1, PurgeKeepsPromises DEF PromisedIn, Lively
  <2>3. Verify(Without(Purged, token.id), token.id)
    BY <1>3, <2>1, <2>2 DEF ControlArrives, Admits
  <2> QED BY <2>3 DEF Verify, Says
<1>4. PromiseInv => [\A token \in Tokens :
         ControlArrives(token) /\ promised[token.id].variant = token.variant
              /\ now - promised[token.id].at < TTL
           => outcome'.what \in {"accepted", "stale"}]_vars
  BY <1>3
<1> QED BY <1>1, <1>2, <1>4, InitInv, StepInv, PTL DEF Spec, PromiseKept
=============================================================================
