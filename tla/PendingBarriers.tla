---------------------------- MODULE PendingBarriers ----------------------------
(***************************************************************************)
(* The Writer's table of barriers that arrived before their control        *)
(* (writer_task.rs, PendingBarriers) and the way drain_to_barrier uses it. *)
(*                                                                         *)
(* A barrier token is an id and a variant: its kind together with its      *)
(* expected revision.  Two tokens with one id and different variants are   *)
(* in conflict, and the id must not be accepted until the time to live has *)
(* passed - although the table that has to remember this is bounded.       *)
(***************************************************************************)
EXTENDS Integers, FiniteSets

CONSTANTS
    Ids,       \* barrier ids
    Variants,  \* kind and expected revision of a token
    Capacity,  \* PENDING_BARRIER_CAPACITY
    TTL,       \* PENDING_BARRIER_TTL
    MaxTime,   \* bound on the clock
    None       \* "no variant", "nothing drained for"

ASSUME PendingAssumption ==
    /\ Capacity \in Nat \ {0} /\ TTL \in Nat \ {0} /\ MaxTime \in Nat
    /\ None \notin Variants /\ None \notin Ids

VARIABLES
    states,          \* id -> pending entry or poisoned tombstone
    saturatedUntil,  \* no id outside the table is admitted before this time
    now,             \* the monotonic clock
    draining,        \* the control the Writer reads the lane for
    outcome,         \* what the last step did, and for which id
    condemned,       \* history: when the Writer last condemned an id
    promised         \* history: a registration that nothing has spoiled

table   == <<states, saturatedUntil>>
history == <<condemned, promised>>
vars == <<table, history, now, draining, outcome>>

Clock   == 0 .. MaxTime
Never   == -TTL
Entries == [variant : Variants \cup {None}, at : Clock]   \* None: a tombstone
Tokens  == [id : Ids, variant : Variants]
NoDrain == [id |-> None, variant |-> None]

Outcomes == {"none", "accepted", "stale", "refused", "timeout", "waiting",
             "registered", "duplicate", "conflict", "poisoned", "saturated", "overflow"}

TypeOK ==
    /\ DOMAIN states \subseteq Ids
    /\ states \in [DOMAIN states -> Entries]
    /\ Cardinality(DOMAIN states) <= Capacity
    /\ saturatedUntil \in 0 .. MaxTime + TTL
    /\ now \in Clock
    /\ draining \in Tokens \cup {NoDrain}
    /\ outcome \in [id : Ids \cup {None}, what : Outcomes]
    /\ condemned \in [Ids -> {Never} \cup Clock]
    /\ promised \in [Ids -> [variant : Variants \cup {None}, at : {Never} \cup Clock]]

NoPromise == [variant |-> None, at |-> Never]

Init ==
    /\ states = <<>> /\ saturatedUntil = 0 /\ now = 0
    /\ draining = NoDrain
    /\ outcome = [id |-> None, what |-> "none"]
    /\ condemned = [i \in Ids |-> Never]
    /\ promised = [i \in Ids |-> NoPromise]

-----------------------------------------------------------------------------
(* Operators named "Faulty..." are deliberately wrong variants of the      *)
(* definition that follows them; no specification uses them.               *)

(* purge_expired: every operation on the table starts with it.             *)
Purged ==
    [i \in {j \in DOMAIN states : now - states[j].at < TTL} |-> states[i]]

Saturated == now < saturatedUntil

Put(t, i, variant) ==
    [j \in DOMAIN t \cup {i} |-> IF j = i THEN [variant |-> variant, at |-> now] ELSE t[j]]

Without(t, i) == [j \in DOMAIN t \ {i} |-> t[j]]

(* Faulty: an id that finds no room for its tombstone is forgotten.        *)
FaultyPoison(t, i) ==
    /\ IF i \in DOMAIN t \/ Cardinality(DOMAIN t) < Capacity
       THEN states' = Put(t, i, None)
       ELSE states' = t
    /\ UNCHANGED saturatedUntil
    /\ condemned' = [condemned EXCEPT ![i] = now]
    /\ promised' = [promised EXCEPT ![i] = NoPromise]

(* poison: in place, or a tombstone of its own, or - the table being full  *)
(* - the whole table turns newcomers away for as long as a tombstone lasts.*)
Poison(t, i) ==
    /\ IF i \in DOMAIN t \/ Cardinality(DOMAIN t) < Capacity
       THEN states' = Put(t, i, None) /\ UNCHANGED saturatedUntil
       ELSE states' = t /\ saturatedUntil' = now + TTL
    /\ condemned' = [condemned EXCEPT ![i] = now]
    /\ promised' = [promised EXCEPT ![i] = NoPromise]

Leave(t) == states' = t /\ UNCHANGED <<saturatedUntil, history>>

(* Faulty: saturation refuses the ids in the table as well.                *)
FaultyAdmits(i) == ~Saturated

(* Saturation turns away newcomers only.                                   *)
Admits(i) == i \in DOMAIN Purged \/ ~Saturated

Says(i, what) == outcome' = [id |-> i, what |-> what]

(* register: a barrier met on the data lane.                               *)
Register(token) ==
    LET i == token.id IN
    IF i \in DOMAIN Purged
    THEN CASE Purged[i].variant = None -> Leave(Purged) /\ Says(i, "poisoned")
           [] Purged[i].variant = token.variant -> Leave(Purged) /\ Says(i, "duplicate")
           [] OTHER -> Poison(Purged, i) /\ Says(i, "conflict")
    ELSE CASE Saturated -> Leave(Purged) /\ Says(i, "saturated")
           [] ~Saturated /\ Cardinality(DOMAIN Purged) >= Capacity ->
                  Leave(Purged) /\ Says(i, "overflow")
           [] OTHER ->
                  /\ states' = Put(Purged, i, token.variant)
                  /\ promised' = [promised EXCEPT ![i] = [variant |-> token.variant, at |-> now]]
                  /\ UNCHANGED <<saturatedUntil, condemned>>
                  /\ Says(i, "registered")

(* verify_engine_revision after a match: commit, or condemn a stale id.    *)
Verify(t, i) ==
    \/ /\ states' = t
       /\ promised' = [promised EXCEPT ![i] = NoPromise]
       /\ UNCHANGED <<saturatedUntil, condemned>>
       /\ Says(i, "accepted")
    \/ Poison(t, i) /\ Says(i, "stale")

-----------------------------------------------------------------------------
BarrierArrives(token) ==
    /\ draining.id # token.id
    /\ Register(token)
    /\ UNCHANGED <<now, draining>>

(* A control is taken: take_if_matches, then the check for saturation.     *)
ControlArrives(token) ==
    LET i == token.id IN
    /\ draining = NoDrain
    /\ IF Admits(i)
       THEN \/ /\ i \in DOMAIN Purged /\ Purged[i].variant = token.variant
               /\ Verify(Without(Purged, i), i) /\ UNCHANGED draining
            \/ /\ i \in DOMAIN Purged /\ Purged[i].variant \notin {token.variant, None}
               /\ Poison(Purged, i) /\ Says(i, "refused") /\ UNCHANGED draining
            \/ /\ i \in DOMAIN Purged /\ Purged[i].variant = None
               /\ Leave(Purged) /\ Says(i, "refused") /\ UNCHANGED draining
            \/ /\ i \notin DOMAIN Purged
               /\ draining' = token /\ Leave(Purged) /\ Says(i, "waiting")
       ELSE Leave(Purged) /\ Says(i, "refused") /\ UNCHANGED draining
    /\ UNCHANGED now

(* The barrier the drain reads for turns up on the lane.  Only poison      *)
(* purges here: a match leaves the table alone.                            *)
DrainedBarrierArrives(variant) ==
    LET i == draining.id IN
    /\ draining # NoDrain
    /\ IF variant = draining.variant
       THEN \/ /\ UNCHANGED table
               /\ promised' = [promised EXCEPT ![i] = NoPromise]
               /\ UNCHANGED condemned
               /\ Says(i, "accepted")
            \/ Poison(Purged, i) /\ Says(i, "stale")
       ELSE Poison(Purged, i) /\ Says(i, "refused")
    /\ draining' = NoDrain
    /\ UNCHANGED now

(* The drain gives up: the id may still be registered by a late barrier.   *)
DrainTimesOut ==
    /\ draining # NoDrain
    /\ draining' = NoDrain
    /\ Says(draining.id, "timeout")
    /\ UNCHANGED <<table, history, now>>

Tick ==
    /\ now < MaxTime
    /\ now' = now + 1
    /\ outcome' = [id |-> None, what |-> "none"]
    /\ UNCHANGED <<table, history, draining>>

Next ==
    \/ \E token \in Tokens : BarrierArrives(token) \/ ControlArrives(token)
    \/ \E variant \in Variants : DrainedBarrierArrives(variant)
    \/ DrainTimesOut \/ Tick

Spec == Init /\ [][Next]_vars

-----------------------------------------------------------------------------
(***************************************************************************)
(* What the bounded table must guarantee.                                  *)
(***************************************************************************)

(* No laundering: an id that was condemned - by a conflict or by a stale   *)
(* revision - is not accepted before its time to live has passed, on the   *)
(* table or straight from the lane, even if the table had no room to       *)
(* remember it and slots were freed since.                                 *)
NotLaundered ==
    outcome.what = "accepted" => now - condemned[outcome.id] >= TTL

(* What makes that inductive: an id condemned less than a time to live ago *)
(* is a tombstone, or it is outside a table that admits no newcomer.       *)
Remembered(i) ==
    IF i \in DOMAIN states
    THEN states[i].variant = None /\ condemned[i] <= states[i].at
    ELSE condemned[i] + TTL <= saturatedUntil

LaunderingInv ==
    /\ saturatedUntil <= now + TTL
    /\ \A i \in Ids : condemned[i] <= now
    /\ \A i \in Ids : now - condemned[i] < TTL => Remembered(i)
    /\ draining # NoDrain => now - condemned[draining.id] >= TTL

(* A registration is a promise: as long as nothing contradicts it, the     *)
(* matching control finds the barrier - saturation or not.                 *)
PromiseKept ==
    [][\A token \in Tokens :
         ControlArrives(token) /\ promised[token.id].variant = token.variant
              /\ now - promised[token.id].at < TTL
           => outcome'.what \in {"accepted", "stale"}]_vars
=============================================================================
