-------------------------- MODULE RollupLocksProofs --------------------------
(***************************************************************************)
(* Proofs about RollupLocks: whatever statements run at once, the stored   *)
(* counts are those of the committed rows, no adjustment is refused, and   *)
(* statements that adjust in one pass over the shards never deadlock.      *)
(*                                                                         *)
(* The argument: a statement's uncommitted changes to a slot are, at every *)
(* moment, what its trigger runs have got through of that slot (Progress). *)
(* At the commit that is the whole change to the slot's rows, and before   *)
(* it never takes more than the rows the statement has locked.             *)
(***************************************************************************)
EXTENDS RollupLocks, SequenceTheorems, FiniteSetTheorems, WellFoundedInduction, TLAPS

Branches == {"INSERT", "DELETE", "UPDATE"}

\* The messages that a branch of the trigger counts.
Effect(t, op) ==
  CASE op = "INSERT" -> t.inserted
    [] op = "DELETE" -> t.removed
    [] op = "UPDATE" -> Moved(t.leased)

Pending(t, op, k) ==
  \E i \in DOMAIN t.batches : t.batches[i].op = op /\ k \in t.batches[i].slots

Done(t, op, k, s) == IF Pending(t, op, k) THEN 0 ELSE Delta(t, op, k)[s]

\* The trigger runs left are different branches, each with slots of its own messages.
BatchShape(t) ==
  /\ \A i \in DOMAIN t.batches :
       /\ t.batches[i].slots # {}
       /\ t.batches[i].slots \subseteq SlotsOf(Effect(t, t.batches[i].op))
  /\ \A i, j \in DOMAIN t.batches : t.batches[i].op = t.batches[j].op => i = j

\* A statement inserts, or it deletes and leases, messages that are there for it.
RowShape(t) ==
  /\ t.inserted # {} => t.removed = {} /\ t.leased = {}
  /\ t.removed \cap t.leased = {}
  /\ \A m \in t.inserted : message[m] = "new"
  /\ \A m \in t.removed \cup t.leased : message[m] \in States
  /\ ~ t.active => t = Idle

Progress(t) ==
  \A k \in Slots, s \in States :
    t.changed[k][s] = Done(t, "INSERT", k, s) + Done(t, "DELETE", k, s) + Done(t, "UPDATE", k, s)

\* One pass over the shards goes up their keys.
Ascending(t) ==
  t.removed = {} \/ Moved(t.leased) = {} =>
    \A k \in Slots : t.changed[k] # Zero =>
      \A i \in DOMAIN t.batches : \A j \in t.batches[i].slots : k < j

StatementInv(t) == BatchShape(t) /\ RowShape(t) /\ Progress(t) /\ Ascending(t)

\* No two statements have the same message, or the same row of counts.
Apart(t, u) ==
  /\ t.inserted \cap u.inserted = {}
  /\ (t.removed \cup t.leased) \cap (u.removed \cup u.leased) = {}
  /\ \A k \in Slots : t.changed[k] = Zero \/ u.changed[k] = Zero

ShardInv ==
  /\ TypeOK
  /\ CountsExact
  /\ \A c \in Callers : StatementInv(txn[c])
  /\ \A c, d \in Callers : c # d => Apart(txn[c], txn[d])

-----------------------------------------------------------------------------
(* The counts of a set of messages.                                        *)

LEMMA SubsetCount ==
  ASSUME NEW S \in SUBSET Messages
  PROVE  /\ IsFiniteSet(S) /\ Cardinality(S) \in Nat
         /\ \A T \in SUBSET S : /\ IsFiniteSet(T) /\ Cardinality(T) \in Nat
                                /\ Cardinality(T) <= Cardinality(S)
                                /\ Cardinality(S \ T) = Cardinality(S) - Cardinality(T)
<1>1. IsFiniteSet(S)
      BY SlotOfAssumption, FS_Subset
<1>2. ASSUME NEW T \in SUBSET S
      PROVE  /\ IsFiniteSet(T) /\ Cardinality(T) <= Cardinality(S)
             /\ Cardinality(S \ T) = Cardinality(S) - Cardinality(T)
      <2>1. IsFiniteSet(T) /\ Cardinality(T) <= Cardinality(S)
            BY <1>1, FS_Subset
      <2>2. S \cap T = T
            OBVIOUS
      <2> QED BY <1>1, <2>1, <2>2, FS_Difference
<1> QED BY <1>1, <1>2, FS_CardinalityType

\* The messages of S in slot k and state s.
Of(S, k, s) == {m \in S : SlotOf[m] = k /\ message[m] = s}

LEMMA TallyCounts ==
  ASSUME NEW S \in SUBSET Messages, NEW k \in Slots
  PROVE  /\ Tally(S, k) \in [States -> Nat]
         /\ \A s \in States : Tally(S, k)[s] = Cardinality(Of(S, k, s))
<1>1. \A s \in States : Cardinality(Of(S, k, s)) \in Nat
      BY SubsetCount DEF Of
<1> QED BY <1>1 DEF Tally, Of

LEMMA DeltaCounts ==
  ASSUME NEW t, {t.inserted, t.removed, t.leased} \subseteq SUBSET Messages, NEW k \in Slots
  PROVE  /\ \A op \in Branches : Delta(t, op, k) \in [States -> Int]
         /\ Delta(t, "INSERT", k)["READY"] = Cardinality({m \in t.inserted : SlotOf[m] = k})
         /\ Delta(t, "INSERT", k)["IN_FLIGHT"] = 0
         /\ \A s \in States : Delta(t, "DELETE", k)[s] = - Cardinality(Of(t.removed, k, s))
         /\ Delta(t, "UPDATE", k)["READY"] = - Cardinality(Of(t.leased, k, "READY"))
         /\ Delta(t, "UPDATE", k)["IN_FLIGHT"] = Cardinality(Of(t.leased, k, "READY"))
<1> DEFINE fresh == Cardinality({m \in t.inserted : SlotOf[m] = k})
           moved == Tally(t.leased, k)["READY"]
<1>1. fresh \in Nat
      BY SubsetCount
<1>2. /\ moved \in Nat /\ moved = Cardinality(Of(t.leased, k, "READY"))
      /\ Tally(t.removed, k) \in [States -> Nat]
      /\ \A s \in States : Tally(t.removed, k)[s] = Cardinality(Of(t.removed, k, s))
      BY TallyCounts DEF States
<1>3. /\ Delta(t, "INSERT", k) = [READY |-> fresh, IN_FLIGHT |-> 0]
      /\ Delta(t, "DELETE", k) = Minus(Tally(t.removed, k))
      /\ Delta(t, "UPDATE", k) = [READY |-> - moved, IN_FLIGHT |-> moved]
      BY DEF Delta
<1> HIDE DEF fresh, moved
<1>4. Minus(Tally(t.removed, k)) \in [States -> Int]
      BY <1>2 DEF Minus
<1>5. ASSUME NEW a \in Int, NEW b \in Int PROVE [READY |-> a, IN_FLIGHT |-> b] \in [States -> Int]
      BY DEF States
<1>6. \A op \in Branches : Delta(t, op, k) \in [States -> Int]
      BY <1>1, <1>2, <1>3, <1>4, <1>5 DEF Branches
<1>7. \A s \in States : Delta(t, "DELETE", k)[s] = - Cardinality(Of(t.removed, k, s))
      BY <1>2, <1>3 DEF Minus
<1> QED BY <1>2, <1>3, <1>6, <1>7 DEF fresh

LEMMA DeltaOutside ==
  ASSUME NEW t, {t.inserted, t.removed, t.leased} \subseteq SUBSET Messages, NEW k \in Slots,
         NEW op \in Branches, k \notin SlotsOf(Effect(t, op)), NEW s \in States
  PROVE  Delta(t, op, k)[s] = 0
<1>1. Cardinality({}) = 0
      BY FS_EmptySet
<1>2. CASE op = "INSERT"
      <2>1. {m \in t.inserted : SlotOf[m] = k} = {}
            BY <1>2 DEF Effect, SlotsOf
      <2> QED BY <1>1, <1>2, <2>1, DeltaCounts DEF States
<1>3. CASE op = "DELETE"
      <2>1. Of(t.removed, k, s) = {}
            BY <1>3 DEF Effect, SlotsOf, Of
      <2>2. Delta(t, "DELETE", k)[s] = - Cardinality(Of(t.removed, k, s))
            BY DeltaCounts
      <2> QED BY <1>1, <1>3, <2>1, <2>2
<1>4. CASE op = "UPDATE"
      <2>1. Of(t.leased, k, "READY") = {}
            BY <1>4 DEF Effect, SlotsOf, Of, Moved
      <2>2. /\ Delta(t, "UPDATE", k)["READY"] = - Cardinality(Of(t.leased, k, "READY"))
            /\ Delta(t, "UPDATE", k)["IN_FLIGHT"] = Cardinality(Of(t.leased, k, "READY"))
            BY DeltaCounts
      <2> QED BY <1>1, <1>4, <2>1, <2>2 DEF States
<1> QED BY <1>2, <1>3, <1>4 DEF Branches

\* A statement is about its own messages: while they stay as they are, so does
\* everything it is going to do.
LEMMA Undisturbed ==
  ASSUME NEW t, StatementInv(t), t \in Transaction,
         \A m \in t.inserted \cup t.removed \cup t.leased : message'[m] = message[m]
  PROVE  StatementInv(t)'
<1>1. Moved(t.leased)' = Moved(t.leased)
      BY DEF Moved
<1>2. \A op \in Branches : Effect(t, op)' = Effect(t, op)
      BY <1>1 DEF Effect, Branches
<1>3. \A k : Tally(t.removed, k)' = Tally(t.removed, k) /\ Tally(t.leased, k)' = Tally(t.leased, k)
      <2>1. ASSUME NEW S, \A m \in S : message'[m] = message[m], NEW k
            PROVE  Tally(S, k)' = Tally(S, k)
            <3>1. \A s : {m \in S : SlotOf[m] = k /\ message'[m] = s} = {m \in S : SlotOf[m] = k /\ message[m] = s}
                  BY <2>1
            <3> QED BY <3>1 DEF Tally
      <2> QED BY <2>1
<1>4. \A op, k : Delta(t, op, k)' = Delta(t, op, k)
      BY <1>3 DEF Delta
<1>5. BatchShape(t)'
      <2>1. \A i \in DOMAIN t.batches : t.batches[i].op \in Branches
            <3>1. t.batches \in Seq(Batch)
                  BY DEF Transaction
            <3>2. \A i \in DOMAIN t.batches : t.batches[i] \in Batch
                  BY <3>1
            <3> QED BY <3>2 DEF Batch, Branches
      <2> QED BY <1>2, <2>1 DEF StatementInv, BatchShape
<1>6. RowShape(t)'
      BY DEF StatementInv, RowShape
<1>7. Progress(t)'
      BY <1>4 DEF StatementInv, Progress, Done, Pending
<1>8. Ascending(t)'
      BY <1>1 DEF StatementInv, Ascending
<1> QED BY <1>5, <1>6, <1>7, <1>8 DEF StatementInv

\* The branches that are done with a slot never take more rows from it than
\* there are: what is deleted is not leased, too.
LEMMA ChangeBounded ==
  ASSUME NEW t, {t.inserted, t.removed, t.leased} \subseteq SUBSET Messages,
         t.removed \cap t.leased = {}, NEW k \in Slots, NEW s \in States,
         NEW i \in Int, NEW d \in Int, NEW u \in Int,
         i = 0 \/ i = Delta(t, "INSERT", k)[s],
         d = 0 \/ d = Delta(t, "DELETE", k)[s],
         u = 0 \/ u = Delta(t, "UPDATE", k)[s]
  PROVE  Tally(Messages, k)[s] + (i + d + u) >= 0
<1> DEFINE R == Of(t.removed, k, s)
           L == Of(t.leased, k, s)
<1>1. /\ Of(Messages, k, s) \in SUBSET Messages
      /\ R \in SUBSET Of(Messages, k, s) /\ L \in SUBSET (Of(Messages, k, s) \ R)
      /\ Of(Messages, k, s) \ R \in SUBSET Messages
      BY DEF Of
<1>2. Cardinality(R) + Cardinality(L) <= Cardinality(Of(Messages, k, s))
      /\ {Cardinality(R), Cardinality(L), Cardinality(Of(Messages, k, s))} \subseteq Nat
      <2> HIDE DEF R, L
      <2>1. Cardinality(Of(Messages, k, s) \ R) = Cardinality(Of(Messages, k, s)) - Cardinality(R)
            /\ {Cardinality(R), Cardinality(Of(Messages, k, s))} \subseteq Nat
            BY <1>1, SubsetCount
      <2>2. Cardinality(L) <= Cardinality(Of(Messages, k, s) \ R) /\ Cardinality(L) \in Nat
            BY <1>1, SubsetCount
      <2> QED BY <2>1, <2>2
<1>3. Cardinality({m \in t.inserted : SlotOf[m] = k}) \in Nat
      BY SubsetCount
<1>4. Tally(Messages, k)[s] = Cardinality(Of(Messages, k, s))
      BY TallyCounts
<1>5. Cardinality(Of(t.leased, k, "READY")) \in Nat
      BY SubsetCount DEF Of
<1> HIDE DEF R, L
<1>6. CASE s = "READY"
      <2>1. i >= 0 /\ d >= - Cardinality(R) /\ u >= - Cardinality(L)
            BY <1>2, <1>3, <1>6, DeltaCounts DEF R, L
      <2> QED BY <1>2, <1>4, <2>1
<1>7. CASE s = "IN_FLIGHT"
      <2>1. /\ Delta(t, "INSERT", k)[s] = 0
            /\ Delta(t, "DELETE", k)[s] = - Cardinality(R)
            /\ Delta(t, "UPDATE", k)[s] = Cardinality(Of(t.leased, k, "READY"))
            <3>1. Delta(t, "DELETE", k)[s] = - Cardinality(R)
                  BY DeltaCounts DEF R
            <3> QED BY <1>7, <3>1, DeltaCounts
      <2>2. i >= 0 /\ d >= - Cardinality(R) /\ u >= 0
            BY <1>2, <1>5, <2>1
      <2> QED BY <1>2, <1>4, <2>2
<1> QED BY <1>6, <1>7 DEF States
-----------------------------------------------------------------------------
(* The steps of a statement before its commit.                             *)

LEMMA IdleStatement ==
  /\ Idle \in Transaction
  /\ StatementInv(Idle)
  /\ \A u : Apart(Idle, u)
<1>1. Idle \in Transaction
      BY DEF Idle, Transaction, Counts, Zero
<1>2. BatchShape(Idle) /\ RowShape(Idle) /\ Ascending(Idle)
      BY DEF Idle, BatchShape, RowShape, Ascending, Zero
<1>3. ASSUME NEW k \in Slots, NEW s \in States, NEW op \in Branches
      PROVE  Done(Idle, op, k, s) = 0
      <2>1. {Idle.inserted, Idle.removed, Idle.leased} \subseteq SUBSET Messages
            BY DEF Idle
      <2>2. k \notin SlotsOf(Effect(Idle, op))
            BY DEF Idle, Effect, SlotsOf, Moved, Branches
      <2> QED BY <2>1, <2>2, DeltaOutside DEF Done
<1>4. Progress(Idle)
      <2>1. \A k \in Slots, s \in States : Idle.changed[k][s] = 0
            BY DEF Idle, Zero
      <2>2. {"INSERT", "DELETE", "UPDATE"} \subseteq Branches
            BY DEF Branches
      <2> QED BY <1>3, <2>1, <2>2 DEF Progress
<1>5. \A u : Apart(Idle, u)
      BY DEF Idle, Apart
<1> QED BY <1>1, <1>2, <1>4, <1>5 DEF StatementInv

LEMMA StatementStep ==
  ASSUME ShardInv, NEW c \in Callers, NEW t \in Transaction,
         txn' = [txn EXCEPT ![c] = t], UNCHANGED <<message, count>>,
         StatementInv(t),
         \A d \in Callers \ {c} : Apart(t, txn[d])
  PROVE  ShardInv'
<1>1. \A d \in Callers : txn'[d] = IF d = c THEN t ELSE txn[d]
      BY DEF ShardInv, TypeOK
<1>2. TypeOK'
      BY DEF ShardInv, TypeOK
<1>3. CountsExact'
      BY DEF ShardInv, CountsExact, Stored, Tally
<1>4. \A d \in Callers : StatementInv(txn[d])'
      <2> SUFFICES ASSUME NEW d \in Callers PROVE StatementInv(txn[d])'
          OBVIOUS
      <2>1. CASE d = c
            <3>1. StatementInv(t)'
                  BY Undisturbed
            <3> QED BY <1>1, <2>1, <3>1
      <2>2. CASE d # c
            <3>1. PICK u \in Transaction : u = txn[d]
                  BY DEF ShardInv, TypeOK
            <3>2. StatementInv(u)'
                  BY <3>1, Undisturbed DEF ShardInv
            <3> QED BY <1>1, <2>2, <3>1, <3>2
      <2> QED BY <2>1, <2>2
<1>5. \A d, e \in Callers : d # e => Apart(txn'[d], txn'[e])
      BY <1>1 DEF ShardInv, Apart
<1> QED BY <1>2, <1>3, <1>4, <1>5 DEF ShardInv

-----------------------------------------------------------------------------
(* The begin of a statement.                                               *)

Begun(ins, rem, lea, b) ==
  [active |-> TRUE, inserted |-> ins, removed |-> rem, leased |-> lea,
   batches |-> b, absent |-> FALSE, changed |-> [k \in Slots |-> Zero]]

\* All slots of t's messages are still to adjust.
AllPending(t) == \A op \in Branches : \A k \in SlotsOf(Effect(t, op)) : Pending(t, op, k)

\* No other statement than c's has the messages of t.
Owns(c, t) ==
  \A d \in Callers \ {c} :
    /\ t.inserted \cap txn[d].inserted = {}
    /\ (t.removed \cup t.leased) \cap (txn[d].removed \cup txn[d].leased) = {}

Untouched(t) == \A k \in Slots : t.changed[k] = Zero

LEMMA StartKeeps ==
  ASSUME ShardInv, NEW c \in Callers, NEW t \in Transaction,
         txn' = [txn EXCEPT ![c] = t], UNCHANGED <<message, count>>,
         RowShape(t), BatchShape(t), AllPending(t), Untouched(t), Owns(c, t)
  PROVE  ShardInv'
<1>1. {t.inserted, t.removed, t.leased} \subseteq SUBSET Messages
      BY DEF Transaction
<1>2. Progress(t)
      <2>1. ASSUME NEW k \in Slots, NEW s \in States, NEW op \in Branches
            PROVE  Done(t, op, k, s) = 0
            BY <1>1, DeltaOutside DEF Done, AllPending
      <2>2. \A k \in Slots, s \in States : t.changed[k][s] = 0
            BY DEF Zero, Untouched
      <2>3. \A k \in Slots, s \in States :
              /\ Done(t, "INSERT", k, s) = 0
              /\ Done(t, "DELETE", k, s) = 0
              /\ Done(t, "UPDATE", k, s) = 0
            BY <2>1 DEF Branches
      <2> QED BY ONLY <2>2, <2>3 DEF Progress
<1>3. StatementInv(t)
      BY <1>2 DEF StatementInv, Ascending, Untouched
<1>4. \A d \in Callers \ {c} : Apart(t, txn[d])
      BY DEF Apart, Owns, Untouched
<1> QED BY <1>3, <1>4, StatementStep

\* b has one trigger run for op1 over S1 and one for op2 over S2, either of
\* which is left out when it would have nothing to count.
RunsOf(b, op1, S1, op2, S2) ==
  /\ \A i \in DOMAIN b : \/ S1 # {} /\ b[i] = [op |-> op1, slots |-> SlotsOf(S1)]
                         \/ S2 # {} /\ b[i] = [op |-> op2, slots |-> SlotsOf(S2)]
  /\ \A i, j \in DOMAIN b : b[i].op = b[j].op => i = j
  /\ S1 # {} => \E i \in DOMAIN b : b[i] = [op |-> op1, slots |-> SlotsOf(S1)]
  /\ S2 # {} => \E i \in DOMAIN b : b[i] = [op |-> op2, slots |-> SlotsOf(S2)]

LEMMA ConcatSingletons ==
  ASSUME NEW x, NEW y
  PROVE  /\ <<>> \o <<>> = <<>> /\ <<>> \o <<y>> = <<y>> /\ <<x>> \o <<>> = <<x>>
         /\ <<x>> \o <<y>> = <<x, y>>
<1>1. <<>> \in Seq({x, y}) /\ <<x>> \in Seq({x, y}) /\ <<y>> \in Seq({x, y})
      OBVIOUS
<1>2. <<x, y>> \in Seq({x, y}) /\ Len(<<x>>) = 1 /\ Len(<<y>>) = 1 /\ Len(<<x, y>>) = 2
      OBVIOUS
<1>3. /\ <<x>> \o <<y>> \in Seq({x, y}) /\ Len(<<x>> \o <<y>>) = 2
      /\ (<<x>> \o <<y>>)[1] = <<x>>[1] /\ (<<x>> \o <<y>>)[2] = <<y>>[1]
      BY <1>1, <1>2, ConcatProperties
<1>4. \A i \in 1 .. 2 : (<<x>> \o <<y>>)[i] = <<x, y>>[i]
      BY <1>3
<1>5. <<x>> \o <<y>> = <<x, y>>
      BY <1>2, <1>3, <1>4, SeqEqual
<1> QED BY <1>1, <1>5, ConcatEmptySeq

LEMMA FiredRuns ==
  ASSUME NEW op1 \in Branches, NEW op2 \in Branches, op1 # op2,
         NEW S1 \in SUBSET Messages, NEW S2 \in SUBSET Messages
  PROVE  /\ Fired(op1, S1) \o Fired(op2, S2) \in Seq(Batch)
         /\ RunsOf(Fired(op1, S1) \o Fired(op2, S2), op1, S1, op2, S2)
<1>0. PICK x, y, b : /\ x = [op |-> op1, slots |-> SlotsOf(S1)]
                     /\ y = [op |-> op2, slots |-> SlotsOf(S2)]
                     /\ b = Fired(op1, S1) \o Fired(op2, S2)
      OBVIOUS
<1>1. x \in Batch /\ y \in Batch /\ x.op = op1 /\ y.op = op2
      BY <1>0, SlotOfAssumption DEF Batch, Branches, SlotsOf
<1>2. b = IF S1 = {} THEN (IF S2 = {} THEN <<>> ELSE <<y>>)
          ELSE (IF S2 = {} THEN <<x>> ELSE <<x, y>>)
      <2>1. /\ Fired(op1, S1) = IF S1 = {} THEN <<>> ELSE <<x>>
            /\ Fired(op2, S2) = IF S2 = {} THEN <<>> ELSE <<y>>
            BY <1>0 DEF Fired
      <2>2. /\ <<>> \o <<>> = <<>>
            /\ <<>> \o <<y>> = <<y>>
            /\ <<x>> \o <<>> = <<x>>
            /\ <<x>> \o <<y>> = <<x, y>>
            BY ConcatSingletons
      <2>3. b = Fired(op1, S1) \o Fired(op2, S2)
            BY <1>0
      <2> QED BY <2>1, <2>2, <2>3
<1>3. CASE S1 = {} /\ S2 = {}
      BY <1>0, <1>2, <1>3 DEF RunsOf
<1>4. CASE S1 = {} /\ S2 # {}
      BY <1>0, <1>1, <1>2, <1>4 DEF RunsOf
<1>5. CASE S1 # {} /\ S2 = {}
      BY <1>0, <1>1, <1>2, <1>5 DEF RunsOf
<1>6. CASE S1 # {} /\ S2 # {}
      <2>1. b = <<x, y>> /\ DOMAIN b = {1, 2} /\ b[1] = x /\ b[2] = y /\ b \in Seq(Batch)
            BY <1>1, <1>2, <1>6
      <2> QED BY <1>0, <1>1, <1>6, <2>1 DEF RunsOf
<1> QED BY <1>3, <1>4, <1>5, <1>6

\* The trigger runs of a statement are for its own messages, and for all of them.
LEMMA RunsShape ==
  ASSUME NEW t, NEW op1 \in Branches, NEW op2 \in Branches, op1 # op2,
         RunsOf(t.batches, op1, Effect(t, op1), op2, Effect(t, op2)),
         \A op \in Branches \ {op1, op2} : Effect(t, op) = {}
  PROVE  BatchShape(t) /\ AllPending(t)
<1>0. PICK S1, S2, b : S1 = Effect(t, op1) /\ S2 = Effect(t, op2) /\ b = t.batches
      OBVIOUS
<1>1. RunsOf(b, op1, S1, op2, S2)
      BY <1>0
<1>2. \A S : SlotsOf(S) # {} <=> S # {}
      BY DEF SlotsOf
<1>3. BatchShape(t)
      <2>1. ASSUME NEW i \in DOMAIN b
            PROVE  b[i].slots # {} /\ b[i].slots \subseteq SlotsOf(Effect(t, b[i].op))
            <3>1. CASE S1 # {} /\ b[i] = [op |-> op1, slots |-> SlotsOf(S1)]
                  BY <1>0, <1>2, <3>1
            <3>2. CASE S2 # {} /\ b[i] = [op |-> op2, slots |-> SlotsOf(S2)]
                  BY <1>0, <1>2, <3>2
            <3> QED BY <1>1, <3>1, <3>2 DEF RunsOf
      <2>2. \A i, j \in DOMAIN b : b[i].op = b[j].op => i = j
            BY <1>1 DEF RunsOf
      <2> QED BY <1>0, <2>1, <2>2 DEF BatchShape
<1>4. ASSUME NEW op \in Branches, NEW k \in SlotsOf(Effect(t, op))
      PROVE  \E i \in DOMAIN b : b[i].op = op /\ k \in b[i].slots
      <2>1. Effect(t, op) # {}
            BY <1>2, <1>4
      <2>2. CASE op = op1
            <3>1. PICK i \in DOMAIN b : b[i] = [op |-> op1, slots |-> SlotsOf(S1)]
                  BY <1>0, <1>1, <2>1, <2>2 DEF RunsOf
            <3> QED BY <1>0, <1>4, <2>2, <3>1
      <2>3. CASE op = op2
            <3>1. PICK i \in DOMAIN b : b[i] = [op |-> op2, slots |-> SlotsOf(S2)]
                  BY <1>0, <1>1, <2>1, <2>3 DEF RunsOf
            <3> QED BY <1>0, <1>4, <2>3, <3>1
      <2> QED BY <2>1, <2>2, <2>3
<1>5. AllPending(t)
      BY <1>0, <1>4 DEF AllPending, Pending
<1> QED BY <1>3, <1>5

LEMMA BegunShape ==
  ASSUME NEW ins \in SUBSET Messages, NEW rem \in SUBSET Messages, NEW lea \in SUBSET Messages,
         NEW op1 \in Branches, NEW op2 \in Branches, op1 # op2,
         NEW S1 \in SUBSET Messages, NEW S2 \in SUBSET Messages,
         NEW t, t = Begun(ins, rem, lea, Fired(op1, S1) \o Fired(op2, S2)),
         \A op \in Branches :
           Effect(t, op) = IF op = op1 THEN S1 ELSE IF op = op2 THEN S2 ELSE {}
  PROVE  t \in Transaction /\ BatchShape(t) /\ AllPending(t) /\ Untouched(t)
<1>1. PICK b : b = Fired(op1, S1) \o Fired(op2, S2)
      OBVIOUS
<1>2. b \in Seq(Batch) /\ RunsOf(b, op1, S1, op2, S2)
      BY <1>1, FiredRuns
<1>3. t = Begun(ins, rem, lea, b)
      BY <1>1
<1>4. t \in Transaction /\ t.batches = b /\ Untouched(t)
      <2>1. PICK z : z = [k \in Slots |-> Zero]
            OBVIOUS
      <2>2. z \in [Slots -> Counts] /\ \A k \in Slots : z[k] = Zero
            BY <2>1 DEF Counts, Zero
      <2>3. t = [active |-> TRUE, inserted |-> ins, removed |-> rem, leased |-> lea,
                 batches |-> b, absent |-> FALSE, changed |-> z]
            BY <1>3, <2>1 DEF Begun
      <2>4. t \in Transaction
            BY <1>2, <2>2, <2>3 DEF Transaction
      <2>5. t.batches = b /\ t.changed = z
            BY <2>3
      <2> QED BY <2>2, <2>4, <2>5 DEF Untouched
<1>5. /\ Effect(t, op1) = S1 /\ Effect(t, op2) = S2
      /\ \A op \in Branches \ {op1, op2} : Effect(t, op) = {}
      OBVIOUS
<1>6. BatchShape(t) /\ AllPending(t)
      BY <1>2, <1>4, <1>5, RunsShape
<1> QED BY <1>4, <1>6

LEMMA BeginKeeps ==
  ASSUME ShardInv, NEW c \in Callers,
         EnqueueMessage(c) \/ AcknowledgeMessage(c) \/ ProcessExpiredMessages(c) \/ DequeueMessage(c)
  PROVE  ShardInv'
<1>1. \A S : /\ Fired("INSERT", S) = Fired("INSERT", S) \o Fired("DELETE", {})
             /\ Fired("DELETE", S) = Fired("DELETE", S) \o Fired("UPDATE", {})
      BY DEF Fired
<1>2. Moved({}) = {}
      BY DEF Moved
<1>3. {"INSERT", "DELETE", "UPDATE"} = Branches
      BY DEF Branches
<1>4. ASSUME NEW S \in SUBSET Free(c)
      PROVE  /\ S \in SUBSET Messages /\ \A m \in S : message[m] \in States
             /\ \A d \in Callers \ {c} : S \cap (txn[d].removed \cup txn[d].leased) = {}
      BY DEF Free
<1>5. ASSUME NEW ins, NEW rem, NEW lea, NEW b, Start(c, ins, rem, lea, b),
             NEW t, t = Begun(ins, rem, lea, b)
      PROVE  txn' = [txn EXCEPT ![c] = t] /\ UNCHANGED <<message, count>>
      BY <1>5 DEF Start, Begun
<1>6. CASE EnqueueMessage(c)
      <2>1. PICK m \in Messages : /\ message[m] = "new"
                                  /\ \A d \in Callers : m \notin txn[d].inserted
                                  /\ Start(c, {m}, {}, {}, Fired("INSERT", {m}))
            BY <1>6 DEF EnqueueMessage
      <2>2. PICK t : t = Begun({m}, {}, {}, Fired("INSERT", {m}) \o Fired("DELETE", {}))
            OBVIOUS
      <2>3. t = Begun({m}, {}, {}, Fired("INSERT", {m}))
            BY <1>1, <2>2
      <2>4. \A op \in Branches :
              Effect(t, op) = IF op = "INSERT" THEN {m} ELSE IF op = "DELETE" THEN {} ELSE {}
            BY <1>2, <1>3, <2>2 DEF Effect, Begun
      <2>5. t \in Transaction /\ BatchShape(t) /\ AllPending(t) /\ Untouched(t)
            BY <1>3, <2>2, <2>4, BegunShape
      <2>6. RowShape(t) /\ Owns(c, t)
            BY <2>1, <2>2 DEF RowShape, Owns, Begun
      <2>7. txn' = [txn EXCEPT ![c] = t] /\ UNCHANGED <<message, count>>
            BY <1>5, <2>1, <2>3
      <2> QED BY <2>5, <2>6, <2>7, StartKeeps
<1>7. ASSUME NEW S \in SUBSET Free(c), Start(c, {}, S, {}, Fired("DELETE", S))
      PROVE  ShardInv'
      <2>1. PICK t : t = Begun({}, S, {}, Fired("DELETE", S) \o Fired("UPDATE", {}))
            OBVIOUS
      <2>2. t = Begun({}, S, {}, Fired("DELETE", S))
            BY <1>1, <2>1
      <2>3. \A op \in Branches :
              Effect(t, op) = IF op = "DELETE" THEN S ELSE IF op = "UPDATE" THEN {} ELSE {}
            BY <1>2, <1>3, <2>1 DEF Effect, Begun
      <2>4. t \in Transaction /\ BatchShape(t) /\ AllPending(t) /\ Untouched(t)
            BY <1>3, <1>4, <2>1, <2>3, BegunShape
      <2>5. RowShape(t) /\ Owns(c, t)
            BY <1>4, <2>1 DEF RowShape, Owns, Begun
      <2>6. txn' = [txn EXCEPT ![c] = t] /\ UNCHANGED <<message, count>>
            BY <1>5, <1>7, <2>2
      <2> QED BY <2>4, <2>5, <2>6, StartKeeps
<1>8. CASE DequeueMessage(c)
      <2>1. PICK dead \in SUBSET Free(c), leased \in SUBSET Free(c) :
              /\ dead \cap leased = {}
              /\ \/ Start(c, {}, dead, leased, Fired("DELETE", dead) \o Fired("UPDATE", Moved(leased)))
                 \/ Start(c, {}, dead, leased, Fired("UPDATE", Moved(leased)) \o Fired("DELETE", dead))
            BY <1>8 DEF DequeueMessage
      <2>2. PICK lea : lea = Moved(leased)
            OBVIOUS
      <2>3. dead \in SUBSET Messages /\ leased \in SUBSET Messages /\ lea \in SUBSET Messages
            BY <1>4, <2>2 DEF Moved
      <2>4. ASSUME NEW b, Start(c, {}, dead, leased, b),
                   b = Fired("DELETE", dead) \o Fired("UPDATE", lea)
                   \/ b = Fired("UPDATE", lea) \o Fired("DELETE", dead)
            PROVE  ShardInv'
            <3>1. PICK t : t = Begun({}, dead, leased, b)
                  OBVIOUS
            <3>2. \A op \in Branches :
                    /\ Effect(t, op) = IF op = "DELETE" THEN dead ELSE IF op = "UPDATE" THEN lea ELSE {}
                    /\ Effect(t, op) = IF op = "UPDATE" THEN lea ELSE IF op = "DELETE" THEN dead ELSE {}
                  BY <1>3, <2>2, <3>1 DEF Effect, Begun
            <3>3. t \in Transaction /\ BatchShape(t) /\ AllPending(t) /\ Untouched(t)
                  <4>1. CASE b = Fired("DELETE", dead) \o Fired("UPDATE", lea)
                        <5>1. t = Begun({}, dead, leased, Fired("DELETE", dead) \o Fired("UPDATE", lea))
                              BY <3>1, <4>1
                        <5> QED BY <1>3, <2>3, <3>2, <5>1, BegunShape
                  <4>2. CASE b = Fired("UPDATE", lea) \o Fired("DELETE", dead)
                        <5>1. t = Begun({}, dead, leased, Fired("UPDATE", lea) \o Fired("DELETE", dead))
                              BY <3>1, <4>2
                        <5> QED BY <1>3, <2>3, <3>2, <5>1, BegunShape
                  <4> QED BY <2>4, <4>1, <4>2
            <3>5. RowShape(t) /\ Owns(c, t)
                  BY <1>4, <2>1, <3>1 DEF RowShape, Owns, Begun
            <3>6. txn' = [txn EXCEPT ![c] = t] /\ UNCHANGED <<message, count>>
                  BY <1>5, <2>4, <3>1
            <3> QED BY <3>3, <3>5, <3>6, StartKeeps
      <2> QED BY <2>1, <2>2, <2>4
<1>9. CASE AcknowledgeMessage(c)
      BY <1>7, <1>9 DEF AcknowledgeMessage
<1>10. CASE ProcessExpiredMessages(c)
      BY <1>7, <1>10 DEF ProcessExpiredMessages
<1> QED BY <1>6, <1>8, <1>9, <1>10

-----------------------------------------------------------------------------
(* The adjustment of one row.                                              *)

\* What is left of the trigger runs b when the first is done with slot k.
LeftOf(b, k) ==
  IF Head(b).slots \ {k} = {} THEN Tail(b)
  ELSE <<[op |-> Head(b).op, slots |-> Head(b).slots \ {k}]>> \o Tail(b)

\* n has the runs of b less slot k of the first.
Less(n, b, k) ==
  /\ \A i \in DOMAIN n : /\ n[i].slots # {}
                         /\ \E j \in DOMAIN b : n[i].op = b[j].op /\ n[i].slots \subseteq b[j].slots
                         /\ n[i].op = b[1].op => k \notin n[i].slots
  /\ \A i, j \in DOMAIN n : n[i].op = n[j].op => i = j
  /\ \A j \in DOMAIN b : \A x \in b[j].slots :
       (b[j].op = b[1].op /\ x = k) \/ \E i \in DOMAIN n : n[i].op = b[j].op /\ x \in n[i].slots

LEMMA ConsProperties ==
  ASSUME NEW S, NEW h \in S, NEW r \in Seq(S)
  PROVE  /\ <<h>> \o r \in Seq(S)
         /\ Len(<<h>> \o r) = 1 + Len(r)
         /\ (<<h>> \o r)[1] = h
         /\ \A i \in 1 .. Len(r) : (<<h>> \o r)[1 + i] = r[i]
<1>1. <<h>> \in Seq(S) /\ Len(<<h>>) = 1 /\ <<h>>[1] = h
      OBVIOUS
<1>2. PICK one \in Seq(S) : one = <<h>> /\ Len(one) = 1 /\ one[1] = h
      BY <1>1
<1>3. /\ one \o r \in Seq(S)
      /\ Len(one \o r) = 1 + Len(r)
      /\ \A i \in 1 .. 1 + Len(r) : (one \o r)[i] = IF i <= 1 THEN one[i] ELSE r[i - 1]
      BY <1>2, ConcatProperties
<1>4. \A i \in 1 .. Len(r) : (one \o r)[1 + i] = r[i]
      <2> SUFFICES ASSUME NEW i \in 1 .. Len(r) PROVE (one \o r)[1 + i] = r[i]
          OBVIOUS
      <2>1. 1 + i \in 1 .. 1 + Len(r) /\ ~ (1 + i <= 1) /\ (1 + i) - 1 = i
            OBVIOUS
      <2> QED BY <1>3, <2>1
<1>5. (one \o r)[1] = h
      BY <1>2, <1>3
<1> QED BY <1>2, <1>3, <1>4, <1>5

LEMMA LeftIsLess ==
  ASSUME NEW b \in Seq(Batch), b # <<>>, NEW k \in Head(b).slots,
         \A i \in DOMAIN b : b[i].slots # {},
         \A i, j \in DOMAIN b : b[i].op = b[j].op => i = j
  PROVE  LeftOf(b, k) \in Seq(Batch) /\ Less(LeftOf(b, k), b, k)
<1>1. PICK h, left, rest, n :
        /\ left = Head(b).slots \ {k} /\ rest = Tail(b) /\ n = LeftOf(b, k)
        /\ h = [op |-> Head(b).op, slots |-> left]
      OBVIOUS
<1>2. /\ Len(b) \in Nat /\ Len(b) >= 1 /\ DOMAIN b = 1 .. Len(b) /\ Head(b) = b[1] /\ b[1] \in Batch
      /\ rest \in Seq(Batch) /\ Len(rest) = Len(b) - 1 /\ \A i \in 1 .. Len(rest) : rest[i] = b[i + 1]
      BY <1>1
<1>3. h \in Batch /\ h.op = b[1].op /\ h.slots = b[1].slots \ {k}
      BY <1>1, <1>2 DEF Batch
<1>4. CASE left = {}
      <2>1. n = rest
            BY <1>1, <1>4 DEF LeftOf
      <2>2. DOMAIN n = 1 .. Len(b) - 1 /\ \A i \in 1 .. Len(b) - 1 : n[i] = b[i + 1]
            BY <1>2, <2>1
      <2>3. \A x \in b[1].slots : x = k
            BY <1>1, <1>2, <1>4
      <2>4. Less(n, b, k)
            <3>1. ASSUME NEW i \in DOMAIN n
                  PROVE  i + 1 \in DOMAIN b /\ n[i] = b[i + 1] /\ i + 1 # 1
                  BY <1>2, <2>2
            <3>2. ASSUME NEW j \in DOMAIN b, j # 1
                  PROVE  j - 1 \in DOMAIN n /\ n[j - 1] = b[j]
                  BY <1>2, <2>2, <3>2
            <3>3. \A i \in DOMAIN n : n[i].op # b[1].op
                  BY <1>2, <3>1
            <3>4. \A i, j \in DOMAIN n : n[i].op = n[j].op => i = j
                  BY <1>2, <2>2, <3>1
            <3> QED BY <2>3, <3>1, <3>2, <3>3, <3>4 DEF Less
      <2> QED BY <1>1, <1>2, <2>1, <2>4
<1>5. CASE left # {}
      <2>1. n = <<h>> \o rest
            BY <1>1, <1>5 DEF LeftOf
      <2>2. n \in Seq(Batch) /\ DOMAIN n = DOMAIN b /\ n[1] = h /\ \A i \in DOMAIN b \ {1} : n[i] = b[i]
            <3>1. /\ n \in Seq(Batch) /\ Len(n) = 1 + Len(rest) /\ n[1] = h
                  /\ \A i \in 1 .. Len(rest) : n[1 + i] = rest[i]
                  <4>1. PICK B : B = Batch /\ h \in B /\ rest \in Seq(B)
                        BY <1>2, <1>3
                  <4>2. /\ <<h>> \o rest \in Seq(B) /\ Len(<<h>> \o rest) = 1 + Len(rest)
                        /\ (<<h>> \o rest)[1] = h /\ \A i \in 1 .. Len(rest) : (<<h>> \o rest)[1 + i] = rest[i]
                        BY ONLY <4>1, ConsProperties
                  <4> QED BY <2>1, <4>1, <4>2
            <3>2. Len(n) = Len(b) /\ DOMAIN n = DOMAIN b
                  BY <1>2, <3>1
            <3>3. ASSUME NEW i \in DOMAIN b, i # 1 PROVE n[i] = b[i]
                  <4>1. i \in Int /\ i - 1 \in 1 .. Len(rest) /\ 1 + (i - 1) = i /\ (i - 1) + 1 = i
                        BY <1>2, <3>3
                  <4> QED BY <1>2, <3>1, <4>1
            <3> QED BY <3>1, <3>2, <3>3
      <2>3. h.slots # {} /\ k \notin h.slots
            BY <1>1, <1>5
      <2>4. 1 \in DOMAIN b
            BY <1>2
      <2>5. Less(n, b, k)
            BY <1>3, <2>2, <2>3, <2>4 DEF Less
      <2> QED BY <1>1, <2>2, <2>5
<1> QED BY <1>4, <1>5


\* u is t when the first of its trigger runs is done with slot k.
AdjustedTo(t, u, k) ==
  LET op == Head(t.batches).op
  IN  /\ <<u.active, u.inserted, u.removed, u.leased>> = <<t.active, t.inserted, t.removed, t.leased>>
      /\ u.batches = LeftOf(t.batches, k)
      /\ u.changed = [t.changed EXCEPT ![k] = Plus(t.changed[k], Delta(t, op, k))]

LEMMA SameMessages ==
  ASSUME NEW t, NEW u,
         u.inserted = t.inserted, u.removed = t.removed, u.leased = t.leased
  PROVE  /\ \A op \in Branches : Effect(u, op) = Effect(t, op)
         /\ \A op \in Branches : \A k : Delta(u, op, k) = Delta(t, op, k)
<1>1. \A op \in Branches : Effect(u, op) = Effect(t, op)
      BY DEF Effect, Branches
<1>2. \A op \in Branches : \A k : Delta(u, op, k) = Delta(t, op, k)
      BY DEF Delta
<1> QED BY <1>1, <1>2

LEMMA AdjustShape ==
  ASSUME NEW t \in Transaction, t.active, StatementInv(t), t.batches # <<>>,
         NEW k \in NextSlots(Head(t.batches).slots),
         NEW u \in Transaction, AdjustedTo(t, u, k)
  PROVE  StatementInv(u)
<1>1. PICK b, n, op : b = t.batches /\ n = u.batches /\ op = Head(b).op
      OBVIOUS
<1>2. /\ b \in Seq(Batch) /\ b # <<>> /\ 1 \in DOMAIN b /\ Head(b) = b[1] /\ b[1] \in Batch
      BY <1>1 DEF Transaction
<1>3. op \in Branches /\ op = b[1].op /\ b[1].slots \subseteq Slots
      BY <1>1, <1>2 DEF Batch, Branches
<1>4. k \in b[1].slots /\ k \in Slots /\ \A j \in b[1].slots : k <= j
      BY <1>1, <1>2, <1>3 DEF NextSlots
<1>5. {t.inserted, t.removed, t.leased} \subseteq SUBSET Messages /\ t.changed \in [Slots -> Counts]
      BY DEF Transaction
<1>6. /\ u.active = t.active /\ u.inserted = t.inserted /\ u.removed = t.removed /\ u.leased = t.leased
      /\ n = LeftOf(b, k)
      /\ u.changed = [t.changed EXCEPT ![k] = Plus(t.changed[k], Delta(t, op, k))]
      BY <1>1 DEF AdjustedTo
<1>7. /\ \A o \in Branches : Effect(u, o) = Effect(t, o)
      /\ \A o \in Branches : \A x : Delta(u, o, x) = Delta(t, o, x)
      BY <1>6, SameMessages
<1>8. /\ \A i \in DOMAIN b : b[i].slots # {} /\ b[i].slots \subseteq SlotsOf(Effect(t, b[i].op))
      /\ \A i, j \in DOMAIN b : b[i].op = b[j].op => i = j
      BY <1>1 DEF StatementInv, BatchShape
<1>9. Less(n, b, k)
      BY <1>2, <1>4, <1>6, <1>8, LeftIsLess
<1>10. \A i \in DOMAIN b : b[i].op \in Branches
      <2>1. \A i \in DOMAIN b : b[i] \in Batch
            BY <1>2
      <2> QED BY <2>1 DEF Batch, Branches
<1>11. BatchShape(u)
      <2>1. ASSUME NEW i \in DOMAIN n
            PROVE  n[i].slots # {} /\ n[i].slots \subseteq SlotsOf(Effect(u, n[i].op))
            <3>1. PICK j \in DOMAIN b : n[i].op = b[j].op /\ n[i].slots \subseteq b[j].slots
                  BY <1>9 DEF Less
            <3>2. Effect(u, b[j].op) = Effect(t, b[j].op)
                  BY <1>7, <1>10
            <3> QED BY <1>8, <1>9, <3>1, <3>2 DEF Less
      <2> QED BY <1>1, <1>9, <2>1 DEF BatchShape, Less
<1>12. RowShape(u)
      BY <1>6 DEF StatementInv, RowShape
<1>13. ASSUME NEW o \in Branches, NEW x
       PROVE  Pending(u, o, x) <=> Pending(t, o, x) /\ ~ (o = op /\ x = k)
      <2>1. ASSUME Pending(u, o, x)
            PROVE  Pending(t, o, x) /\ ~ (o = op /\ x = k)
            <3>1. PICK i \in DOMAIN n : n[i].op = o /\ x \in n[i].slots
                  BY <1>1, <2>1 DEF Pending
            <3>2. PICK j \in DOMAIN b : n[i].op = b[j].op /\ n[i].slots \subseteq b[j].slots
                  BY <1>9 DEF Less
            <3>3. o = op => k \notin n[i].slots
                  BY <1>3, <1>9, <3>1 DEF Less
            <3> QED BY <1>1, <3>1, <3>2, <3>3 DEF Pending
      <2>2. ASSUME Pending(t, o, x), ~ (o = op /\ x = k)
            PROVE  Pending(u, o, x)
            <3>1. PICK j \in DOMAIN b : b[j].op = o /\ x \in b[j].slots
                  BY <1>1, <2>2 DEF Pending
            <3>2. PICK i \in DOMAIN n : n[i].op = b[j].op /\ x \in n[i].slots
                  BY <1>3, <1>9, <2>2, <3>1 DEF Less
            <3> QED BY <1>1, <3>1, <3>2 DEF Pending
      <2> QED BY <2>1, <2>2
<1>14. Progress(u)
      <2>0. SUFFICES ASSUME NEW x \in Slots, NEW s \in States
                     PROVE  u.changed[x][s] = Done(u, "INSERT", x, s) + Done(u, "DELETE", x, s) + Done(u, "UPDATE", x, s)
            BY DEF Progress
      <2>1. t.changed[x][s] = Done(t, "INSERT", x, s) + Done(t, "DELETE", x, s) + Done(t, "UPDATE", x, s)
            BY DEF StatementInv, Progress
      <2>2. \A o \in Branches : Delta(t, o, x)[s] \in Int
            <3>1. \A o \in Branches : Delta(t, o, x) \in [States -> Int]
                  BY <1>5, DeltaCounts
            <3> QED BY <3>1
      <2>3. \A o \in Branches : Done(t, o, x, s) \in Int
            BY <2>2 DEF Done
      <2>4. ASSUME NEW o \in Branches, ~ (o = op /\ x = k)
            PROVE  Done(u, o, x, s) = Done(t, o, x, s)
            <3>1. Pending(u, o, x) <=> Pending(t, o, x)
                  BY <1>13, <2>4
            <3>2. Delta(u, o, x) = Delta(t, o, x)
                  BY <1>7
            <3> QED BY <3>1, <3>2 DEF Done
      <2>5. {"INSERT", "DELETE", "UPDATE"} = Branches
            BY DEF Branches
      <2>6. CASE x # k
            <3>1. u.changed[x] = t.changed[x]
                  BY <1>5, <1>6, <2>6
            <3>2. \A o \in Branches : Done(u, o, x, s) = Done(t, o, x, s)
                  BY <2>4, <2>6
            <3> QED BY <2>1, <2>5, <3>1, <3>2
      <2>7. CASE x = k
            <3>1. u.changed[k][s] = t.changed[k][s] + Delta(t, op, k)[s]
                  BY <1>4, <1>5, <1>6 DEF Plus
            <3>2. Done(t, op, k, s) = 0
                  BY <1>1, <1>2, <1>3, <1>4 DEF Done, Pending
            <3>3. Done(u, op, k, s) = Delta(t, op, k)[s]
                  BY <1>3, <1>7, <1>13 DEF Done
            <3>4. \A o \in Branches \ {op} : Done(u, o, k, s) = Done(t, o, k, s)
                  BY <2>4, <2>7
            <3>5. op = "INSERT" \/ op = "DELETE" \/ op = "UPDATE"
                  BY <1>3, <2>5
            <3> QED BY <2>1, <2>2, <2>3, <2>5, <2>7, <3>1, <3>2, <3>3, <3>4, <3>5
      <2> QED BY <2>6, <2>7
<1>15. Ascending(u)
      <2>0. SUFFICES ASSUME t.removed = {} \/ Moved(t.leased) = {},
                            NEW x \in Slots, u.changed[x] # Zero,
                            NEW i \in DOMAIN n, NEW j \in n[i].slots
                     PROVE  x < j
            BY <1>1, <1>6 DEF Ascending
      <2>1. PICK h \in DOMAIN b : n[i].op = b[h].op /\ n[i].slots \subseteq b[h].slots
            BY <1>9 DEF Less
      <2>2. CASE x # k
            <3>1. t.changed[x] # Zero
                  BY <1>5, <1>6, <2>0, <2>2
            <3> QED BY <1>1, <2>0, <2>1, <3>1 DEF StatementInv, Ascending
      <2>3. CASE x = k
            <3>1. Effect(t, op) # {} /\ Effect(t, b[h].op) # {}
                  BY <1>2, <1>3, <1>8 DEF SlotsOf
            <3>2. b[h].op = op
                  BY <1>3, <1>10, <2>0, <3>1 DEF Effect, Branches, StatementInv, RowShape, Moved
            <3>3. h = 1 /\ j \in b[1].slots /\ j # k
                  BY <1>2, <1>3, <1>8, <1>9, <2>1, <3>2 DEF Less
            <3>4. k \in Nat /\ j \in Nat /\ k <= j
                  BY <1>3, <1>4, <3>3, SlotsAssumption
            <3> QED BY <2>3, <3>3, <3>4
      <2> QED BY <2>2, <2>3
<1> QED BY <1>11, <1>12, <1>14, <1>15 DEF StatementInv


LEMMA AdjustKeeps ==
  ASSUME ShardInv, NEW c \in Callers, Adjusting(c), NEW k \in Next1(c),
         Holds(c, k) \/ ~ HeldByOther(c, k), Adjust(c, k)
  PROVE  ShardInv'
<1>1. PICK t \in Transaction : t = txn[c]
      BY DEF ShardInv, TypeOK
<1>2. t.active /\ t.batches # <<>> /\ StatementInv(t)
      BY <1>1 DEF Adjusting, ShardInv
<1>3. PICK b, n, op, x :
        /\ b = t.batches /\ op = Head(b).op /\ n = LeftOf(b, k)
        /\ x = Plus(t.changed[k], Delta(t, op, k))
      OBVIOUS
<1>4. b \in Seq(Batch) /\ b # <<>> /\ Head(b) \in Batch /\ Head(b) = b[1] /\ 1 \in DOMAIN b
      BY <1>2, <1>3 DEF Transaction
<1>5. op \in Branches /\ k \in Head(b).slots /\ k \in Slots /\ k \in NextSlots(Head(b).slots)
      BY <1>1, <1>3, <1>4 DEF Batch, Branches, Next1, NextSlots, Branch
<1>6. t.changed \in [Slots -> Counts] /\ {t.inserted, t.removed, t.leased} \subseteq SUBSET Messages
      BY DEF Transaction
<1>7. x \in Counts
      <2>1. Delta(t, op, k) \in [States -> Int] /\ t.changed[k] \in [States -> Int]
            BY <1>5, <1>6, DeltaCounts DEF Counts
      <2> QED BY <1>3, <2>1 DEF Plus, Counts
<1>8. n \in Seq(Batch)
      BY <1>2, <1>3, <1>4, <1>5, LeftIsLess DEF StatementInv, BatchShape
<1>9. PICK z : z = [t.changed EXCEPT ![k] = x]
      OBVIOUS
<1>10. z \in [Slots -> Counts] /\ z[k] = x /\ \A j \in Slots \ {k} : z[j] = t.changed[j]
      BY <1>5, <1>6, <1>7, <1>9
<1>11. PICK u : u = [t EXCEPT !.changed = z, !.absent = FALSE, !.batches = n]
      OBVIOUS
<1>12. /\ u \in Transaction
       /\ u.changed = z /\ u.batches = n
       /\ <<u.active, u.inserted, u.removed, u.leased>> = <<t.active, t.inserted, t.removed, t.leased>>
      BY <1>8, <1>10, <1>11 DEF Transaction
<1>13. AdjustedTo(t, u, k)
      BY <1>3, <1>9, <1>12 DEF AdjustedTo
<1>14. StatementInv(u)
      BY <1>2, <1>3, <1>5, <1>12, <1>13, AdjustShape
<1>15. txn' = [txn EXCEPT ![c] = u] /\ UNCHANGED <<message, count>>
      <2>1. txn' = [txn EXCEPT ![c].changed[k] = x, ![c].absent = FALSE, ![c].batches = n]
            BY <1>1, <1>3 DEF Adjust, Branch, LeftOf
      <2>2. txn \in [Callers -> Transaction]
            BY DEF ShardInv, TypeOK
      <2>3. txn' = [txn EXCEPT ![c] = u]
            BY <1>1, <1>9, <1>11, <2>1, <2>2
      <2> QED BY <2>3 DEF Adjust
<1>16. ASSUME NEW d \in Callers \ {c} PROVE Apart(u, txn[d])
      <2>1. Apart(t, txn[d])
            BY <1>1 DEF ShardInv
      <2>2. txn[d].changed[k] = Zero
            BY <1>1, <1>5, <2>1 DEF Holds, HeldByOther, Apart
      <2> QED BY <1>10, <1>12, <2>1, <2>2 DEF Apart
<1> QED BY <1>12, <1>14, <1>15, <1>16, StatementStep

\* While the UPDATE finds no row nothing else of the statement changes.
LEMMA AbsentKeeps ==
  ASSUME ShardInv, NEW c \in Callers, ShardNotFound(c)
  PROVE  ShardInv'
<1>1. PICK t \in Transaction : t = txn[c]
      BY DEF ShardInv, TypeOK
<1>2. PICK u : u = [t EXCEPT !.absent = TRUE]
      OBVIOUS
<1>3. /\ u \in Transaction /\ u.changed = t.changed /\ u.batches = t.batches
      /\ u.active = t.active /\ u.inserted = t.inserted /\ u.removed = t.removed /\ u.leased = t.leased
      BY <1>2 DEF Transaction
<1>4. txn' = [txn EXCEPT ![c] = u] /\ UNCHANGED <<message, count>>
      BY <1>1, <1>2 DEF ShardNotFound, ShardInv, TypeOK
<1>5. t.active /\ StatementInv(t)
      BY <1>1 DEF ShardInv, ShardNotFound, Adjusting
<1>6. StatementInv(u)
      <2>1. /\ \A op \in Branches : Effect(u, op) = Effect(t, op)
            /\ \A op \in Branches : \A k : Delta(u, op, k) = Delta(t, op, k)
            BY <1>3, SameMessages
      <2>2. BatchShape(u)
            <3>1. \A i \in DOMAIN t.batches : t.batches[i] \in Batch
                  BY DEF Transaction
            <3>2. \A i \in DOMAIN t.batches : t.batches[i].op \in Branches
                  BY <3>1 DEF Batch, Branches
            <3> QED BY <1>3, <1>5, <2>1, <3>2 DEF StatementInv, BatchShape
      <2>3. RowShape(u)
            BY <1>3, <1>5 DEF StatementInv, RowShape
      <2>4. Progress(u)
            <3>1. \A op \in Branches : \A k, s : Done(u, op, k, s) = Done(t, op, k, s)
                  BY <1>3, <2>1 DEF Done, Pending
            <3>2. {"INSERT", "DELETE", "UPDATE"} = Branches
                  BY DEF Branches
            <3> QED BY <1>3, <1>5, <3>1, <3>2 DEF StatementInv, Progress
      <2>5. Ascending(u)
            BY <1>3, <1>5 DEF StatementInv, Ascending
      <2> QED BY <2>2, <2>3, <2>4, <2>5 DEF StatementInv
<1>7. ASSUME NEW d \in Callers \ {c} PROVE Apart(u, txn[d])
      BY <1>1, <1>3 DEF ShardInv, Apart
<1> QED BY <1>3, <1>4, <1>6, <1>7, StatementStep


-----------------------------------------------------------------------------
(* The end of a statement.                                                 *)

\* The messages that t inserts into slot k.
Fresh(t, k) == {m \in t.inserted : SlotOf[m] = k}

\* When nothing is left to adjust, a statement has changed the counts of each
\* slot by what its commit does to the slot's messages.
LEMMA ChangeIsWhole ==
  ASSUME NEW t \in Transaction, StatementInv(t), t.batches = <<>>, NEW k \in Slots
  PROVE  /\ t.changed[k]["READY"] =
              Cardinality(Fresh(t, k)) - Cardinality(Of(t.removed, k, "READY")) - Cardinality(Of(t.leased, k, "READY"))
         /\ t.changed[k]["IN_FLIGHT"] =
              Cardinality(Of(t.leased, k, "READY")) - Cardinality(Of(t.removed, k, "IN_FLIGHT"))
<1>1. {t.inserted, t.removed, t.leased} \subseteq SUBSET Messages
      BY DEF Transaction
<1>2. \A op \in Branches, s \in States : Done(t, op, k, s) = Delta(t, op, k)[s]
      BY DEF Done, Pending
<1>3. \A s \in States : t.changed[k][s] = Delta(t, "INSERT", k)[s] + Delta(t, "DELETE", k)[s] + Delta(t, "UPDATE", k)[s]
      BY <1>2 DEF StatementInv, Progress, Branches
<1>4. /\ Cardinality(Fresh(t, k)) \in Nat
      /\ \A s \in States : Cardinality(Of(t.removed, k, s)) \in Nat /\ Cardinality(Of(t.leased, k, s)) \in Nat
      BY <1>1, SubsetCount DEF Fresh, Of
<1>5. /\ Delta(t, "INSERT", k)["READY"] = Cardinality(Fresh(t, k))
      /\ Delta(t, "INSERT", k)["IN_FLIGHT"] = 0
      /\ \A s \in States : Delta(t, "DELETE", k)[s] = - Cardinality(Of(t.removed, k, s))
      /\ Delta(t, "UPDATE", k)["READY"] = - Cardinality(Of(t.leased, k, "READY"))
      /\ Delta(t, "UPDATE", k)["IN_FLIGHT"] = Cardinality(Of(t.leased, k, "READY"))
      BY <1>1, DeltaCounts DEF Fresh
<1>6. "READY" \in States /\ "IN_FLIGHT" \in States
      BY DEF States
<1> QED BY <1>3, <1>4, <1>5, <1>6

LEMMA CommitCounts ==
  ASSUME ShardInv, NEW c \in Callers, Commit(c), NEW k \in Slots, NEW s \in States
  PROVE  Tally(Messages, k)'[s] = Tally(Messages, k)[s] + txn[c].changed[k][s]
<1>1. PICK t \in Transaction : t = txn[c]
      BY DEF ShardInv, TypeOK
<1>2. StatementInv(t) /\ t.batches = <<>>
      BY <1>1 DEF ShardInv, Commit
<1>3. {t.inserted, t.removed, t.leased} \subseteq SUBSET Messages
      BY DEF Transaction
<1>4. \A m \in Messages : message'[m] = IF m \in t.inserted THEN "READY"
                                        ELSE IF m \in t.removed THEN "gone"
                                        ELSE IF m \in t.leased THEN "IN_FLIGHT"
                                        ELSE message[m]
      BY <1>1 DEF Commit
<1>5. /\ \A m \in t.inserted : message[m] = "new" /\ m \notin t.removed /\ m \notin t.leased
      /\ \A m \in t.removed : message[m] \in States /\ m \notin t.leased
      /\ \A m \in t.leased : message[m] \in States
      BY <1>2 DEF StatementInv, RowShape
<1> DEFINE A(x) == Of(Messages, k, x)
           R(x) == Of(t.removed, k, x)
           L == Of(t.leased, k, "READY")
           I == Fresh(t, k)
<1>6. Tally(Messages, k)[s] = Cardinality(A(s))
      BY TallyCounts
<1>7. Tally(Messages, k)'[s] = Cardinality(A(s)')
      BY DEF Tally, Of
<1>8. /\ A(s) \in SUBSET Messages /\ R(s) \in SUBSET A(s) /\ L \in SUBSET Messages /\ I \in SUBSET Messages
      BY <1>3 DEF Of, Fresh
<1>9. /\ {Cardinality(A(s)), Cardinality(R(s)), Cardinality(L), Cardinality(I)} \subseteq Nat
      /\ Cardinality(A(s) \ R(s)) = Cardinality(A(s)) - Cardinality(R(s))
      <2> HIDE DEF A, R, L, I
      <2> QED BY <1>8, SubsetCount
<1>10. ASSUME NEW S \in SUBSET Messages, NEW T \in SUBSET Messages, S \cap T = {}
       PROVE  Cardinality(S \cup T) = Cardinality(S) + Cardinality(T)
      <2>1. IsFiniteSet(S) /\ IsFiniteSet(T)
            BY SubsetCount
      <2> QED BY <1>10, <2>1, FS_EmptySet, FS_Union, SubsetCount
<1>11. CASE s = "READY"
      <2>1. /\ A(s)' = ((A(s) \ R(s)) \ L) \cup I
            /\ L \in SUBSET (A(s) \ R(s))
            /\ ((A(s) \ R(s)) \ L) \cap I = {}
            BY <1>3, <1>4, <1>5, <1>11 DEF Of, Fresh, States
      <2>2. /\ Cardinality((A(s) \ R(s)) \ L) = Cardinality(A(s) \ R(s)) - Cardinality(L)
            /\ (A(s) \ R(s)) \ L \in SUBSET Messages
            <3> HIDE DEF A, R, L, I
            <3> QED BY <1>8, <2>1, SubsetCount
      <2>3. Cardinality(A(s)') = Cardinality((A(s) \ R(s)) \ L) + Cardinality(I)
            <3> HIDE DEF A, R, L, I
            <3> QED BY <1>8, <1>10, <2>1, <2>2
      <2>4. t.changed[k][s] = Cardinality(I) - Cardinality(R(s)) - Cardinality(L)
            BY <1>2, <1>11, ChangeIsWhole
      <2> HIDE DEF A, R, L, I
      <2> QED BY <1>1, <1>6, <1>7, <1>9, <2>2, <2>3, <2>4
<1>12. CASE s = "IN_FLIGHT"
      <2>1. A(s)' = (A(s) \ R(s)) \cup L /\ (A(s) \ R(s)) \cap L = {}
            BY <1>3, <1>4, <1>5, <1>12 DEF Of, States
      <2>2. Cardinality(A(s)') = Cardinality(A(s) \ R(s)) + Cardinality(L)
            <3> HIDE DEF A, R, L, I
            <3>1. A(s) \ R(s) \in SUBSET Messages
                  BY <1>8
            <3> QED BY <1>8, <1>10, <2>1, <3>1
      <2>3. t.changed[k][s] = Cardinality(L) - Cardinality(R(s))
            BY <1>2, <1>12, ChangeIsWhole
      <2> HIDE DEF A, R, L, I
      <2> QED BY <1>1, <1>6, <1>7, <1>9, <2>2, <2>3
<1> QED BY <1>11, <1>12 DEF States

LEMMA AbortKeeps ==
  ASSUME ShardInv, NEW c \in Callers, Abort(c)
  PROVE  ShardInv'
<1>1. txn' = [txn EXCEPT ![c] = Idle] /\ UNCHANGED <<message, count>>
      BY DEF Abort
<1> QED BY <1>1, IdleStatement, StatementStep

LEMMA CommitKeeps ==
  ASSUME ShardInv, NEW c \in Callers, Commit(c)
  PROVE  ShardInv'
<1>1. PICK t \in Transaction : t = txn[c]
      BY DEF ShardInv, TypeOK
<1>2. StatementInv(t)
      BY <1>1 DEF ShardInv
<1>3. /\ count' = [k \in Slots |-> Committed(t, k)]
      /\ message' = [m \in Messages |-> IF m \in t.inserted THEN "READY"
                                        ELSE IF m \in t.removed THEN "gone"
                                        ELSE IF m \in t.leased THEN "IN_FLIGHT"
                                        ELSE message[m]]
      /\ txn' = [txn EXCEPT ![c] = Idle]
      BY <1>1 DEF Commit
<1>4. \A d \in Callers : txn'[d] = IF d = c THEN Idle ELSE txn[d]
      BY <1>3 DEF ShardInv, TypeOK
<1>5. ASSUME NEW k \in Slots
      PROVE  /\ count'[k] \in [States -> Nat] \cup {None}
             /\ Stored(k)' = Tally(Messages, k)'
      <2>1. count'[k] = Committed(t, k)
            BY <1>3
      <2>2. /\ Stored(k) = Tally(Messages, k) /\ Tally(Messages, k) \in [States -> Nat]
            /\ count[k] \in [States -> Nat] \cup {None}
            BY TallyCounts DEF ShardInv, TypeOK, CountsExact
      <2>3. Tally(Messages, k)' \in [States -> Nat]
            <3>1. \A s \in States : Cardinality(Of(Messages, k, s)') \in Nat
                  BY SubsetCount DEF Of
            <3> QED BY <3>1 DEF Tally, Of
      <2>4. t.changed[k] \in [States -> Int]
            BY DEF Transaction, Counts
      <2>5. \A s \in States : Tally(Messages, k)'[s] = Tally(Messages, k)[s] + t.changed[k][s]
            BY <1>1, CommitCounts
      <2>6. Plus(Stored(k), t.changed[k]) = Tally(Messages, k)'
            BY <2>2, <2>3, <2>5 DEF Plus
      <2>7. CASE t.changed[k] = Zero
            <3>1. count'[k] = count[k]
                  BY <2>1, <2>7 DEF Committed
            <3>2. \A s \in States : t.changed[k][s] = 0
                  BY <2>7 DEF Zero
            <3>3. \A s \in States : Tally(Messages, k)'[s] = Tally(Messages, k)[s]
                  BY <2>2, <2>5, <3>2
            <3>4. Tally(Messages, k)' = Tally(Messages, k)
                  BY <2>2, <2>3, <3>3
            <3> QED BY <2>2, <3>1, <3>4 DEF Stored
      <2>8. CASE t.changed[k] # Zero
            <3>1. count'[k] = Tally(Messages, k)'
                  BY <2>1, <2>6, <2>8 DEF Committed
            <3>2. count'[k] # None
                  <4>1. count'[k] \in Counts
                        BY <2>3, <3>1 DEF Counts
                  <4> QED BY <4>1, NoneAssumption
            <3> QED BY <2>3, <3>1, <3>2 DEF Stored
      <2> QED BY <2>7, <2>8
<1>6. TypeOK'
      <2>1. message' \in [Messages -> {"new", "gone"} \cup States]
            BY <1>3 DEF ShardInv, TypeOK, States
      <2>2. count' \in [Slots -> [States -> Nat] \cup {None}]
            BY <1>3, <1>5
      <2>3. txn' \in [Callers -> Transaction]
            BY <1>3, IdleStatement DEF ShardInv, TypeOK
      <2> QED BY <2>1, <2>2, <2>3 DEF TypeOK
<1>7. CountsExact'
      BY <1>5 DEF CountsExact
<1>8. ASSUME NEW u \in Transaction, StatementInv(u), Apart(t, u)
      PROVE  StatementInv(u)'
      <2>1. ASSUME NEW m \in u.inserted \cup u.removed \cup u.leased
            PROVE  message'[m] = message[m]
            <3>1. m \in Messages
                  BY DEF Transaction
            <3>2. m \notin t.inserted \cup t.removed \cup t.leased
                  BY <1>2, <1>8 DEF StatementInv, RowShape, Apart, States
            <3> QED BY <1>3, <3>1, <3>2
      <2> QED BY <1>8, <2>1, Undisturbed
<1>9. ASSUME NEW d \in Callers PROVE StatementInv(txn[d])'
      <2>1. CASE d = c
            <3>1. StatementInv(Idle)'
                  <4>1. Idle.inserted \cup Idle.removed \cup Idle.leased = {}
                        BY DEF Idle
                  <4>2. PICK u : u = Idle
                        OBVIOUS
                  <4>3. StatementInv(u)'
                        BY <4>1, <4>2, IdleStatement, Undisturbed
                  <4> QED BY <4>2, <4>3
            <3> QED BY <1>4, <2>1, <3>1
      <2>2. CASE d # c
            <3>1. PICK u \in Transaction : u = txn[d]
                  BY DEF ShardInv, TypeOK
            <3>2. StatementInv(u) /\ Apart(t, u)
                  BY <1>1, <2>2, <3>1 DEF ShardInv
            <3>3. StatementInv(u)'
                  BY <1>8, <3>2
            <3> QED BY <1>4, <2>2, <3>1, <3>3
      <2> QED BY <2>1, <2>2
<1>10. \A d, e \in Callers : d # e => Apart(txn'[d], txn'[e])
      <2>1. \A u : Apart(Idle, u) /\ Apart(u, Idle)
            BY IdleStatement DEF Apart
      <2> QED BY <1>4, <2>1 DEF ShardInv
<1> QED BY <1>6, <1>7, <1>9, <1>10 DEF ShardInv


-----------------------------------------------------------------------------
(* The invariant and what follows from it.                                 *)

LEMMA ShardInvInit == Init => ShardInv
<1> SUFFICES ASSUME Init PROVE ShardInv
    OBVIOUS
<1>1. /\ \A m \in Messages : message[m] = "new" /\ message[m] \notin States
      /\ \A k \in Slots : count[k] = None
      /\ \A c \in Callers : txn[c] = Idle
      BY DEF Init, States
<1>2. TypeOK
      BY IdleStatement DEF Init, TypeOK
<1>3. CountsExact
      <2> SUFFICES ASSUME NEW k \in Slots PROVE Stored(k) = Tally(Messages, k)
          BY DEF CountsExact
      <2>1. \A s \in States : Of(Messages, k, s) = {}
            BY <1>1 DEF Of
      <2>2. \A s \in States : Tally(Messages, k)[s] = 0
            BY <2>1, TallyCounts, FS_EmptySet
      <2>3. Tally(Messages, k) = Zero
            BY <2>2, TallyCounts DEF Zero
      <2> QED BY <1>1, <2>3 DEF Stored
<1>4. \A c \in Callers : StatementInv(txn[c])
      <2> SUFFICES ASSUME NEW c \in Callers PROVE StatementInv(txn[c])
          OBVIOUS
      <2> QED BY <1>1, IdleStatement
<1>5. \A c, d \in Callers : c # d => Apart(txn[c], txn[d])
      <2> SUFFICES ASSUME NEW c \in Callers, NEW d \in Callers PROVE Apart(txn[c], txn[d])
          OBVIOUS
      <2>1. txn[c] = Idle
            BY <1>1
      <2> QED BY <2>1, IdleStatement
<1> QED BY <1>2, <1>3, <1>4, <1>5 DEF ShardInv

LEMMA ShardInvNext == ShardInv /\ [Next]_vars => ShardInv'
<1> SUFFICES ASSUME ShardInv, [Next]_vars PROVE ShardInv'
    OBVIOUS
<1>1. CASE UNCHANGED vars
      <2>1. UNCHANGED <<message, count, txn>>
            BY <1>1 DEF vars
      <2>2. TypeOK' /\ CountsExact'
            BY <2>1 DEF ShardInv, TypeOK, CountsExact, Stored, Tally
      <2>3. ASSUME NEW c \in Callers PROVE StatementInv(txn[c])'
            <3>1. PICK t \in Transaction : t = txn[c]
                  BY DEF ShardInv, TypeOK
            <3>2. StatementInv(t)'
                  BY <2>1, <3>1, Undisturbed DEF ShardInv
            <3> QED BY <2>1, <3>1, <3>2
      <2>4. \A c, d \in Callers : c # d => Apart(txn[c], txn[d])'
            BY <2>1 DEF ShardInv, Apart
      <2> QED BY <2>2, <2>3, <2>4 DEF ShardInv
<1>2. ASSUME NEW c \in Callers,
             \/ EnqueueMessage(c) \/ AcknowledgeMessage(c) \/ ProcessExpiredMessages(c) \/ DequeueMessage(c)
             \/ UpdateShard(c) \/ ShardNotFound(c) \/ InsertShard(c)
             \/ Commit(c) \/ Abort(c)
      PROVE  ShardInv'
      <2>1. CASE EnqueueMessage(c) \/ AcknowledgeMessage(c) \/ ProcessExpiredMessages(c) \/ DequeueMessage(c)
            BY <2>1, BeginKeeps
      <2>2. CASE UpdateShard(c)
            <3>1. PICK k \in Next1(c) : /\ Adjusting(c) /\ Adjust(c, k)
                                        /\ Holds(c, k) \/ ~ HeldByOther(c, k)
                  BY <2>2 DEF UpdateShard
            <3> QED BY <3>1, AdjustKeeps
      <2>3. CASE ShardNotFound(c)
            BY <2>3, AbsentKeeps
      <2>4. CASE InsertShard(c)
            <3>1. PICK k \in Next1(c) : /\ Adjusting(c) /\ Adjust(c, k) /\ ~ HeldByOther(c, k)
                  BY <2>4 DEF InsertShard
            <3> QED BY <3>1, AdjustKeeps
      <2>5. CASE Commit(c)
            BY <2>5, CommitKeeps
      <2>6. CASE Abort(c)
            BY <2>6, AbortKeeps
      <2> QED BY <1>2, <2>1, <2>2, <2>3, <2>4, <2>5, <2>6
<1> QED BY <1>1, <1>2 DEF Next

LEMMA ShardInvariant == Spec => []ShardInv
BY ShardInvInit, ShardInvNext, PTL DEF Spec

\* The rows of the messages, of the counts and of the statements at work have
\* their types; in particular no stored count is ever negative.
THEOREM RollupLocksTypeCorrect == Spec => []TypeOK
<1>1. ShardInv => TypeOK
      BY DEF ShardInv
<1> QED BY <1>1, ShardInvariant, PTL

\* Whatever statements have uncommitted changes, the stored counts of a slot are
\* those of its committed messages (adjust_queue_priority_state, the commits of
\* every operation on queue_message).
THEOREM RollupLocksCountsExact == Spec => []CountsExact
<1>1. ShardInv => CountsExact
      BY DEF ShardInv
<1> QED BY <1>1, ShardInvariant, PTL

\* In a state that the invariant allows the next adjustment of c goes through.
LEMMA NextAdjustment ==
  ASSUME ShardInv, NEW c \in Callers, Adjusting(c), NEW k \in Next1(c)
  PROVE  /\ Decrements(c, k) => Holds(c, k) \/ count[k] # None
         /\ \A s \in States : Adjusted(c, k)[s] >= 0
<1>1. PICK t \in Transaction : t = txn[c]
      BY DEF ShardInv, TypeOK
<1>2. PICK b, op : b = t.batches /\ op = Head(b).op
      OBVIOUS
<1>3. b \in Seq(Batch) /\ b # <<>> /\ Head(b) \in Batch /\ Head(b) = b[1] /\ 1 \in DOMAIN b
      BY <1>1, <1>2 DEF Adjusting, Transaction
<1>4. op \in Branches /\ k \in b[1].slots /\ k \in Slots
      BY <1>1, <1>2, <1>3 DEF Batch, Branches, Next1, NextSlots, Branch
<1>5. StatementInv(t) /\ t.removed \cap t.leased = {}
      BY <1>1 DEF ShardInv, StatementInv, RowShape
<1>6. {t.inserted, t.removed, t.leased} \subseteq SUBSET Messages /\ t.changed[k] \in [States -> Int]
      BY <1>4 DEF Transaction, Counts
<1>7. \A o \in Branches : Delta(t, o, k) \in [States -> Int]
      BY <1>4, <1>6, DeltaCounts
<1>8. Stored(k) = Tally(Messages, k) /\ Tally(Messages, k) \in [States -> Nat]
      BY <1>4, TallyCounts DEF ShardInv, CountsExact
<1>9. {"INSERT", "DELETE", "UPDATE"} = Branches
      BY DEF Branches
<1>10. \A s \in States : Done(t, op, k, s) = 0
      BY <1>2, <1>3, <1>4 DEF Done, Pending
<1>11. \A s \in States :
         t.changed[k][s] = Done(t, "INSERT", k, s) + Done(t, "DELETE", k, s) + Done(t, "UPDATE", k, s)
      BY <1>4, <1>5 DEF StatementInv, Progress
<1>12. \A s \in States, o \in Branches :
         Done(t, o, k, s) \in Int /\ (Done(t, o, k, s) = 0 \/ Done(t, o, k, s) = Delta(t, o, k)[s])
      BY <1>7 DEF Done
<1>13. ASSUME NEW s \in States PROVE Adjusted(c, k)[s] >= 0
      <2>1. Adjusted(c, k)[s] = Tally(Messages, k)[s] + t.changed[k][s] + Delta(t, op, k)[s]
            BY <1>1, <1>2, <1>8 DEF Adjusted, Plus, Branch
      <2>2. PICK f \in [Branches -> Int] :
              \A o \in Branches : f[o] = IF o = op THEN Delta(t, op, k)[s] ELSE Done(t, o, k, s)
            <3>1. PICK f : f = [o \in Branches |-> IF o = op THEN Delta(t, op, k)[s] ELSE Done(t, o, k, s)]
                  OBVIOUS
            <3> QED BY <1>4, <1>7, <1>12, <3>1
      <2>3. \A o \in Branches : f[o] \in Int /\ (f[o] = 0 \/ f[o] = Delta(t, o, k)[s])
            BY <1>12, <2>2
      <2>4. Tally(Messages, k)[s] + (f["INSERT"] + f["DELETE"] + f["UPDATE"]) >= 0
            BY <1>4, <1>5, <1>6, <1>9, <2>3, ChangeBounded
      <2>5. f["INSERT"] + f["DELETE"] + f["UPDATE"] = t.changed[k][s] + Delta(t, op, k)[s]
            <3>1. op = "INSERT" \/ op = "DELETE" \/ op = "UPDATE"
                  BY <1>4, <1>9
            <3>2. Delta(t, op, k)[s] \in Int
                  BY <1>4, <1>7
            <3> QED BY <1>9, <1>10, <1>11, <1>12, <2>2, <3>1, <3>2
      <2>6. Tally(Messages, k)[s] \in Int /\ t.changed[k][s] \in Int /\ Delta(t, op, k)[s] \in Int
            BY <1>4, <1>6, <1>7, <1>8
      <2> QED BY <2>1, <2>4, <2>5, <2>6
<1>14. ASSUME count[k] = None, ~ Holds(c, k), NEW s \in States
       PROVE  Delta(t, op, k)[s] >= 0
      <2>1. Adjusted(c, k)[s] = Stored(k)[s] + t.changed[k][s] + Delta(t, op, k)[s]
            BY <1>1, <1>2 DEF Adjusted, Plus, Branch
      <2>2. Stored(k)[s] = 0 /\ t.changed[k][s] = 0
            BY <1>1, <1>14 DEF Stored, Holds, Zero
      <2>3. Delta(t, op, k)[s] \in Int
            BY <1>4, <1>7
      <2> QED BY <1>13, <2>1, <2>2, <2>3
<1>15. Decrements(c, k) => Holds(c, k) \/ count[k] # None
      <2> SUFFICES ASSUME Decrements(c, k), ~ Holds(c, k), count[k] = None PROVE FALSE
          OBVIOUS
      <2>1. PICK s \in States : Delta(t, op, k)[s] < 0
            BY <1>1, <1>2 DEF Decrements, Branch
      <2>2. Delta(t, op, k)[s] \in Int /\ Delta(t, op, k)[s] >= 0
            BY <1>4, <1>7, <1>14
      <2> QED BY <2>1, <2>2
<1> QED BY <1>13, <1>15

\* Neither of the trigger's two errors, a decrement of a missing row and a count
\* below zero, is ever raised by an operation on the messages.
THEOREM RollupLocksDecrementsSucceed == Spec => []DecrementsSucceed
<1>1. ShardInv => DecrementsSucceed
      BY NextAdjustment DEF DecrementsSucceed
<1> QED BY <1>1, ShardInvariant, PTL

LEMMA GreatestElement ==
  ASSUME NEW K \in SUBSET Nat, IsFiniteSet(K), K # {}
  PROVE  \E k \in K : \A j \in K : j <= k
<1> DEFINE From(k) == {j \in K : k <= j}
           N == {Cardinality(From(k)) : k \in K}
<1>1. \A k \in K : From(k) \in SUBSET K /\ IsFiniteSet(From(k)) /\ Cardinality(From(k)) \in Nat
      BY FS_Subset, FS_CardinalityType
<1>2. N \subseteq Nat /\ N # {}
      BY <1>1
<1>3. PICK n \in N : \A i \in N : <<i, n>> \notin OpToRel(<, Nat)
      <2> HIDE DEF N
      <2> QED BY <1>2, NatLessThanWellFounded, WFMin
<1>4. \A i \in N : ~ (i < n)
      BY <1>2, <1>3 DEF OpToRel
<1>5. PICK k \in K : n = Cardinality(From(k))
      OBVIOUS
<1>6. ASSUME NEW j \in K, k < j PROVE FALSE
      <2>0. \A i \in K : i \in Nat
            OBVIOUS
      <2>1. From(j) \in SUBSET From(k) /\ k \in From(k) /\ k \notin From(j)
            <3>1. k <= k /\ ~ (j <= k) /\ \A i \in K : j <= i => k <= i
                  BY <1>6, <2>0
            <3> QED BY <3>1
      <2>2. /\ IsFiniteSet(From(k)) /\ Cardinality(From(j)) \in Nat /\ Cardinality(From(k)) \in Nat
            /\ Cardinality(From(j)) \in N
            BY <1>1
      <2> HIDE DEF From, N
      <2>3. Cardinality(From(j)) <= Cardinality(From(k)) /\ Cardinality(From(j)) # Cardinality(From(k))
            BY <2>1, <2>2, FS_Subset
      <2> QED BY <1>4, <1>5, <2>2, <2>3
<1> QED BY <1>6

\* Of the slots at which the statements of a circle wait, the greatest is held by
\* one that waits further up.
LEMMA NoCircle ==
  ASSUME ShardInv, NEW S \in SUBSET Callers, \A c \in S : OneBatch(c), Deadlocked(S)
  PROVE  FALSE
<1> DEFINE K == {k \in Slots : \E c \in S, d \in S : k \in Next1(c) /\ Holds(d, k)}
<1>1. ASSUME NEW c \in S
      PROVE  Adjusting(c) /\ \E k \in K : k \in Next1(c)
      <2>1. PICK d \in S : WaitsFor(c, d)
            BY DEF Deadlocked
      <2>2. PICK k \in Next1(c) : Holds(d, k)
            BY <2>1 DEF WaitsFor
      <2>3. Adjusting(c)
            BY <2>1 DEF WaitsFor
      <2>4. PICK t \in Transaction : t = txn[c]
            BY DEF ShardInv, TypeOK
      <2>5. Head(t.batches) \in Batch
            BY <2>3, <2>4 DEF Adjusting, Transaction
      <2>6. k \in Slots
            BY <2>4, <2>5 DEF Next1, NextSlots, Branch, Batch
      <2> QED BY <2>2, <2>3, <2>6
<1>2. K \in SUBSET Nat /\ IsFiniteSet(K) /\ K # {}
      <2>1. K \in SUBSET Slots
            OBVIOUS
      <2>2. K # {}
            BY <1>1 DEF Deadlocked
      <2> HIDE DEF K
      <2> QED BY <2>1, <2>2, SlotsAssumption, FS_Subset
<1>3. PICK k \in K : \A j \in K : j <= k
      <2> HIDE DEF K
      <2> QED BY <1>2, GreatestElement
<1>4. PICK d \in S : Holds(d, k)
      OBVIOUS
<1>5. PICK j \in K : j \in Next1(d)
      BY <1>1
<1>6. k < j
      <2>1. PICK t \in Transaction : t = txn[d]
            BY DEF ShardInv, TypeOK
      <2>2. t.batches \in Seq(Batch) /\ t.batches # <<>>
            BY <1>1, <2>1 DEF Adjusting, Transaction
      <2>3. 1 \in DOMAIN t.batches /\ Head(t.batches) = t.batches[1]
            BY <2>2
      <2>4. j \in t.batches[1].slots
            BY <1>5, <2>1, <2>3 DEF Next1, NextSlots, Branch
      <2>5. Ascending(t) /\ (t.removed = {} \/ Moved(t.leased) = {})
            BY <2>1 DEF ShardInv, StatementInv, OneBatch
      <2>6. t.changed[k] # Zero /\ k \in Slots
            BY <1>4, <2>1 DEF Holds
      <2> QED BY <2>3, <2>4, <2>5, <2>6 DEF Ascending
<1>7. k \in Nat /\ j \in Nat /\ j <= k
      BY <1>2, <1>3
<1> QED BY <1>6, <1>7

\* Statements whose trigger runs one branch, which goes up the shards' keys
\* (ORDER BY queue_id, priority, shard), never wait for each other in a circle.
THEOREM RollupLocksNeverDeadlock == Spec => []OrderedStatementsNeverDeadlock
<1>1. ShardInv => OrderedStatementsNeverDeadlock
      BY NoCircle DEF OrderedStatementsNeverDeadlock
<1> QED BY <1>1, ShardInvariant, PTL
=============================================================================
