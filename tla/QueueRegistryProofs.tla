------------------------- MODULE QueueRegistryProofs -------------------------
(***************************************************************************)
(* Proofs about table queue, for any number of concurrent requests, queues *)
(* and names.  A request decides what it will store before it commits; the *)
(* invariant says that what it saw is still so when it does.               *)
(***************************************************************************)
EXTENDS QueueRegistry, TLAPS

\* A request that was sent names a queue.
IdsGiven == \A c \in Clients : call[c].step # "idle" => call[c].id \in Ids

\* A create's UUID is nobody else's, and its queue is not there yet.
CreatesApart ==
  \A c \in Clients : call[c].op = "create" =>
    /\ call[c].id \in Ids /\ call[c].name \in Names
    /\ queue[call[c].id] = None
    /\ \A d \in Clients \ {c} : call[d].op = "create" => call[d].id # call[c].id

\* The name of a row that is being inserted is not taken, nor being inserted by
\* another request.
NamesReserved ==
  \A c \in Clients : Written(c, "create") =>
    /\ call[c].row \in Row /\ call[c].row.name = call[c].name
    /\ Named(call[c].name) = {}
    /\ \A d \in Clients \ {c} : Written(d, "create") => call[d].name # call[c].name

\* A row that is being updated is its updater's, and as it was read.
RowsReserved ==
  \A c \in Clients : Written(c, "update") =>
    /\ call[c].id \in Ids /\ queue[call[c].id] # None
    /\ call[c].row \in Row /\ call[c].row.name = queue[call[c].id].name
    /\ call[c].row.settings = Coalesce(call[c].changes, queue[call[c].id].settings)
    /\ \A d \in Clients \ {c} : Written(d, "update") => call[d].id # call[c].id

RegistryInv ==
  /\ TypeOK
  /\ IdsGiven
  /\ CreatesApart
  /\ NamesReserved
  /\ RowsReserved
  /\ NoUpdateLost
  /\ OneQueuePerName

LEMMA InitRegistry == Init => RegistryInv
  BY DEF Init, RegistryInv, TypeOK, IdsGiven, CreatesApart, NamesReserved, RowsReserved, NoUpdateLost,
     OneQueuePerName, Named, Written, NoCall, Call

LEMMA CoalesceType ==
  ASSUME NEW changes \in Changes \cup {Nothing}, NEW settings \in Settings
  PROVE  Coalesce(changes, settings) \in Settings /\ WithDefaults(changes) \in Settings
  BY ChangesAssumption DEF Coalesce, WithDefaults, Settings, Nothing, Default, Fields

-----------------------------------------------------------------------------
\* A step of one request that commits nothing.
LEMMA RequestKeeps ==
  ASSUME RegistryInv, NEW c \in Clients, UNCHANGED <<queue, asked, ttls>>,
         NEW r \in Call, call' = [call EXCEPT ![c] = r],
         r.step # "idle" => r.id \in Ids,
         r.op = "create" =>
           /\ r.id \in Ids /\ r.name \in Names /\ queue[r.id] = None
           /\ \A d \in Clients \ {c} : call[d].op = "create" => call[d].id # r.id,
         r.op = "create" /\ r.step = "written" =>
           /\ r.row \in Row /\ r.row.name = r.name /\ Named(r.name) = {}
           /\ \A d \in Clients \ {c} : Written(d, "create") => call[d].name # r.name,
         r.op = "update" /\ r.step = "written" =>
           /\ r.id \in Ids /\ queue[r.id] # None
           /\ r.row \in Row /\ r.row.name = queue[r.id].name
           /\ r.row.settings = Coalesce(r.changes, queue[r.id].settings)
           /\ \A d \in Clients \ {c} : Written(d, "update") => call[d].id # r.id,
         r.reply = "exists" => Named(r.name) # {}
  PROVE  RegistryInv'
  <1>0. call'[c] = r /\ \A d \in Clients \ {c} : call'[d] = call[d]
    BY DEF RegistryInv, TypeOK
  <1>1. TypeOK' /\ NoUpdateLost'
    BY DEF RegistryInv, TypeOK, NoUpdateLost
  <1>2. IdsGiven' /\ CreatesApart'
    BY <1>0 DEF RegistryInv, IdsGiven, CreatesApart
  <1>3. NamesReserved'
    BY <1>0 DEF RegistryInv, NamesReserved, Written, Named
  <1>4. RowsReserved'
    BY <1>0 DEF RegistryInv, RowsReserved, Written
  <1>5. OneQueuePerName'
    BY <1>0 DEF RegistryInv, OneQueuePerName, Named
  <1> QED
    BY <1>1, <1>2, <1>3, <1>4, <1>5 DEF RegistryInv

LEMMA ReplyKeeps ==
  ASSUME RegistryInv, NEW c \in Clients, UNCHANGED <<queue, asked, ttls>>,
         NEW reply \in {"ok", "missing", "exists", "internal"}, Reply(c, reply),
         reply = "exists" => call[c].name \in Names /\ Named(call[c].name) # {}
  PROVE  RegistryInv'
  <1> DEFINE r == [NoCall EXCEPT !.reply = reply, !.name = IF reply = "exists" THEN call[c].name ELSE None]
  <1>1. r \in Call /\ r.op = "none" /\ r.step = "idle" /\ r.reply = reply /\ (reply = "exists" => r.name = call[c].name)
    BY DEF NoCall, Call
  <1>2. call' = [call EXCEPT ![c] = r]
    BY DEF Reply
  <1> HIDE DEF r
  <1> QED
    BY <1>1, <1>2, RequestKeeps

LEMMA AcceptKeeps ==
  ASSUME RegistryInv, NEW c \in Clients, NEW request \in Call, NEW valid, NEW storable \in BOOLEAN,
         valid \in BOOLEAN, Accept(c, request, valid, storable),
         request.reply = "none", request.id \in Ids,
         request.op = "create" => request.name \in Names /\ Fresh(request.id)
  PROVE  RegistryInv'
  <1> DEFINE r == IF valid THEN [request EXCEPT !.step = "sent"]
                  ELSE [NoCall EXCEPT !.reply = "invalid", !.storable = storable]
  <1>1. r \in Call /\ r.reply # "exists" /\ r.step # "written"
        /\ (r.step # "idle" => r.id \in Ids)
        /\ (r.op = "create" => r.id = request.id /\ r.name = request.name /\ request.op = "create")
    BY DEF Call, NoCall
  <1>2. call' = [call EXCEPT ![c] = r] /\ UNCHANGED <<queue, asked, ttls>>
    BY DEF Accept
  <1> HIDE DEF r
  <1>3. r.op = "create" =>
          /\ r.id \in Ids /\ r.name \in Names /\ queue[r.id] = None
          /\ \A d \in Clients \ {c} : call[d].op = "create" => call[d].id # r.id
    BY <1>1 DEF Fresh
  <1> QED
    BY <1>1, <1>2, <1>3, RequestKeeps

LEMMA BeginKeeps ==
  ASSUME RegistryInv, NEW c \in Clients, BeginCreate(c) \/ BeginUpdate(c) \/ BeginEnqueue(c)
  PROVE  RegistryInv'
  <1>1. CASE BeginCreate(c)
    <2>1. PICK id \in Ids, name \in Names, changes \in Changes :
            /\ Fresh(id)
            /\ Accept(c, [NoCall EXCEPT !.op = "create", !.id = id, !.name = name, !.changes = changes],
                      ValidCreate(name, changes),
                      RowAllowed([name |-> name, settings |-> WithDefaults(changes)]))
      BY <1>1 DEF BeginCreate
    <2> DEFINE request == [NoCall EXCEPT !.op = "create", !.id = id, !.name = name, !.changes = changes]
    <2>2. request \in Call /\ request.reply = "none" /\ request.id = id /\ request.name = name
      BY DEF NoCall, Call
    <2>3. ValidCreate(name, changes) \in BOOLEAN
          /\ RowAllowed([name |-> name, settings |-> WithDefaults(changes)]) \in BOOLEAN
      BY DEF ValidCreate, RowAllowed
    <2> HIDE DEF request
    <2> QED
      BY <2>1, <2>2, <2>3, AcceptKeeps DEF request
  <1>2. CASE BeginUpdate(c)
    <2>1. PICK id \in Ids, changes \in Changes :
            Accept(c, [NoCall EXCEPT !.op = "update", !.id = id, !.changes = changes],
                   ValidUpdate(changes),
                   /\ changes # Nothing
                   /\ \A f \in Fields : changes[f] # None => SettingAllowed(f, changes[f]))
      BY <1>2 DEF BeginUpdate
    <2> DEFINE request == [NoCall EXCEPT !.op = "update", !.id = id, !.changes = changes]
    <2>2. request \in Call /\ request.reply = "none" /\ request.id = id /\ request.op = "update"
      BY DEF NoCall, Call
    <2>3. ValidUpdate(changes) \in BOOLEAN
      BY DEF ValidUpdate
    <2> HIDE DEF request
    <2> QED
      BY <2>1, <2>2, <2>3, AcceptKeeps DEF request
  <1>3. CASE BeginEnqueue(c)
    <2>1. PICK id \in Ids, rank \in Priorities, ttl \in Lifetimes \cup {None} :
            Accept(c, [NoCall EXCEPT !.op = "enqueue", !.id = id, !.rank = rank, !.ttl = ttl],
                   ValidMessage(rank, ttl),
                   MessageAllowed(rank, IF ttl = None THEN 1 ELSE ttl))
      BY <1>3 DEF BeginEnqueue
    <2> DEFINE request == [NoCall EXCEPT !.op = "enqueue", !.id = id, !.rank = rank, !.ttl = ttl]
    <2>2. request \in Call /\ request.reply = "none" /\ request.id = id /\ request.op = "enqueue"
      BY LifetimesAssumption DEF NoCall, Call
    <2>3. ValidMessage(rank, ttl) \in BOOLEAN /\ MessageAllowed(rank, IF ttl = None THEN 1 ELSE ttl) \in BOOLEAN
      BY DEF ValidMessage, MessageAllowed
    <2> HIDE DEF request
    <2> QED
      BY <2>1, <2>2, <2>3, AcceptKeeps DEF request
  <1> QED
    BY <1>1, <1>2, <1>3

LEMMA InsertQueueKeeps ==
  ASSUME RegistryInv, NEW c \in Clients, InsertQueue(c)
  PROVE  RegistryInv'
  <1> DEFINE row == [name |-> call[c].name, settings |-> WithDefaults(call[c].changes)]
             r == [call[c] EXCEPT !.step = "written", !.row = row]
  <1>1. /\ call[c] \in Call /\ call[c].op = "create" /\ call[c].id \in Ids /\ call[c].name \in Names
        /\ queue[call[c].id] = None
        /\ \A d \in Clients \ {c} : call[d].op = "create" => call[d].id # call[c].id
    BY DEF RegistryInv, TypeOK, CreatesApart, InsertQueue, Sent
  <1>2. row \in Row
    BY <1>1, CoalesceType, ChangesAssumption DEF Row, Call, WithDefaults, Settings, Default, Fields, Nothing
  <1> HIDE DEF row
  <1>3. /\ r \in Call /\ r.op = "create" /\ r.id = call[c].id /\ r.name = call[c].name
        /\ r.row = row /\ r.reply = call[c].reply
    BY <1>1, <1>2 DEF Call
  <1>4. call' = [call EXCEPT ![c] = r] /\ UNCHANGED <<queue, asked, ttls>>
    BY <1>1 DEF InsertQueue, row, RegistryInv, TypeOK
  <1>5. row.name = call[c].name /\ Named(call[c].name) = {}
        /\ \A d \in Clients \ {c} : Written(d, "create") => call[d].name # call[c].name
    BY DEF InsertQueue, NameFree, row
  <1>6. r.reply = "exists" => Named(r.name) # {}
    BY <1>3 DEF RegistryInv, OneQueuePerName
  <1> HIDE DEF r
  <1> QED
    BY <1>1, <1>2, <1>3, <1>4, <1>5, <1>6, RequestKeeps

LEMMA WriteSettingsKeeps ==
  ASSUME RegistryInv, NEW c \in Clients, WriteSettings(c)
  PROVE  RegistryInv'
  <1> DEFINE old == queue[call[c].id]
             row == [old EXCEPT !.settings = Coalesce(call[c].changes, @)]
             r == [call[c] EXCEPT !.step = "written", !.row = row]
  <1>1. call[c] \in Call /\ call[c].op = "update" /\ call[c].id \in Ids /\ old \in Row /\ old # None
    BY DEF RegistryInv, TypeOK, IdsGiven, WriteSettings, Sent
  <1>2. row \in Row /\ row.name = old.name /\ row.settings = Coalesce(call[c].changes, old.settings)
    BY <1>1, CoalesceType DEF Row, Call
  <1>3. call' = [call EXCEPT ![c] = r] /\ UNCHANGED <<queue, asked, ttls>>
    BY <1>1 DEF WriteSettings, RegistryInv, TypeOK
  <1>4. \A d \in Clients \ {c} : Written(d, "update") => call[d].id # call[c].id
    BY DEF WriteSettings, Unlocked
  <1> HIDE DEF row
  <1>5. /\ r \in Call /\ r.op = "update" /\ r.id = call[c].id /\ r.name = call[c].name
        /\ r.row = row /\ r.reply = call[c].reply /\ r.changes = call[c].changes
    BY <1>1, <1>2 DEF Call
  <1>6. r.reply = "exists" => Named(r.name) # {}
    BY <1>5 DEF RegistryInv, OneQueuePerName
  <1> HIDE DEF r, old
  <1> QED
    BY <1>1, <1>2, <1>3, <1>4, <1>5, <1>6, RequestKeeps DEF old

LEMMA ResolveTtlKeeps ==
  ASSUME RegistryInv, NEW c \in Clients, ResolveTtl(c)
  PROVE  RegistryInv'
  <1>1. PICK default \in ttls[call[c].id] :
          call' = [call EXCEPT ![c].step = "written", ![c].ttl = IF @ = None THEN default ELSE @]
    BY DEF ResolveTtl
  <1> DEFINE r == [call[c] EXCEPT !.step = "written", !.ttl = IF @ = None THEN default ELSE @]
  <1>2. call[c] \in Call /\ call[c].op = "enqueue" /\ call[c].id \in Ids /\ default \in Nat
    BY DEF RegistryInv, TypeOK, IdsGiven, ResolveTtl, Sent
  <1>3. call' = [call EXCEPT ![c] = r] /\ UNCHANGED <<queue, asked, ttls>>
    BY <1>1, <1>2 DEF ResolveTtl, RegistryInv, TypeOK
  <1>4. /\ r \in Call /\ r.op = "enqueue" /\ r.id = call[c].id /\ r.name = call[c].name /\ r.reply = call[c].reply
    BY <1>2 DEF Call
  <1>5. r.reply = "exists" => Named(r.name) # {}
    BY <1>4 DEF RegistryInv, OneQueuePerName
  <1> HIDE DEF r
  <1> QED
    BY <1>2, <1>3, <1>4, <1>5, RequestKeeps

LEMMA EnqueueKeeps ==
  ASSUME RegistryInv, NEW c \in Clients,
         EnqueueNotFound(c) \/ EnqueueMessage(c) \/ QueueNotFound(c) \/ AlreadyExists(c) \/ Fail(c)
  PROVE  RegistryInv'
  <1>1. CASE AlreadyExists(c)
    <2>1. call[c].name \in Names
      BY <1>1 DEF RegistryInv, CreatesApart, AlreadyExists, Sent
    <2> QED
      BY <1>1, <2>1, ReplyKeeps DEF AlreadyExists
  <1>2. CASE EnqueueNotFound(c) \/ EnqueueMessage(c) \/ QueueNotFound(c) \/ Fail(c)
    BY <1>2, ReplyKeeps DEF EnqueueNotFound, EnqueueMessage, QueueNotFound, Fail
  <1> QED
    BY <1>1, <1>2

\* The row becomes what was written; the others' rows and names are not touched.
LEMMA CommitKeeps ==
  ASSUME RegistryInv, NEW c \in Clients, Commit(c)
  PROVE  RegistryInv'
  <1> DEFINE id == call[c].id
             row == call[c].row
  <1>1. /\ call[c] \in Call /\ id \in Ids /\ row \in Row /\ row # None
        /\ row.settings \in Settings /\ row.name \in Names
        /\ Written(c, "create") \/ Written(c, "update")
    BY NoRowAssumption DEF RegistryInv, TypeOK, IdsGiven, NamesReserved, RowsReserved, Commit, Written, Row
  <1>2. PICK reply \in {"ok", "internal"} : Reply(c, reply)
    BY DEF Commit
  <1> DEFINE r == [NoCall EXCEPT !.reply = reply, !.name = None]
  <1>3. r \in Call /\ r.op = "none" /\ r.step = "idle" /\ r.reply # "exists"
    BY DEF NoCall, Call
  <1>4. call' = [call EXCEPT ![c] = r]
    BY <1>2 DEF Reply
  <1> HIDE DEF r
  <1>5. call'[c] = r /\ \A d \in Clients \ {c} : call'[d] = call[d]
    BY <1>4 DEF RegistryInv, TypeOK
  <1>6. /\ queue' = [queue EXCEPT ![id] = row] /\ queue'[id] = row
        /\ \A i \in Ids \ {id} : queue'[i] = queue[i]
        /\ asked' = [asked EXCEPT ![id] = IF Written(c, "create") THEN row.settings ELSE Coalesce(call[c].changes, @)]
        /\ ttls' = [ttls EXCEPT ![id] = @ \cup {row.settings["default_message_ttl_seconds"]}]
    BY <1>1 DEF RegistryInv, TypeOK, Commit
  <1>7. asked' = [asked EXCEPT ![id] = row.settings]
    <2>1. CASE Written(c, "create")
      BY <1>6, <2>1
    <2>2. CASE Written(c, "update")
      <3>1. row.settings = Coalesce(call[c].changes, asked[id]) /\ ~ Written(c, "create")
        BY <2>2 DEF RegistryInv, RowsReserved, NoUpdateLost, Written
      <3> QED
        BY <1>6, <3>1
    <2> QED
      BY <1>1, <2>1, <2>2
  <1>8. \A d \in Clients \ {c} : call[d].op = "create" => call[d].id # id
    BY <1>1 DEF RegistryInv, CreatesApart, RowsReserved, Written
  <1>9. \A d \in Clients \ {c} : Written(d, "update") => call[d].id # id
    BY <1>1 DEF RegistryInv, CreatesApart, RowsReserved, Written
  <1>10. \A i \in Ids : queue[i] # None => queue'[i] # None /\ queue'[i].name = queue[i].name
    BY <1>1, <1>6 DEF RegistryInv, CreatesApart, RowsReserved, Written
  <1>11. TypeOK'
    <2>1. queue' \in [Ids -> Row \cup {None}] /\ call' \in [Clients -> Call]
      BY <1>1, <1>3, <1>4, <1>6 DEF RegistryInv, TypeOK
    <2>2. asked' \in [Ids -> Settings \cup {Nothing}]
      BY <1>1, <1>7 DEF RegistryInv, TypeOK
    <2>3. row.settings["default_message_ttl_seconds"] \in Nat
      BY <1>1 DEF Settings, Fields
    <2>4. ttls' \in [Ids -> SUBSET Nat] /\ \A i \in Ids : queue'[i] = None <=> ttls'[i] = {}
      <3>1. /\ ttls'[id] = ttls[id] \cup {row.settings["default_message_ttl_seconds"]}
            /\ \A i \in Ids \ {id} : ttls'[i] = ttls[i]
        BY <1>1, <1>6 DEF RegistryInv, TypeOK
      <3> QED
        BY <1>1, <1>6, <2>3, <3>1 DEF RegistryInv, TypeOK
    <2> QED
      BY <2>1, <2>2, <2>4 DEF TypeOK
  <1>12. IdsGiven'
    BY <1>3, <1>5 DEF RegistryInv, IdsGiven
  <1>13. CreatesApart'
    BY <1>3, <1>5, <1>6, <1>8 DEF RegistryInv, CreatesApart
  <1>14. NamesReserved'
    <2> SUFFICES ASSUME NEW d \in Clients, Written(d, "create")'
                 PROVE  /\ (call[d].row \in Row /\ call[d].row.name = call[d].name)'
                        /\ Named(call[d].name)' = {}
                        /\ \A e \in Clients \ {d} : Written(e, "create")' => call'[e].name # call'[d].name
      BY DEF NamesReserved
    <2>1. d # c /\ Written(d, "create") /\ call'[d] = call[d]
      BY <1>3, <1>5 DEF Written
    <2>2. row.name # call[d].name
      BY <1>1, <2>1 DEF RegistryInv, NamesReserved, RowsReserved, Written, Named
    <2>3. Named(call[d].name)' = {}
      BY <1>6, <2>1, <2>2 DEF RegistryInv, NamesReserved, Named
    <2> QED
      BY <1>3, <1>5, <2>1, <2>3 DEF RegistryInv, NamesReserved, Written
  <1>15. RowsReserved'
    <2> SUFFICES ASSUME NEW d \in Clients, Written(d, "update")'
                 PROVE  /\ (call[d].id \in Ids /\ queue[call[d].id] # None)'
                        /\ (call[d].row \in Row /\ call[d].row.name = queue[call[d].id].name)'
                        /\ (call[d].row.settings = Coalesce(call[d].changes, queue[call[d].id].settings))'
                        /\ \A e \in Clients \ {d} : Written(e, "update")' => call'[e].id # call'[d].id
      BY DEF RowsReserved
    <2>1. d # c /\ Written(d, "update") /\ call'[d] = call[d]
      BY <1>3, <1>5 DEF Written
    <2>2. call[d].id \in Ids /\ queue'[call[d].id] = queue[call[d].id]
      BY <1>6, <1>9, <2>1 DEF RegistryInv, RowsReserved
    <2> QED
      BY <1>3, <1>5, <2>1, <2>2 DEF RegistryInv, RowsReserved, Written, Coalesce
  <1>16. NoUpdateLost'
    BY <1>1, <1>6, <1>7 DEF RegistryInv, NoUpdateLost, TypeOK
  <1>17. OneQueuePerName'
    <2>1. \A i \in Ids \ {id} : queue[i] # None => queue[i].name # row.name
      BY <1>1 DEF RegistryInv, NamesReserved, RowsReserved, OneQueuePerName, Written, Named
    <2>2. \A i, j \in Ids : queue'[i] # None /\ queue'[j] # None /\ queue'[i].name = queue'[j].name => i = j
      BY <1>6, <2>1 DEF RegistryInv, OneQueuePerName
    <2>3. ASSUME NEW d \in Clients, (call[d].reply = "exists")'
          PROVE  (Named(call[d].name) # {})'
      <3>1. d # c /\ call'[d] = call[d] /\ call[d].reply = "exists"
        BY <1>3, <1>5, <2>3
      <3>2. PICK i \in Ids : queue[i] # None /\ queue[i].name = call[d].name
        BY <3>1 DEF RegistryInv, OneQueuePerName, Named
      <3> QED
        BY <1>10, <3>1, <3>2 DEF Named
    <2> QED
      BY <2>2, <2>3 DEF OneQueuePerName, Named
  <1> QED
    BY <1>11, <1>12, <1>13, <1>14, <1>15, <1>16, <1>17 DEF RegistryInv

LEMMA NextKeeps == RegistryInv /\ [Next]_vars => RegistryInv'
  <1> SUFFICES ASSUME RegistryInv, [Next]_vars PROVE RegistryInv'
    OBVIOUS
  <1>1. CASE UNCHANGED vars
    BY <1>1 DEF vars, RegistryInv, TypeOK, IdsGiven, CreatesApart, NamesReserved, RowsReserved,
       NoUpdateLost, OneQueuePerName, Written, Named
  <1>2. CASE Next
    BY <1>2, BeginKeeps, InsertQueueKeeps, WriteSettingsKeeps, ResolveTtlKeeps, EnqueueKeeps,
       CommitKeeps DEF Next
  <1> QED
    BY <1>1, <1>2

-----------------------------------------------------------------------------
\* What a request saw when it decided what to store still holds when it commits.
THEOREM RegistryInvariant == Spec => []RegistryInv
  BY InitRegistry, NextKeeps, PTL DEF Spec

\* The variables keep their types; every queue has had a default lifetime.
THEOREM RegistryTypeCorrect == Spec => []TypeOK
  BY RegistryInvariant, PTL DEF RegistryInv

\* Concurrent updates of some of a queue's settings do not undo each other.
THEOREM UpdatesKept == Spec => []NoUpdateLost
  BY RegistryInvariant, PTL DEF RegistryInv

\* Concurrent creates of one name make one queue, and the conflict a client is
\* told of is real.
THEOREM NamesUnique == Spec => []OneQueuePerName
  BY RegistryInvariant, PTL DEF RegistryInv


-----------------------------------------------------------------------------
(* Two sets of rules, one language. *)

\* The domain's rule for names is the pattern of the table's CHECK.
LEMMA NameRulesAgree ==
  ASSUME NEW name \in Names
  PROVE  ValidName(name) <=> NameAllowed(name)
  <1>0. name \in Seq({"endpoint", "inner", "other"}) /\ Len(name) \in Nat /\ MaxNameLength \in Nat
    BY NamesAssumption, LengthAssumption
  <1>1. ASSUME ValidName(name) PROVE NameAllowed(name)
    <2>1. CASE Len(name) = 1
      <3>1. name = <<"endpoint">>
        BY <1>0, <1>1, <2>1 DEF ValidName
      <3> QED
        BY <1>0, <1>1, <2>1, <3>1 DEF ValidName, NameAllowed
    <2>2. CASE Len(name) # 1
      <3> DEFINE n == Len(name) - 2
      <3>0. Len(name) >= 2 /\ Len(name) <= MaxNameLength
        <4>1. Len(name) >= 1 /\ Len(name) <= MaxNameLength
          BY <1>1 DEF ValidName
        <4> QED
          BY <1>0, <2>2, <4>1
      <3>1. n \in 0 .. MaxNameLength - 2 /\ Len(name) = n + 2
        BY <1>0, <3>0
      <3>2. Head(name) = "endpoint" /\ name[n + 2] = "endpoint"
            /\ \A i \in 2 .. n + 1 : name[i] \in {"endpoint", "inner"}
        BY <1>0, <1>1, <2>2 DEF ValidName
      <3> HIDE DEF n
      <3>3. Len(name) \in 1 .. MaxNameLength
        BY <1>0, <3>0
      <3> QED
        BY <3>1, <3>2, <3>3 DEF NameAllowed
    <2> QED
      BY <2>1, <2>2
  <1>2. ASSUME NameAllowed(name) PROVE ValidName(name)
    <2>1. CASE name = <<"endpoint">>
      BY <1>0, <1>2, <2>1 DEF ValidName, NameAllowed
    <2>2. CASE name # <<"endpoint">>
      <3>1. PICK n \in 0 .. MaxNameLength - 2 :
              /\ Len(name) = n + 2
              /\ Head(name) = "endpoint"
              /\ \A i \in 2 .. n + 1 : name[i] \in {"endpoint", "inner"}
              /\ name[n + 2] = "endpoint"
        BY <1>2, <2>2 DEF NameAllowed
      <3> QED
        BY <1>0, <1>2, <3>1 DEF ValidName, NameAllowed
    <2> QED
      BY <2>1, <2>2
  <1> QED
    BY <1>1, <1>2

\* The domain's ranges are those of the CHECKs, and within the columns' types.
LEMMA RangesAgree ==
  ASSUME NEW f \in Fields, NEW value \in Nat
  PROVE  Valid(f, value) <=> SettingAllowed(f, value)
  BY DEF Fields, Valid, Maximum, SettingAllowed, CheckLimit, ColumnLimit

LEMMA MessageRulesAgree ==
  ASSUME NEW rank \in Priorities, NEW ttl \in Nat
  PROVE  ValidMessage(rank, ttl) <=> MessageAllowed(rank, ttl)
  BY PrioritiesAssumption, NoneAssumption DEF ValidMessage, MessageAllowed, ThirtyDays


\* A request goes on only with what the tables accept, is refused only what they
\* would not, and what the table holds of settings is within the ranges.
RulesInv ==
  /\ NothingAcceptedInVain
  /\ NothingRefusedInVain
  /\ \A c \in Clients :
       /\ call[c].op = "create" => ValidCreate(call[c].name, call[c].changes)
       /\ call[c].op = "update" => ValidUpdate(call[c].changes)
       /\ Sent(c, "enqueue") => /\ call[c].rank \in Priorities
                                /\ ValidMessage(call[c].rank, call[c].ttl)
                                /\ call[c].ttl # None => call[c].ttl \in Nat
  /\ \A id \in Ids : /\ queue[id] # None => RowAllowed(queue[id])
                     /\ \A ttl \in ttls[id] : SettingAllowed("default_message_ttl_seconds", ttl)

LEMMA InitRules == Init => RulesInv
  BY DEF Init, RulesInv, NothingAcceptedInVain, NothingRefusedInVain, NoCall, Sent

LEMMA CreateRulesAgree ==
  ASSUME NEW name \in Names, NEW changes \in Changes
  PROVE  ValidCreate(name, changes) <=>
           RowAllowed([name |-> name, settings |-> WithDefaults(changes)])
  <1>1. \A f \in Fields : WithDefaults(changes)[f] \in Nat
    BY ChangesAssumption DEF WithDefaults, Default, Fields
  <1> QED
    BY <1>1, NameRulesAgree, RangesAgree DEF ValidCreate, RowAllowed

LEMMA UpdateRulesAgree ==
  ASSUME NEW changes \in Changes
  PROVE  ValidUpdate(changes) <=>
           /\ changes # Nothing
           /\ \A f \in Fields : changes[f] # None => SettingAllowed(f, changes[f])
  <1>1. changes \in [Fields -> Nat \cup {None}]
    BY ChangesAssumption
  <1>2. changes # Nothing <=> \E f \in Fields : changes[f] # None
    BY <1>1 DEF Nothing
  <1>3. \A f \in Fields : changes[f] # None => (Valid(f, changes[f]) <=> SettingAllowed(f, changes[f]))
    BY <1>1, RangesAgree
  <1> QED
    BY <1>2, <1>3 DEF ValidUpdate

\* The state of one request changes, and nothing is committed.
LEMMA RulesOfRequest ==
  ASSUME RulesInv, RegistryInv, NEW c \in Clients, UNCHANGED <<queue, asked, ttls>>,
         NEW r \in Call, call' = [call EXCEPT ![c] = r],
         r.op = "create" => ValidCreate(r.name, r.changes),
         r.op = "update" => ValidUpdate(r.changes),
         r.op = "enqueue" /\ r.step = "sent" =>
           r.rank \in Priorities /\ ValidMessage(r.rank, r.ttl) /\ (r.ttl # None => r.ttl \in Nat),
         r.step = "written" => IF r.op = "enqueue" THEN MessageAllowed(r.rank, r.ttl) ELSE RowAllowed(r.row),
         r.reply = "invalid" => ~ r.storable
  PROVE  RulesInv'
  <1>0. call'[c] = r /\ \A d \in Clients \ {c} : call'[d] = call[d]
    BY DEF RegistryInv, TypeOK
  <1>1. NothingAcceptedInVain' /\ NothingRefusedInVain'
    BY <1>0 DEF RulesInv, NothingAcceptedInVain, NothingRefusedInVain
  <1> QED
    BY <1>0, <1>1 DEF RulesInv, Sent

LEMMA RulesOfReply ==
  ASSUME RulesInv, RegistryInv, NEW c \in Clients, UNCHANGED <<queue, asked, ttls>>,
         NEW reply \in {"ok", "missing", "exists", "internal"}, Reply(c, reply),
         reply = "exists" => call[c].name \in Names
  PROVE  RulesInv'
  <1> DEFINE r == [NoCall EXCEPT !.reply = reply, !.name = IF reply = "exists" THEN call[c].name ELSE None]
  <1>1. r \in Call /\ r.op = "none" /\ r.step = "idle" /\ r.reply = reply
    BY DEF NoCall, Call
  <1>2. call' = [call EXCEPT ![c] = r]
    BY DEF Reply
  <1> HIDE DEF r
  <1> QED
    BY <1>1, <1>2, RulesOfRequest

LEMMA RulesOfAccept ==
  ASSUME RulesInv, RegistryInv, NEW c \in Clients, NEW request \in Call, NEW valid, NEW storable \in BOOLEAN,
         valid \in BOOLEAN, Accept(c, request, valid, storable), valid <=> storable,
         request.reply = "none",
         valid => /\ request.op = "create" => ValidCreate(request.name, request.changes)
                  /\ request.op = "update" => ValidUpdate(request.changes)
                  /\ request.op = "enqueue" =>
                       /\ request.rank \in Priorities /\ ValidMessage(request.rank, request.ttl)
                       /\ request.ttl # None => request.ttl \in Nat
  PROVE  RulesInv'
  <1>1. CASE valid
    <2> DEFINE r == [request EXCEPT !.step = "sent"]
    <2>1. /\ r \in Call /\ r.reply = "none" /\ r.step = "sent" /\ r.op = request.op /\ r.name = request.name
          /\ r.changes = request.changes /\ r.rank = request.rank /\ r.ttl = request.ttl
      BY DEF Call
    <2>2. call' = [call EXCEPT ![c] = r] /\ UNCHANGED <<queue, asked, ttls>>
      BY <1>1 DEF Accept
    <2> HIDE DEF r
    <2> QED
      BY <1>1, <2>1, <2>2, RulesOfRequest
  <1>2. CASE ~ valid
    <2> DEFINE r == [NoCall EXCEPT !.reply = "invalid", !.storable = storable]
    <2>1. r \in Call /\ r.op = "none" /\ r.step = "idle" /\ r.storable = storable
      BY DEF NoCall, Call
    <2>2. call' = [call EXCEPT ![c] = r] /\ UNCHANGED <<queue, asked, ttls>>
      BY <1>2 DEF Accept
    <2> HIDE DEF r
    <2> QED
      BY <1>2, <2>1, <2>2, RulesOfRequest
  <1> QED
    BY <1>1, <1>2

LEMMA RulesOfBegin ==
  ASSUME RulesInv, RegistryInv, NEW c \in Clients, BeginCreate(c) \/ BeginUpdate(c) \/ BeginEnqueue(c)
  PROVE  RulesInv'
  <1>1. CASE BeginCreate(c)
    <2>1. PICK id \in Ids, name \in Names, changes \in Changes :
            Accept(c, [NoCall EXCEPT !.op = "create", !.id = id, !.name = name, !.changes = changes],
                   ValidCreate(name, changes),
                   RowAllowed([name |-> name, settings |-> WithDefaults(changes)]))
      BY <1>1 DEF BeginCreate
    <2> DEFINE request == [NoCall EXCEPT !.op = "create", !.id = id, !.name = name, !.changes = changes]
    <2>2. /\ request \in Call /\ request.reply = "none" /\ request.op = "create"
          /\ request.name = name /\ request.changes = changes
      BY DEF NoCall, Call
    <2>3. ValidCreate(name, changes) \in BOOLEAN
          /\ RowAllowed([name |-> name, settings |-> WithDefaults(changes)]) \in BOOLEAN
      BY DEF ValidCreate, RowAllowed
    <2> HIDE DEF request
    <2> QED
      BY <2>1, <2>2, <2>3, RulesOfAccept, CreateRulesAgree DEF request
  <1>2. CASE BeginUpdate(c)
    <2>1. PICK id \in Ids, changes \in Changes :
            Accept(c, [NoCall EXCEPT !.op = "update", !.id = id, !.changes = changes],
                   ValidUpdate(changes),
                   /\ changes # Nothing
                   /\ \A f \in Fields : changes[f] # None => SettingAllowed(f, changes[f]))
      BY <1>2 DEF BeginUpdate
    <2> DEFINE request == [NoCall EXCEPT !.op = "update", !.id = id, !.changes = changes]
    <2>2. request \in Call /\ request.reply = "none" /\ request.op = "update" /\ request.changes = changes
      BY DEF NoCall, Call
    <2>3. ValidUpdate(changes) \in BOOLEAN
      BY DEF ValidUpdate
    <2> HIDE DEF request
    <2> QED
      BY <2>1, <2>2, <2>3, RulesOfAccept, UpdateRulesAgree DEF request
  <1>3. CASE BeginEnqueue(c)
    <2>1. PICK id \in Ids, rank \in Priorities, ttl \in Lifetimes \cup {None} :
            Accept(c, [NoCall EXCEPT !.op = "enqueue", !.id = id, !.rank = rank, !.ttl = ttl],
                   ValidMessage(rank, ttl),
                   MessageAllowed(rank, IF ttl = None THEN 1 ELSE ttl))
      BY <1>3 DEF BeginEnqueue
    <2> DEFINE request == [NoCall EXCEPT !.op = "enqueue", !.id = id, !.rank = rank, !.ttl = ttl]
    <2>2. /\ request \in Call /\ request.reply = "none" /\ request.op = "enqueue"
          /\ request.rank = rank /\ request.ttl = ttl /\ (ttl # None => ttl \in Nat)
      BY LifetimesAssumption DEF NoCall, Call
    <2>3. ValidMessage(rank, ttl) \in BOOLEAN /\ MessageAllowed(rank, IF ttl = None THEN 1 ELSE ttl) \in BOOLEAN
      BY DEF ValidMessage, MessageAllowed
    <2>4. ValidMessage(rank, ttl) <=> MessageAllowed(rank, IF ttl = None THEN 1 ELSE ttl)
      <3>1. CASE ttl = None
        <4>1. ValidMessage(rank, None) <=> ValidMessage(rank, 1)
          BY NoneAssumption DEF ValidMessage
        <4> QED
          BY <3>1, <4>1, MessageRulesAgree
      <3>2. CASE ttl # None
        BY <2>2, <3>2, MessageRulesAgree
      <3> QED
        BY <3>1, <3>2
    <2> HIDE DEF request
    <2> QED
      BY <2>1, <2>2, <2>3, <2>4, RulesOfAccept DEF request
  <1> QED
    BY <1>1, <1>2, <1>3

LEMMA RulesOfInsert ==
  ASSUME RulesInv, RegistryInv, NEW c \in Clients, InsertQueue(c)
  PROVE  RulesInv'
  <1> DEFINE row == [name |-> call[c].name, settings |-> WithDefaults(call[c].changes)]
             r == [call[c] EXCEPT !.step = "written", !.row = row]
  <1>1. /\ call[c] \in Call /\ call[c].op = "create" /\ call[c].name \in Names
        /\ ValidCreate(call[c].name, call[c].changes)
    BY DEF RulesInv, RegistryInv, TypeOK, CreatesApart, InsertQueue, Sent
  <1>2. call[c].changes \in Changes \cup {Nothing}
    BY <1>1 DEF Call
  <1>3. \A f \in Fields : WithDefaults(call[c].changes)[f] \in Nat
    BY <1>2, ChangesAssumption DEF WithDefaults, Default, Fields, Nothing
  <1>4. RowAllowed(row)
    BY <1>1, <1>3, NameRulesAgree, RangesAgree DEF ValidCreate, RowAllowed
  <1>5. row \in Row
    BY <1>1, <1>3 DEF Row, WithDefaults, Settings
  <1>6. call' = [call EXCEPT ![c] = r] /\ UNCHANGED <<queue, asked, ttls>>
    BY <1>1 DEF InsertQueue, RegistryInv, TypeOK
  <1> HIDE DEF row
  <1>7. /\ r \in Call /\ r.op = "create" /\ r.name = call[c].name /\ r.changes = call[c].changes
        /\ r.row = row /\ r.reply = call[c].reply /\ r.storable = call[c].storable
    BY <1>1, <1>5 DEF Call
  <1>8. r.reply = "invalid" => ~ r.storable
    BY <1>7 DEF RulesInv, NothingRefusedInVain
  <1> HIDE DEF r
  <1> QED
    BY <1>1, <1>4, <1>6, <1>7, <1>8, RulesOfRequest

\* Each setting of the new row is either what the table held or what was asked.
LEMMA RulesOfWrite ==
  ASSUME RulesInv, RegistryInv, NEW c \in Clients, WriteSettings(c)
  PROVE  RulesInv'
  <1> DEFINE old == queue[call[c].id]
             changes == call[c].changes
             row == [old EXCEPT !.settings = Coalesce(changes, @)]
             r == [call[c] EXCEPT !.step = "written", !.row = row]
  <1>1. /\ call[c] \in Call /\ call[c].op = "update" /\ call[c].id \in Ids /\ old \in Row /\ old # None
        /\ ValidUpdate(changes) /\ RowAllowed(old)
    BY DEF RulesInv, RegistryInv, TypeOK, IdsGiven, WriteSettings, Sent
  <1>2. changes \in Changes \cup {Nothing} /\ old.settings \in Settings
    BY <1>1 DEF Call, Row
  <1>3. row \in Row /\ row.name = old.name /\ row.settings = Coalesce(changes, old.settings)
    BY <1>1, <1>2, CoalesceType DEF Row
  <1>4. \A f \in Fields : SettingAllowed(f, row.settings[f])
    <2> TAKE f \in Fields
    <2>1. CASE changes[f] = None
      BY <1>1, <1>3, <2>1 DEF Coalesce, RowAllowed
    <2>2. CASE changes[f] # None
      <3>1. changes[f] \in Nat /\ Valid(f, changes[f])
        BY <1>1, <1>2, <2>2, ChangesAssumption DEF ValidUpdate, Nothing
      <3> QED
        BY <1>3, <2>2, <3>1, RangesAgree DEF Coalesce
    <2> QED
      BY <2>1, <2>2
  <1>5. RowAllowed(row)
    BY <1>1, <1>3, <1>4 DEF RowAllowed
  <1>6. call' = [call EXCEPT ![c] = r] /\ UNCHANGED <<queue, asked, ttls>>
    BY <1>1 DEF WriteSettings, RegistryInv, TypeOK
  <1> HIDE DEF row
  <1>7. /\ r \in Call /\ r.op = "update" /\ r.changes = changes /\ r.row = row
        /\ r.reply = call[c].reply /\ r.storable = call[c].storable
    BY <1>1, <1>3 DEF Call
  <1>8. r.reply = "invalid" => ~ r.storable
    BY <1>7 DEF RulesInv, NothingRefusedInVain
  <1> HIDE DEF r
  <1> QED
    BY <1>1, <1>5, <1>6, <1>7, <1>8, RulesOfRequest

LEMMA RulesOfResolve ==
  ASSUME RulesInv, RegistryInv, NEW c \in Clients, ResolveTtl(c)
  PROVE  RulesInv'
  <1>1. PICK default \in ttls[call[c].id] :
          call' = [call EXCEPT ![c].step = "written", ![c].ttl = IF @ = None THEN default ELSE @]
    BY DEF ResolveTtl
  <1> DEFINE ttl == IF call[c].ttl = None THEN default ELSE call[c].ttl
             r == [call[c] EXCEPT !.step = "written", !.ttl = ttl]
  <1>2. /\ call[c] \in Call /\ call[c].op = "enqueue" /\ call[c].id \in Ids /\ default \in Nat
        /\ call[c].rank \in Priorities /\ ValidMessage(call[c].rank, call[c].ttl)
        /\ call[c].ttl # None => call[c].ttl \in Nat
        /\ SettingAllowed("default_message_ttl_seconds", default)
    BY DEF RulesInv, RegistryInv, TypeOK, IdsGiven, ResolveTtl, Sent
  <1>3. MessageAllowed(call[c].rank, ttl)
    <2>1. CASE call[c].ttl = None
      <3>1. default >= 1 /\ default <= 2592000
        BY <1>2 DEF SettingAllowed, CheckLimit
      <3>2. ValidMessage(call[c].rank, default)
        BY <1>2, <3>1 DEF ValidMessage
      <3> QED
        BY <1>2, <2>1, <3>2, MessageRulesAgree
    <2>2. CASE call[c].ttl # None
      BY <1>2, <2>2, MessageRulesAgree
    <2> QED
      BY <2>1, <2>2
  <1>4. call' = [call EXCEPT ![c] = r] /\ UNCHANGED <<queue, asked, ttls>>
    BY <1>1, <1>2 DEF ResolveTtl, RegistryInv, TypeOK
  <1>5. ttl \in Nat
    BY <1>2
  <1> HIDE DEF ttl
  <1>6. /\ r \in Call /\ r.op = "enqueue" /\ r.step = "written" /\ r.rank = call[c].rank /\ r.ttl = ttl
        /\ r.reply = call[c].reply /\ r.storable = call[c].storable
    BY <1>2, <1>5 DEF Call
  <1>7. r.reply = "invalid" => ~ r.storable
    BY <1>6 DEF RulesInv, NothingRefusedInVain
  <1> HIDE DEF r
  <1> QED
    BY <1>3, <1>4, <1>6, <1>7, RulesOfRequest

LEMMA RulesOfCommit ==
  ASSUME RulesInv, RegistryInv, NEW c \in Clients, Commit(c)
  PROVE  RulesInv'
  <1> DEFINE id == call[c].id
             row == call[c].row
  <1>1. id \in Ids /\ row \in Row /\ RowAllowed(row)
    BY DEF RulesInv, RegistryInv, IdsGiven, NamesReserved, RowsReserved, NothingAcceptedInVain, Commit, Written
  <1>2. PICK reply \in {"ok", "internal"} : Reply(c, reply)
    BY DEF Commit
  <1> DEFINE r == [NoCall EXCEPT !.reply = reply, !.name = None]
  <1>3. r.op = "none" /\ r.step = "idle" /\ r.reply # "invalid"
    BY DEF NoCall
  <1>4. call' = [call EXCEPT ![c] = r]
    BY <1>2 DEF Reply
  <1> HIDE DEF r
  <1>5. call'[c] = r /\ \A d \in Clients \ {c} : call'[d] = call[d]
    BY <1>4 DEF RegistryInv, TypeOK
  <1>6. /\ queue'[id] = row /\ \A i \in Ids \ {id} : queue'[i] = queue[i]
        /\ ttls'[id] = ttls[id] \cup {row.settings["default_message_ttl_seconds"]}
        /\ \A i \in Ids \ {id} : ttls'[i] = ttls[i]
    BY <1>1 DEF RegistryInv, TypeOK, Commit
  <1>7. SettingAllowed("default_message_ttl_seconds", row.settings["default_message_ttl_seconds"])
    BY <1>1 DEF RowAllowed, Fields
  <1>8. NothingAcceptedInVain' /\ NothingRefusedInVain'
    BY <1>3, <1>5 DEF RulesInv, NothingAcceptedInVain, NothingRefusedInVain
  <1> QED
    BY <1>1, <1>3, <1>5, <1>6, <1>7, <1>8 DEF RulesInv, Sent

LEMMA RulesKept == RulesInv /\ RegistryInv /\ [Next]_vars => RulesInv'
  <1> SUFFICES ASSUME RulesInv, RegistryInv, [Next]_vars PROVE RulesInv'
    OBVIOUS
  <1>1. CASE UNCHANGED vars
    BY <1>1 DEF vars, RulesInv, NothingAcceptedInVain, NothingRefusedInVain, Sent
  <1>2. ASSUME NEW c \in Clients,
               AlreadyExists(c) \/ QueueNotFound(c) \/ EnqueueNotFound(c) \/ EnqueueMessage(c) \/ Fail(c)
        PROVE  RulesInv'
    <2>1. CASE AlreadyExists(c)
      <3>1. call[c].name \in Names
        BY <2>1 DEF RegistryInv, CreatesApart, AlreadyExists, Sent
      <3> QED
        BY <2>1, <3>1, RulesOfReply DEF AlreadyExists
    <2>2. CASE QueueNotFound(c) \/ EnqueueNotFound(c) \/ EnqueueMessage(c) \/ Fail(c)
      BY <2>2, RulesOfReply DEF QueueNotFound, EnqueueNotFound, EnqueueMessage, Fail
    <2> QED
      BY <1>2, <2>1, <2>2
  <1> QED
    BY <1>1, <1>2, RulesOfBegin, RulesOfInsert, RulesOfWrite, RulesOfResolve, RulesOfCommit DEF Next

\* Given the invariant of the rows, so are the rules kept.
THEOREM RulesInvariant == Spec => []RulesInv
  BY InitRules, RulesKept, RegistryInvariant, PTL DEF Spec

\* For every name, setting and lifetime: what the domain lets through the
\* tables' CHECKs accept and the columns can hold, merged updates and outdated
\* default lifetimes included.
THEOREM AcceptedIsStorable == Spec => []NothingAcceptedInVain
  BY RulesInvariant, PTL DEF RulesInv

\* The domain refuses only what the tables would have refused.
THEOREM RefusedIsNotStorable == Spec => []NothingRefusedInVain
  BY RulesInvariant, PTL DEF RulesInv

=============================================================================
