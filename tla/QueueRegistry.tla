---------------------------- MODULE QueueRegistry ----------------------------
(***************************************************************************)
(* Table queue as the API's requests create and change it: the domain's    *)
(* validation in front of the table's own constraints, concurrent creates  *)
(* of one name, concurrent updates of some of a queue's settings, and the  *)
(* lifetime an enqueue takes from settings that may be out of date.  Each  *)
(* request is validated, runs one statement and is answered with an HTTP   *)
(* status.  Queues are never deleted or renamed.                           *)
(***************************************************************************)
EXTENDS Integers, Sequences

CONSTANTS
  Clients,        \* requests under way at a time
  Ids,            \* bound: the UUIDs of the queues
  Names,          \* the names asked for, as sequences of kinds of bytes
  Changes,        \* the settings requests give: each a value or None
  Lifetimes,      \* the lifetimes, in seconds, enqueues give of their own
  Priorities,     \* the ranks of the priorities asked for, 0 for any other text
  MaxNameLength,  \* 64 in the code
  None

Fields == {"visibility_timeout_seconds", "max_delivery_attempts", "default_message_ttl_seconds"}

ASSUME NamesAssumption == Names \subseteq Seq({"endpoint", "inner", "other"})
ASSUME ChangesAssumption == Changes \subseteq [Fields -> Nat \cup {None}]
ASSUME LifetimesAssumption == Lifetimes \subseteq Nat
ASSUME PrioritiesAssumption == Priorities \subseteq 0 .. 3
ASSUME LengthAssumption == MaxNameLength \in Nat
ASSUME NoneAssumption == None \notin Ids /\ None \notin Names /\ None \notin Nat

VARIABLES
  queue,  \* table queue: [Ids -> its name and settings, or None]
  call,   \* [Clients -> the request each one runs, or ran last, and its reply]
  asked,  \* history: [Ids -> what each setting was last changed to]
  ttls    \* history: [Ids -> every default lifetime a cache may still hold]

vars == <<queue, call, asked, ttls>>

Settings == [Fields -> Nat]

Nothing == [f \in Fields |-> None]

-----------------------------------------------------------------------------
(* The domain's rules.                                                     *)

Default == [visibility_timeout_seconds |-> 30, max_delivery_attempts |-> 5,
            default_message_ttl_seconds |-> 604800]

Maximum == [visibility_timeout_seconds |-> 21600, max_delivery_attempts |-> 100,
            default_message_ttl_seconds |-> 2592000]

\* Mutant: an exclusive range.
Valid_Exclusive(f, value) == value >= 1 /\ value < Maximum[f]

\* Mutant: the range of a u16 is taken for that of a SMALLINT.
Valid_AnyWidth(f, value) == value >= 1 /\ (f = "max_delivery_attempts" \/ value <= Maximum[f])

Valid(f, value) == value >= 1 /\ value <= Maximum[f]

\* QueueName::parse, over the kinds of its bytes.
ValidName(name) ==
  /\ Len(name) >= 1 /\ Len(name) <= MaxNameLength
  /\ name[1] = "endpoint"
  /\ name[Len(name)] = "endpoint"
  /\ \A i \in DOMAIN name : name[i] \in {"endpoint", "inner"}

WithDefaults(changes) ==
  [f \in Fields |-> IF changes[f] = None THEN Default[f] ELSE changes[f]]

ValidCreate(name, changes) ==
  ValidName(name) /\ \A f \in Fields : Valid(f, WithDefaults(changes)[f])

ValidUpdate(changes) ==
  /\ \E f \in Fields : changes[f] # None
  /\ \A f \in Fields : changes[f] # None => Valid(f, changes[f])

\* A message has a range for its lifetime of its own.
ValidMessage(rank, ttl) == rank # 0 /\ (ttl # None => ttl >= 1 /\ ttl <= 2592000)

-----------------------------------------------------------------------------
(* The tables' constraints.                                                *)

\* ^[a-z0-9]([a-z0-9._-]{0,62}[a-z0-9])?$ and its octet_length.
NameAllowed(name) ==
  /\ Len(name) \in 1 .. MaxNameLength
  /\ \/ name = <<"endpoint">>
     \/ \E n \in 0 .. MaxNameLength - 2 :
          /\ Len(name) = n + 2
          /\ Head(name) = "endpoint"
          /\ \A i \in 2 .. n + 1 : name[i] \in {"endpoint", "inner"}
          /\ name[n + 2] = "endpoint"

\* The CHECKs, and the columns' types.
CheckLimit == [visibility_timeout_seconds |-> 21600, max_delivery_attempts |-> 100,
               default_message_ttl_seconds |-> 2592000]

ColumnLimit == [visibility_timeout_seconds |-> 2147483647, max_delivery_attempts |-> 32767,
                default_message_ttl_seconds |-> 2147483647]

SettingAllowed(f, value) == value \in 1 .. CheckLimit[f] /\ value <= ColumnLimit[f]

\* CHECK (updated_at >= created_at) is left out: this module has no clock, and
\* no update can name an id before its create has been answered.
RowAllowed(row) ==
  NameAllowed(row.name) /\ \A f \in Fields : SettingAllowed(f, row.settings[f])

ThirtyDays == 30 * 24 * 3600

\* expires_at and priority of a new row of queue_message.
MessageAllowed(rank, lifetime) == rank \in 1 .. 3 /\ 0 < lifetime /\ lifetime <= ThirtyDays

-----------------------------------------------------------------------------
(* Requests.                                                               *)

Row == [name : Names, settings : Settings]

ASSUME NoRowAssumption == None \notin Row

\* row is what the statement is about to store, ttl and rank are a message's.
\* Of a request that was answered only the reply stays, and history: the name
\* that was taken, and whether the tables would have stored what was refused.
Call == [op : {"none", "create", "update", "enqueue"},
         step : {"idle", "sent", "written"},
         id : Ids \cup {None}, name : Names \cup {None}, changes : Changes \cup {Nothing},
         row : Row \cup {None}, rank : Priorities \cup {None},
         ttl : Nat \cup {None},
         reply : {"none", "ok", "invalid", "missing", "exists", "internal"},
         storable : BOOLEAN]

NoCall == [op |-> "none", step |-> "idle", id |-> None, name |-> None, changes |-> Nothing,
           row |-> None, rank |-> None, ttl |-> None, reply |-> "none", storable |-> FALSE]

Reply(c, reply) ==
  call' = [call EXCEPT ![c] =
    [NoCall EXCEPT !.reply = reply, !.name = IF reply = "exists" THEN call[c].name ELSE None]]

\* The request is refused by the domain, or goes on.
Accept(c, request, valid, storable) ==
  /\ call[c].step = "idle"
  /\ call' = [call EXCEPT ![c] =
       IF valid THEN [request EXCEPT !.step = "sent"]
       ELSE [NoCall EXCEPT !.reply = "invalid", !.storable = storable]]
  /\ UNCHANGED <<queue, asked, ttls>>

\* A fresh UUID, be the name valid or not.
Fresh(id) == queue[id] = None /\ \A d \in Clients : call[d].id # id

BeginCreate(c) ==
  \E id \in Ids, name \in Names, changes \in Changes :
    /\ Fresh(id)
    /\ Accept(c, [NoCall EXCEPT !.op = "create", !.id = id, !.name = name,
                    !.changes = changes],
              ValidCreate(name, changes),
              RowAllowed([name |-> name, settings |-> WithDefaults(changes)]))

BeginUpdate(c) ==
  \E id \in Ids, changes \in Changes :
    Accept(c, [NoCall EXCEPT !.op = "update", !.id = id, !.changes = changes],
           ValidUpdate(changes),
           /\ changes # Nothing
           /\ \A f \in Fields : changes[f] # None => SettingAllowed(f, changes[f]))

BeginEnqueue(c) ==
  \E id \in Ids, rank \in Priorities, ttl \in Lifetimes \cup {None} :
    Accept(c, [NoCall EXCEPT !.op = "enqueue", !.id = id, !.rank = rank, !.ttl = ttl],
           ValidMessage(rank, ttl),
           MessageAllowed(rank, IF ttl = None THEN 1 ELSE ttl))

Named(name) == {id \in Ids : queue[id] # None /\ queue[id].name = name}

Sent(c, op) == call[c].op = op /\ call[c].step = "sent"

Written(c, op) == call[c].op = op /\ call[c].step = "written"

\* Mutant: the name is looked up before the insert.
NameFree_CommittedOnly(c) == Named(call[c].name) = {}

\* No row has the name and no other transaction is inserting one.
NameFree(c) ==
  /\ Named(call[c].name) = {}
  /\ \A d \in Clients \ {c} : Written(d, "create") => call[d].name # call[c].name

\* ON CONFLICT (name) DO NOTHING waits for another insert of the name.
InsertQueue(c) ==
  /\ Sent(c, "create")
  /\ NameFree(c)
  /\ call' = [call EXCEPT ![c].step = "written",
       ![c].row = [name |-> call[c].name, settings |-> WithDefaults(call[c].changes)]]
  /\ UNCHANGED <<queue, asked, ttls>>

AlreadyExists(c) ==
  /\ Sent(c, "create")
  /\ Named(call[c].name) # {}
  /\ Reply(c, "exists")
  /\ UNCHANGED <<queue, asked, ttls>>

\* Mutant: SET max_delivery_attempts = $3, without COALESCE.
Coalesce_Overwrite(changes, settings) == changes

Coalesce(changes, settings) ==
  [f \in Fields |-> IF changes[f] = None THEN settings[f] ELSE changes[f]]

\* Mutant: the row is read without a lock before it is written.
Unlocked_Never(c) == TRUE

Unlocked(c) == \A d \in Clients \ {c} : Written(d, "update") => call[d].id # call[c].id

\* The statement waits for the row's lock and then takes its latest version.
WriteSettings(c) ==
  /\ Sent(c, "update")
  /\ queue[call[c].id] # None
  /\ Unlocked(c)
  /\ LET row == queue[call[c].id]
     IN  call' = [call EXCEPT ![c].step = "written",
           ![c].row = [row EXCEPT !.settings = Coalesce(call[c].changes, @)]]
  /\ UNCHANGED <<queue, asked, ttls>>

QueueNotFound(c) ==
  /\ Sent(c, "update")
  /\ queue[call[c].id] = None
  /\ Reply(c, "missing")
  /\ UNCHANGED <<queue, asked, ttls>>

\* The reply of a statement that was committed may still be lost.
Commit(c) ==
  LET id == call[c].id
      row == call[c].row
  IN  /\ Written(c, "create") \/ Written(c, "update")
      /\ queue' = [queue EXCEPT ![id] = row]
      /\ asked' = [asked EXCEPT ![id] =
           IF Written(c, "create") THEN row.settings ELSE Coalesce(call[c].changes, @)]
      /\ ttls' = [ttls EXCEPT ![id] = @ \cup {row.settings["default_message_ttl_seconds"]}]
      /\ \E reply \in {"ok", "internal"} : Reply(c, reply)

\* The effective lifetime is the message's own, or the default of details that
\* a cache may hold although an update has replaced them.
ResolveTtl(c) ==
  /\ Sent(c, "enqueue")
  /\ queue[call[c].id] # None
  /\ \E default \in ttls[call[c].id] :
       call' = [call EXCEPT ![c].step = "written",
                            ![c].ttl = IF @ = None THEN default ELSE @]
  /\ UNCHANGED <<queue, asked, ttls>>

\* There is no such queue, or a cache remembers that there was none.
EnqueueNotFound(c) ==
  /\ Sent(c, "enqueue")
  /\ Reply(c, "missing")
  /\ UNCHANGED <<queue, asked, ttls>>

EnqueueMessage(c) ==
  /\ Written(c, "enqueue")
  /\ Reply(c, "ok")
  /\ UNCHANGED <<queue, asked, ttls>>

\* The pool, the connection or the statement fails.
Fail(c) ==
  /\ call[c].step # "idle"
  /\ Reply(c, "internal")
  /\ UNCHANGED <<queue, asked, ttls>>

Init ==
  /\ queue = [id \in Ids |-> None]
  /\ call = [c \in Clients |-> NoCall]
  /\ asked = [id \in Ids |-> Nothing]
  /\ ttls = [id \in Ids |-> {}]

Next ==
  \E c \in Clients :
    \/ BeginCreate(c) \/ InsertQueue(c) \/ AlreadyExists(c)
    \/ BeginUpdate(c) \/ WriteSettings(c) \/ QueueNotFound(c)
    \/ Commit(c)
    \/ BeginEnqueue(c) \/ ResolveTtl(c) \/ EnqueueNotFound(c) \/ EnqueueMessage(c)
    \/ Fail(c)

Spec == Init /\ [][Next]_vars

-----------------------------------------------------------------------------
(* Properties. *)

TypeOK ==
  /\ queue \in [Ids -> Row \cup {None}]
  /\ call \in [Clients -> Call]
  /\ asked \in [Ids -> Settings \cup {Nothing}]
  /\ ttls \in [Ids -> SUBSET Nat]
  /\ \A id \in Ids : queue[id] = None <=> ttls[id] = {}

\* What the domain lets through, the tables' CHECKs accept and the columns can
\* hold, whatever updates were merged and whichever default lifetime was still
\* cached: no request fails for a value it should have been refused for.
NothingAcceptedInVain ==
  \A c \in Clients : call[c].step = "written" =>
    IF call[c].op = "enqueue" THEN MessageAllowed(call[c].rank, call[c].ttl)
    ELSE RowAllowed(call[c].row)

\* What is refused, the tables would not have accepted, or it asks for nothing:
\* the domain and the migrations draw every boundary at the same value.
NothingRefusedInVain ==
  \A c \in Clients : call[c].reply = "invalid" => ~ call[c].storable

\* Each setting is what the last update that named it made it, however updates
\* of other settings ran at the same time or failed.
NoUpdateLost == \A id \in Ids : queue[id] # None => queue[id].settings = asked[id]

\* No two queues get one name, and who is told that the name is taken did lose
\* it to a queue that exists, not to a create that failed.
OneQueuePerName ==
  /\ \A i, j \in Ids : queue[i] # None /\ queue[j] # None /\ queue[i].name = queue[j].name => i = j
  /\ \A c \in Clients : call[c].reply = "exists" => Named(call[c].name) # {}
=============================================================================
