---------------------------- MODULE StoreHandler -----------------------------
(***************************************************************************)
(* The store service (service/store): reads, writes and deletes go to the  *)
(* database of the caller's namespace; the first use of a database and     *)
(* table notes both in the internal table, for Databases and Tables.       *)
(*                                                                         *)
(* That table is one of the default namespace's, whose callers can read    *)
(* and change it like any other.  A process that is restarted has          *)
(* forgotten which tables it has noted.  Every access to the store may     *)
(* fail.  A key has one value, names have neither colons nor slashes, and  *)
(* what a call is answered is left out.                                    *)
(***************************************************************************)
EXTENDS Naturals

CONSTANTS
  StoreNamespaces,   \* namespaces of the callers; NoName if the context has none
  NamedDatabases,    \* databases and tables that requests name
  NamedTables,
  StoreKeys,         \* keys of theirs
  NoName,            \* the empty string
  GoMicroNs,         \* "go.micro", "micro" and "internal"
  MicroDb,
  InternalTable,
  OptionsDatabase,   \* Options() of the store: Run sets the table, so that
  OptionsTable,      \* get always has one
  StoreCallers,      \* calls that may be in progress at the same time
  MaxStoreCalls,     \* bound on calls
  MaxStoreFaults,    \* bound on errors of the store
  MaxStoreRestarts   \* bound on restarts

ASSUME StoreAssumption ==
  /\ MaxStoreCalls \in Nat /\ MaxStoreFaults \in Nat /\ MaxStoreRestarts \in Nat
  /\ OptionsTable # NoName

Databases == (StoreNamespaces \ {GoMicroNs}) \cup NamedDatabases \cup {MicroDb, OptionsDatabase}
Tables == NamedTables \cup {OptionsTable, InternalTable}

\* The keys of the notes: "databases/" and "tables/".
DatabaseNote(database) == <<"databases", database>>
TableNote(pair) == <<"tables", pair[1], pair[2]>>
Notes(pair) == {DatabaseNote(pair[1]), TableNote(pair)}
NoteKeys == UNION {Notes(pair) : pair \in Databases \X Tables}
InternalPair == <<MicroDb, InternalTable>>

ASSUME StoreKeysAssumption == StoreKeys \cap NoteKeys = {}

VARIABLES
  data,           \* <<database, table, key>>: the records
  known,          \* Stores
  unnoted,        \* history: pairs for which New has failed, or whose notes a call of
                  \* a client has changed, since they were last noted
  storeCall,      \* each call: what it is about, and where it is
  storeCalls, storeFaults, storeRestarts

storeCounters == <<storeCalls, storeFaults, storeRestarts>>
storeVars == <<data, known, unnoted, storeCall, storeCounters>>

-----------------------------------------------------------------------------
(***************************************************************************)
(* get: the namespace, if there is one, is the database, whatever the      *)
(* request or its metadata say; what is not named is as in the options.    *)
(***************************************************************************)
get(req) ==
  LET ns == IF req.ns = GoMicroNs THEN MicroDb ELSE req.ns IN
    <<IF ns # NoName THEN ns ELSE IF req.database # NoName THEN req.database ELSE OptionsDatabase,
      IF req.table # NoName THEN req.table ELSE OptionsTable>>

\* What requests are about; the keys of notes are like others where they are not kept
\* or not changed.
StoreRequests ==
  {req \in [op : {"read", "write", "delete"},
            pair : {get(named) : named \in [ns : StoreNamespaces,
                                            database : NamedDatabases \cup {NoName},
                                            table : NamedTables \cup {NoName}]},
            key : StoreKeys \cup NoteKeys] :
     req.key \in StoreKeys \/ (req.pair = InternalPair /\ req.op # "read")}

NoCall == [at |-> "idle", op |-> "read", pair |-> InternalPair, key |-> DatabaseNote(MicroDb)]

Pair(c) == storeCall[c].pair
Where(c) == <<Pair(c)[1], Pair(c)[2], storeCall[c].key>>

Noted(key) == <<MicroDb, InternalTable, key>> \in data

\* Mutant: the table is not part of what is known.
KnownDatabase(pair) == \E other \in known : other[1] = pair[1]

Known(pair) == pair \in known

\* get holds the mutex while New writes.
StoreLocked == \E c \in StoreCallers : storeCall[c].at \in {"note database", "note table"}

StoreArrives(c, req) ==
  /\ storeCall[c].at = "idle" /\ ~StoreLocked
  /\ storeCalls < MaxStoreCalls /\ storeCalls' = storeCalls + 1
  /\ storeCall' = [storeCall EXCEPT ![c] =
                     [at |-> IF Known(req.pair) THEN req.op ELSE "note database", op |-> req.op,
                      pair |-> req.pair, key |-> req.key]]
  /\ UNCHANGED <<data, known, unnoted, storeFaults, storeRestarts>>

\* New of store.go: two records in the internal table, the second only if the
\* first is written.  get takes the pair as known either way.
NoteDatabase(c) ==
  /\ storeCall[c].at = "note database"
  /\ data' = data \cup {<<MicroDb, InternalTable, DatabaseNote(Pair(c)[1])>>}
  /\ storeCall' = [storeCall EXCEPT ![c].at = "note table"]
  /\ UNCHANGED <<known, unnoted, storeCounters>>

NoteTable(c) ==
  /\ storeCall[c].at = "note table"
  /\ data' = data \cup {<<MicroDb, InternalTable, TableNote(Pair(c))>>}
  /\ known' = known \cup {Pair(c)}
  /\ unnoted' = IF Noted(DatabaseNote(Pair(c)[1])) THEN unnoted \ {Pair(c)} ELSE unnoted
  /\ storeCall' = [storeCall EXCEPT ![c].at = storeCall[c].op]
  /\ UNCHANGED storeCounters

NoteFails(c) ==
  /\ storeCall[c].at \in {"note database", "note table"}
  /\ storeFaults < MaxStoreFaults /\ storeFaults' = storeFaults + 1
  /\ known' = known \cup {Pair(c)}
  /\ unnoted' = unnoted \cup {Pair(c)}
  /\ storeCall' = [storeCall EXCEPT ![c].at = storeCall[c].op]
  /\ UNCHANGED <<data, storeCalls, storeRestarts>>

-----------------------------------------------------------------------------
\* The pairs whose notes a call of a client changes.
Touched(c) == {pair \in Databases \X Tables : storeCall[c].key \in Notes(pair)}

StoreAnswers(c) == storeCall' = [storeCall EXCEPT ![c] = NoCall]

\* Read, and List, which gives all keys of the pair; and a Write without a record.
Read(c) ==
  /\ storeCall[c].at \in {"read", "write"}
  /\ StoreAnswers(c)
  /\ UNCHANGED <<data, known, unnoted, storeCounters>>

Write(c) ==
  /\ storeCall[c].at = "write"
  /\ data' = data \cup {Where(c)} /\ unnoted' = unnoted \cup Touched(c)
  /\ StoreAnswers(c)
  /\ UNCHANGED <<known, storeCounters>>

StoreDelete(c) ==
  /\ storeCall[c].at = "delete"
  /\ data' = data \ {Where(c)} /\ unnoted' = unnoted \cup Touched(c)
  /\ StoreAnswers(c)
  /\ UNCHANGED <<known, storeCounters>>

StoreFails(c) ==
  /\ storeCall[c].at \in {"read", "write", "delete"}
  /\ storeFaults < MaxStoreFaults /\ storeFaults' = storeFaults + 1
  /\ StoreAnswers(c)
  /\ UNCHANGED <<data, known, unnoted, storeCalls, storeRestarts>>

\* Databases and Tables.
ListDatabases == {d \in Databases : Noted(DatabaseNote(d))}
ListTables(database) == {t \in Tables : Noted(TableNote(<<database, t>>))}

StoreRestarts ==
  /\ storeRestarts < MaxStoreRestarts /\ storeRestarts' = storeRestarts + 1
  /\ known' = {}
  /\ storeCall' = [c \in StoreCallers |-> NoCall]
  /\ UNCHANGED <<data, unnoted, storeCalls, storeFaults>>

-----------------------------------------------------------------------------
StoreInit ==
  /\ data = {} /\ known = {} /\ unnoted = {}
  /\ storeCall = [c \in StoreCallers |-> NoCall]
  /\ storeCalls = 0 /\ storeFaults = 0 /\ storeRestarts = 0

StoreNext ==
  \/ \E c \in StoreCallers :
       \/ \E req \in StoreRequests : StoreArrives(c, req)
       \/ NoteDatabase(c) \/ NoteTable(c) \/ NoteFails(c)
       \/ Read(c) \/ Write(c) \/ StoreDelete(c) \/ StoreFails(c)
  \/ StoreRestarts

-----------------------------------------------------------------------------
StoreTypeOK ==
  /\ data \subseteq Databases \X Tables \X (StoreKeys \cup NoteKeys)
  /\ known \cup unnoted \subseteq Databases \X Tables
  /\ storeCall \in [StoreCallers ->
       [at : {"idle", "note database", "note table", "read", "write", "delete"},
        op : {"read", "write", "delete"}, pair : Databases \X Tables,
        key : StoreKeys \cup NoteKeys]]

(***************************************************************************)
(* Databases and Tables: wherever there are records, the internal table    *)
(* lists the database and the table, and each table that is listed is of a *)
(* database that is - through errors, restarts and calls that overlap,     *)
(* unless, since the table was last noted, New failed for it and get took  *)
(* it as known all the same, or a caller changed the note itself.          *)
(***************************************************************************)
TablesListed ==
  \A database \in Databases, table \in Tables :
    <<database, table>> \notin unnoted =>
      /\ (\E r \in data : <<r[1], r[2]>> = <<database, table>> /\ r[3] \in StoreKeys) =>
           database \in ListDatabases /\ table \in ListTables(database)
      /\ table \in ListTables(database) => database \in ListDatabases

\* What makes it inductive: a pair the handler takes as known is listed, or New
\* failed for it; and a call gets past get only with a pair that is known.
KnownListed ==
  /\ \A p \in known : p \in unnoted \/ \A key \in Notes(p) : Noted(key)
  /\ \A c \in StoreCallers :
       /\ storeCall[c].at = "note table" => Pair(c) \in unnoted \/ Noted(DatabaseNote(Pair(c)[1]))
       /\ storeCall[c].at \in {"read", "write", "delete"} => Pair(c) \in known

StoreIInv == StoreTypeOK /\ KnownListed /\ TablesListed
=============================================================================
