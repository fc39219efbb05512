-------------------------------- MODULE Game --------------------------------
(***************************************************************************)
(* The REST game's database under concurrent requests.  POST /start is one *)
(* transaction that clears three tables and inserts a player and a game at *)
(* its commit; GET /player and GET /inventory look at the game and then at *)
(* their own table, each in a statement of its own.  The database runs     *)
(* transactions as PostgreSQL does by default (read committed): a DELETE   *)
(* deletes the rows that were committed when it began, and waits for those *)
(* that another transaction is deleting.                                   *)
(***************************************************************************)
EXTENDS Integers, Sequences, FiniteSets

CONSTANTS
    Client,      \* requests under way at a time
    MaxStarts    \* starts in all

ASSUME MaxStartsAssumption == MaxStarts \in Nat

(* Rows bear the number of the start that inserted them. *)
Row == 1 .. MaxStarts
Table == {"player", "item", "game"}

(* The deleteAll calls.  Slip: one is missing.                             *)
ClearingNoPlayer == <<"item", "game">>
Clearing == <<"player", "item", "game">>

VARIABLES
    db,       \* committed rows of each table
    starts,   \* starts so far
    pc,       \* where each request is
    id,       \* the number of its start
    table,    \* which of the tables in Clearing it is at
    seen,     \* rows its statement sees
    doomed,   \* rows it deletes if it commits
    answer,   \* what it got
    alone     \* history: no other start was under way since it began

vars == <<db, starts, pc, id, table, seen, doomed, answer, alone>>

Nothing == [t \in Table |-> {}]
InStart == {"clear", "delete", "map", "commit"}
Starting == {c \in Client : pc[c] \in InStart}

Init ==
    /\ db = Nothing
    /\ starts = 0
    /\ pc = [c \in Client |-> "idle"]
    /\ id = [c \in Client |-> 0]
    /\ table = [c \in Client |-> 1]
    /\ seen = [c \in Client |-> {}]
    /\ doomed = [c \in Client |-> Nothing]
    /\ answer = [c \in Client |-> "none"]
    /\ alone = [c \in Client |-> FALSE]

Goto(c, place) == pc' = [pc EXCEPT ![c] = place]

(* The transaction of a start is over, and its locks are gone. *)
Done(c, got) ==
    /\ Goto(c, "idle")
    /\ answer' = [answer EXCEPT ![c] = got]
    /\ id' = [id EXCEPT ![c] = 0]
    /\ table' = [table EXCEPT ![c] = 1]
    /\ seen' = [seen EXCEPT ![c] = {}]
    /\ doomed' = [doomed EXCEPT ![c] = Nothing]
    /\ alone' = [alone EXCEPT ![c] = FALSE]
    /\ UNCHANGED starts
-----------------------------------------------------------------------------
(* POST /start *)

Start(c) ==
    /\ pc[c] = "idle" /\ starts < MaxStarts
    /\ Goto(c, "clear")
    /\ starts' = starts + 1
    /\ id' = [id EXCEPT ![c] = starts + 1]
    /\ answer' = [answer EXCEPT ![c] = "none"]
    /\ alone' = [d \in Client |-> IF d = c THEN Starting = {}
                                  ELSE alone[d] /\ d \notin Starting]
    /\ UNCHANGED <<db, table, seen, doomed>>

(* deleteAll of a repository: the statement begins, ... *)
Clear(c) ==
    /\ pc[c] = "clear"
    /\ Goto(c, "delete")
    /\ seen' = [seen EXCEPT ![c] = db[Clearing[table[c]]]]
    /\ UNCHANGED <<db, starts, id, table, doomed, answer, alone>>

(* ... and gets to its rows once no one else is deleting them. *)
Delete(c) ==
    LET t == Clearing[table[c]]
    IN  /\ pc[c] = "delete"
        /\ \A d \in Client \ {c} : doomed[d][t] \cap seen[c] = {}
        /\ doomed' = [doomed EXCEPT ![c][t] = seen[c] \cap db[t]]
        /\ seen' = [seen EXCEPT ![c] = {}]
        /\ IF table[c] < Len(Clearing)
           THEN Goto(c, "clear") /\ table' = [table EXCEPT ![c] = @ + 1]
           ELSE Goto(c, "map") /\ UNCHANGED table
        /\ UNCHANGED <<db, starts, id, answer, alone>>

(* Files.readString: an IOException becomes an unchecked exception, which  *)
(* rolls the transaction back.  Slips: the transaction is left open; the   *)
(* exception is left checked, which does not roll back.                    *)
NoMapUnended(c) ==
    /\ pc[c] = "map"
    /\ Goto(c, "idle")
    /\ answer' = [answer EXCEPT ![c] = "error"]
    /\ UNCHANGED <<db, starts, id, table, seen, doomed, alone>>
NoMapCommits(c) ==
    /\ pc[c] = "map"
    /\ db' = [t \in Table |-> (db[t] \ doomed[c][t])
                              \cup IF t = "player" THEN {id[c]} ELSE {}]
    /\ Done(c, "error")
NoMap(c) ==
    /\ pc[c] = "map"
    /\ Done(c, "error")
    /\ UNCHANGED db

ReadMap(c) ==
    /\ pc[c] = "map"
    /\ Goto(c, "commit")
    /\ UNCHANGED <<db, starts, id, table, seen, doomed, answer, alone>>

(* The persisted entities, flushed at the commit: a player and a game, for *)
(* ItemRepository.persist does nothing.                                    *)
Persisted(c) ==
    [t \in Table |-> IF t \in {"player", "game"} THEN {id[c]} ELSE {}]

Commit(c) ==
    /\ pc[c] = "commit"
    /\ db' = [t \in Table |-> (db[t] \ doomed[c][t]) \cup Persisted(c)[t]]
    /\ Done(c, "started")

(* The connection is lost or the server stops in the middle. *)
Abort(c) ==
    /\ pc[c] \in InStart
    /\ Done(c, "error")
    /\ UNCHANGED db
-----------------------------------------------------------------------------
(* GET /player, GET /inventory: isRunning, then the rows.  Slip: /player   *)
(* does not ask isRunning.                                                 *)

Ask(c, place) ==
    /\ pc[c] = "idle"
    /\ Goto(c, place)
    /\ answer' = [answer EXCEPT ![c] = "none"]
    /\ UNCHANGED <<db, starts, id, table, seen, doomed, alone>>

Running(c, place) ==
    /\ IF db["game"] = {}
       THEN Goto(c, "idle") /\ answer' = [answer EXCEPT ![c] = "error"]
       ELSE Goto(c, place) /\ UNCHANGED answer
    /\ UNCHANGED <<db, starts, id, table, seen, doomed, alone>>

AskPlayer(c) == Ask(c, "running")
PlayerRunningUnasked(c) ==
    /\ pc[c] = "running"
    /\ Goto(c, "player")
    /\ UNCHANGED <<db, starts, id, table, seen, doomed, answer, alone>>
PlayerRunning(c) == pc[c] = "running" /\ Running(c, "player")

(* findFirst().orElse(null), and the converter dereferences it. *)
GetPlayer(c) ==
    /\ pc[c] = "player"
    /\ Goto(c, "idle")
    /\ answer' = [answer EXCEPT ![c] = IF db["player"] = {} THEN "null" ELSE "player"]
    /\ UNCHANGED <<db, starts, id, table, seen, doomed, alone>>

AskInventory(c) == Ask(c, "asking")
InventoryRunning(c) == pc[c] = "asking" /\ Running(c, "inventory")

GetInventory(c) ==
    /\ pc[c] = "inventory"
    /\ Goto(c, "idle")
    /\ answer' = [answer EXCEPT ![c] = IF db["item"] = {} THEN "no items" ELSE "items"]
    /\ UNCHANGED <<db, starts, id, table, seen, doomed, alone>>

Request(c) ==
    \/ Start(c) \/ Clear(c) \/ Delete(c) \/ NoMap(c) \/ ReadMap(c) \/ Commit(c)
    \/ Abort(c)
    \/ AskPlayer(c) \/ PlayerRunning(c) \/ GetPlayer(c)
    \/ AskInventory(c) \/ InventoryRunning(c) \/ GetInventory(c)

Next == \E c \in Client : Request(c)

Spec == Init /\ [][Next]_vars

(* A request that the database lets go on does so; nothing need fail. *)
StartStep(c) == Clear(c) \/ Delete(c) \/ NoMap(c) \/ ReadMap(c) \/ Commit(c)
FairSpec == Spec /\ \A c \in Client : WF_vars(StartStep(c))
-----------------------------------------------------------------------------
(* A start keeps to the three tables of GameService.java:33-35 and inserts *)
(* rows that bear its own number.                                          *)
TypeOK ==
    /\ db \in [Table -> SUBSET Row]
    /\ starts \in 0 .. MaxStarts
    /\ pc \in [Client -> {"idle", "running", "player", "asking", "inventory"} \cup InStart]
    /\ id \in [Client -> 0 .. MaxStarts]
    /\ table \in [Client -> 1 .. 3]
    /\ seen \in [Client -> SUBSET Row]
    /\ doomed \in [Client -> [Table -> SUBSET Row]]
    /\ answer \in [Client -> {"none", "started", "player", "null", "items", "no items",
                              "error"}]
    /\ alone \in [Client -> BOOLEAN]

(* GameService.java:29-67: there is a game exactly when there is a player, *)
(* whatever starts overlap, fail or are cut off.                           *)
GameWithPlayer == db["game"] = {} <=> db["player"] = {}

(* PlayerService.java:16-21: isRunning and getPlayer are two statements;   *)
(* no start that comes between them makes the player null.                 *)
NoNullPlayer == \A c \in Client : answer[c] # "null"

(* GameService.java:32-35: a start that met no other one leaves no row of  *)
(* an earlier one, of players, items or games, even after starts that      *)
(* overlapped, and it leaves its own player and game.  (Of items it leaves *)
(* none of its own either: see Stocked.)                                   *)
StartClears ==
    [][\A c \in Client :
          pc[c] = "commit" /\ pc'[c] = "idle" /\ answer'[c] = "started" /\ alone[c] =>
              /\ \A t \in Table : db'[t] \subseteq {id[c]}
              /\ id[c] \in db'["player"] \cap db'["game"]]_vars

(* GameService.java:33-35: starts that overlap may wait for each other's   *)
(* rows, but never all of them: every start ends.                          *)
StartsEnd == \A c \in Client : pc[c] \in InStart ~> pc[c] = "idle"
-----------------------------------------------------------------------------
(* Claims of the repository that do not hold. *)

(* openapi.yaml:329, "Clear all the database tables. Initialize and start  *)
(* the game.": there is one game at most, the one started last.            *)
OneGame == Cardinality(db["game"]) <= 1

(* GameService.java:49, "Add 5 yakaballs": a game that was started has     *)
(* items.                                                                  *)
Stocked == db["game"] # {} => db["item"] # {}

(* A state that refutes this refutes both. *)
StartAsDocumented == OneGame \/ Stocked

=============================================================================
