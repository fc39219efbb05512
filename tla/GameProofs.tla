----------------------------- MODULE GameProofs -----------------------------
(***************************************************************************)
(* For any number of requests and starts: the tables of players and games  *)
(* are empty together, no request finds a game and then no player, and a   *)
(* start that met no other one leaves its own rows only.                   *)
(***************************************************************************)
EXTENDS Game, TLAPS

Place == {"idle", "running", "player", "asking", "inventory"} \cup InStart
Answer == {"none", "started", "player", "null", "items", "no items", "error"}

(* A start under way has a number. *)
Numbered == \A c \in Client : pc[c] \in InStart => id[c] \in Row
Typed == TypeOK /\ Numbered

LEMMA DoneType ==
    ASSUME Typed, NEW c \in Client, NEW got \in Answer, Done(c, got),
           db' \in [Table -> SUBSET Row]
    PROVE  Typed'
<1>0. 0 \in 0 .. MaxStarts /\ 1 \in 1 .. 3
  BY MaxStartsAssumption
<1> USE DEF Typed, TypeOK, Place, Answer
<1>1. pc' \in [Client -> Place] /\ answer' \in [Client -> Answer]
  BY DEF Done, Goto
<1>2. id' \in [Client -> 0 .. MaxStarts] /\ table' \in [Client -> 1 .. 3]
  BY <1>0 DEF Done
<1>3. seen' \in [Client -> SUBSET Row] /\ alone' \in [Client -> BOOLEAN]
  BY DEF Done
<1>4. doomed' \in [Client -> [Table -> SUBSET Row]]
  BY DEF Done, Nothing
<1>5. starts' = starts
  BY DEF Done
<1>6. Numbered'
  BY DEF Numbered, Done, Goto, InStart
<1> QED BY <1>1, <1>2, <1>3, <1>4, <1>5, <1>6

LEMMA TypedInvariant == Typed /\ [Next]_vars => Typed'
<1> SUFFICES ASSUME Typed, [Next]_vars PROVE Typed'
  OBVIOUS
<1>0. /\ Nothing \in [Table -> SUBSET Row]
      /\ Clearing \in [1 .. 3 -> Table] /\ Len(Clearing) = 3
  BY DEF Nothing, Clearing, Table
<1>a. \A n \in 1 .. 3 : n < 3 => n + 1 \in 1 .. 3
  OBVIOUS
<1> USE DEF Typed, TypeOK, Numbered
<1>1. ASSUME NEW c \in Client, Start(c) PROVE Typed'
  <2>1. starts + 1 \in Row /\ starts + 1 \in 0 .. MaxStarts
    <3>1. starts \in 0 .. MaxStarts /\ starts < MaxStarts
      BY <1>1 DEF Start
    <3> HIDE DEF Typed
    <3> QED BY <3>1, MaxStartsAssumption DEF Row
  <2>2. alone' \in [Client -> BOOLEAN]
    BY <1>1 DEF Start
  <2>3. id' \in [Client -> 0 .. MaxStarts] /\ starts' \in 0 .. MaxStarts
    BY <1>1, <2>1 DEF Start
  <2>4. Numbered'
    BY <1>1, <2>1 DEF Start, Goto
  <2> QED BY <1>1, <2>2, <2>3, <2>4 DEF Start, Goto, InStart
<1>2. ASSUME NEW c \in Client, Clear(c) PROVE Typed'
  <2>1. db[Clearing[table[c]]] \in SUBSET Row
    BY <1>0
  <2> QED BY <1>2, <2>1 DEF Clear, Goto, InStart
<1>3. ASSUME NEW c \in Client, Delete(c) PROVE Typed'
  <2> DEFINE t == Clearing[table[c]]
  <2>1. t \in Table /\ seen[c] \cap db[t] \in SUBSET Row
    BY <1>0
  <2>2. doomed' = [doomed EXCEPT ![c][t] = seen[c] \cap db[t]]
    BY <1>3 DEF Delete
  <2>3. doomed' \in [Client -> [Table -> SUBSET Row]]
    <3> HIDE DEF t
    <3> QED BY <2>1, <2>2
  <2>4. /\ UNCHANGED <<db, starts, id, answer, alone>>
        /\ seen' = [seen EXCEPT ![c] = {}]
    BY <1>3 DEF Delete
  <2>5. table' \in [Client -> 1 .. 3]
    <3>1. CASE table[c] < 3
      <4>1. table' = [table EXCEPT ![c] = table[c] + 1] /\ table[c] \in 1 .. 3
        BY <1>0, <1>3, <3>1 DEF Delete
      <4>2. table[c] + 1 \in 1 .. 3
        BY <3>1, <4>1, <1>a
      <4> QED BY <4>1, <4>2
    <3>2. CASE ~(table[c] < 3)
      BY <1>0, <1>3, <3>2 DEF Delete
    <3> QED BY <3>1, <3>2
  <2>6. /\ pc' \in [Client -> Place] /\ pc[c] \in InStart
        /\ \A d \in Client : d # c => pc'[d] = pc[d]
    BY <1>3 DEF Delete, Goto, InStart, Place
  <2>7. Numbered'
    BY <2>4, <2>6
  <2> QED BY <2>3, <2>4, <2>5, <2>6, <2>7 DEF Place
<1>4. ASSUME NEW c \in Client, NoMap(c) \/ Abort(c) PROVE Typed'
  BY <1>4, DoneType DEF NoMap, Abort, Answer
<1>5. ASSUME NEW c \in Client, Commit(c) PROVE Typed'
  <2>1. id[c] \in Row
    BY <1>5 DEF Commit, InStart
  <2>2. db' \in [Table -> SUBSET Row]
    BY <1>5, <2>1 DEF Commit, Persisted
  <2> QED BY <1>5, <2>2, DoneType DEF Commit, Answer
<1>6. ASSUME NEW c \in Client, ReadMap(c) PROVE Typed'
  BY <1>6 DEF ReadMap, Goto, InStart
<1>7. ASSUME NEW c \in Client, AskPlayer(c) \/ AskInventory(c) PROVE Typed'
  BY <1>7 DEF AskPlayer, AskInventory, Ask, Goto, InStart
<1>8. ASSUME NEW c \in Client, PlayerRunning(c) \/ InventoryRunning(c) PROVE Typed'
  BY <1>8 DEF PlayerRunning, InventoryRunning, Running, Goto, InStart
<1>9. ASSUME NEW c \in Client, GetPlayer(c) \/ GetInventory(c) PROVE Typed'
  BY <1>9 DEF GetPlayer, GetInventory, Goto, InStart
<1>10. CASE UNCHANGED vars
  BY <1>10 DEF vars
<1> QED BY <1>1, <1>2, <1>3, <1>4, <1>5, <1>6, <1>7, <1>8, <1>9, <1>10
        DEF Next, Request

LEMMA InitTyped == Init => Typed
<1>1. 0 \in 0 .. MaxStarts /\ 1 \in 1 .. 3
  BY MaxStartsAssumption
<1> QED BY <1>1 DEF Init, Typed, TypeOK, Numbered, Nothing, InStart

(* Every variable keeps its type: the loop over the tables of              *)
(* GameService.java:33-35 stays in them, whatever other starts do.         *)
THEOREM TypeCorrect == Spec => []TypeOK
<1>1. Typed => TypeOK
  BY DEF Typed
<1> QED BY <1>1, InitTyped, TypedInvariant, PTL DEF Spec
-----------------------------------------------------------------------------
(* Once committed, there are a player and a game for ever: a commit brings *)
(* its own in the step in which it takes others away.                      *)
Populated == db["game"] # {} /\ db["player"] # {}

LEMMA CommitPopulates ==
    ASSUME Typed, NEW c \in Client, Commit(c)
    PROVE  Populated'
<1>1. "game" \in Table /\ "player" \in Table
  BY DEF Table
<1> QED BY <1>1 DEF Commit, Persisted, Populated, Typed, TypeOK

LEMMA OnlyCommitWrites ==
    ASSUME NEW c \in Client, Request(c), ~Commit(c)
    PROVE  db' = db
BY DEF Request, Start, Clear, Delete, NoMap, ReadMap, Abort, AskPlayer, PlayerRunning,
       GetPlayer, AskInventory, InventoryRunning, GetInventory, Ask, Running

(* A player and a game exist together or not at all (GameService.java:29). *)
THEOREM TogetherInTables == Spec => []GameWithPlayer
<1>1. Init => GameWithPlayer
  BY DEF Init, GameWithPlayer, Nothing, Table
<1>2. Typed /\ GameWithPlayer /\ [Next]_vars => GameWithPlayer'
  <2> SUFFICES ASSUME Typed, GameWithPlayer, [Next]_vars PROVE GameWithPlayer'
    OBVIOUS
  <2>1. ASSUME NEW c \in Client, Commit(c) PROVE GameWithPlayer'
    BY <2>1, CommitPopulates DEF Populated, GameWithPlayer
  <2>2. ASSUME NEW c \in Client, Request(c), ~Commit(c) PROVE GameWithPlayer'
    BY <2>2, OnlyCommitWrites DEF GameWithPlayer
  <2>3. CASE UNCHANGED vars
    BY <2>3 DEF vars, GameWithPlayer
  <2> QED BY <2>1, <2>2, <2>3 DEF Next
<1> QED BY <1>1, <1>2, InitTyped, TypedInvariant, PTL DEF Spec

(* What isRunning told GET /player stays true until it has its rows.       *)
StillRunning ==
    \A c \in Client : pc[c] = "player" => Populated

(* No request is answered with a null player (PlayerService.java:16-21).   *)
THEOREM PlayerIsThere == Spec => []NoNullPlayer
<1> DEFINE Inv == GameWithPlayer /\ StillRunning /\ NoNullPlayer
<1>1. Init => StillRunning /\ NoNullPlayer
  BY DEF Init, StillRunning, NoNullPlayer
<1>2. Typed /\ GameWithPlayer /\ StillRunning /\ NoNullPlayer /\ [Next]_vars
        => StillRunning' /\ NoNullPlayer'
  <2> SUFFICES ASSUME Typed, GameWithPlayer, StillRunning, NoNullPlayer, [Next]_vars
               PROVE  StillRunning' /\ NoNullPlayer'
    OBVIOUS
  <2> USE DEF Typed, TypeOK
  <2>1. Populated => Populated'
    <3>1. ASSUME NEW c \in Client, Commit(c) PROVE Populated'
      BY <3>1, CommitPopulates
    <3>2. ASSUME NEW c \in Client, Request(c), ~Commit(c), Populated PROVE Populated'
      BY <3>2, OnlyCommitWrites DEF Populated
    <3>3. ASSUME UNCHANGED vars, Populated PROVE Populated'
      BY <3>3 DEF vars, Populated
    <3> QED BY <3>1, <3>2, <3>3 DEF Next
  <2>2. ASSUME NEW c \in Client, Request(c), ~PlayerRunning(c), pc'[c] = "player"
        PROVE  FALSE
    BY <2>2 DEF Request, Start, Clear, Delete, NoMap, ReadMap, Commit, Abort, Done,
                AskPlayer, GetPlayer, AskInventory, InventoryRunning, GetInventory,
                Ask, Running, Goto, InStart
  <2>3. ASSUME NEW c \in Client, PlayerRunning(c), pc'[c] = "player" PROVE Populated
    BY <2>3 DEF PlayerRunning, Running, Goto, GameWithPlayer, Populated
  <2>4. ASSUME NEW c \in Client, Request(c), ~GetPlayer(c)
        PROVE  answer'[c] # "null"
    BY <2>4 DEF Request, Start, Clear, Delete, NoMap, ReadMap, Commit, Abort, Done,
                AskPlayer, PlayerRunning, AskInventory, InventoryRunning, GetInventory,
                Ask, Running, Goto, NoNullPlayer
  <2>5. ASSUME NEW c \in Client, GetPlayer(c) PROVE answer'[c] # "null"
    BY <2>5 DEF GetPlayer, StillRunning, Populated
  <2>6. ASSUME NEW c \in Client, NEW d \in Client, Request(c), d # c
        PROVE  pc'[d] = pc[d] /\ answer'[d] = answer[d]
    BY <2>6 DEF Request, Start, Clear, Delete, NoMap, ReadMap, Commit, Abort, Done,
                AskPlayer, PlayerRunning, GetPlayer, AskInventory, InventoryRunning,
                GetInventory, Ask, Running, Goto
  <2>7. CASE UNCHANGED vars
    BY <2>1, <2>7 DEF vars, StillRunning, NoNullPlayer
  <2>8. CASE Next
    <3> PICK c \in Client : Request(c)
      BY <2>8 DEF Next
    <3>1. StillRunning'
      BY <2>1, <2>2, <2>3, <2>6 DEF StillRunning
    <3>2. NoNullPlayer'
      BY <2>4, <2>5, <2>6 DEF NoNullPlayer
    <3> QED BY <3>1, <3>2
  <2> QED BY <2>7, <2>8
<1> QED BY <1>1, <1>2, InitTyped, TypedInvariant, TogetherInTables, PTL DEF Spec

-----------------------------------------------------------------------------
(* A start that met no other one is the only one under way, so that what   *)
(* its statements saw and deleted is all that is committed.                *)
FromTheFirst == \A c \in Client : pc[c] \notin InStart => table[c] = 1

AloneClears ==
    \A c \in Client : pc[c] \in InStart /\ alone[c] =>
        /\ \A d \in Client : pc[d] \in InStart => d = c
        /\ \A k \in 1 .. 3 : k < table[c] \/ pc[c] \in {"map", "commit"} =>
              doomed[c][Clearing[k]] = db[Clearing[k]]
        /\ pc[c] = "delete" => seen[c] = db[Clearing[table[c]]]

LEMMA Tables ==
    /\ Len(Clearing) = 3
    /\ \A k \in 1 .. 3 : Clearing[k] \in Table
    /\ \A k, l \in 1 .. 3 : Clearing[k] = Clearing[l] => k = l
    /\ \A t \in Table : \E k \in 1 .. 3 : t = Clearing[k]
<1>1. /\ Clearing[1] = "player" /\ Clearing[2] = "item" /\ Clearing[3] = "game"
      /\ Len(Clearing) = 3
  BY DEF Clearing
<1>2. \A k \in 1 .. 3 : k = 1 \/ k = 2 \/ k = 3
  OBVIOUS
<1> HIDE DEF Clearing
<1> QED BY <1>1, <1>2 DEF Table

LEMMA InThree ==
    \A k, n \in 1 .. 3 :
        /\ ~(k < 1)
        /\ k < n => k # n
        /\ k < n + 1 => k < n \/ k = n
        /\ n = 3 \/ n < 3
OBVIOUS

(* A step of another request leaves what this one has seen and deleted.    *)
LEMMA OthersApart ==
    ASSUME Typed, NEW c \in Client, NEW d \in Client, Request(c), d # c
    PROVE  /\ pc'[d] = pc[d] /\ table'[d] = table[d]
           /\ seen'[d] = seen[d] /\ doomed'[d] = doomed[d]
           /\ ~Start(c) => alone'[d] = alone[d]
BY DEF Typed, TypeOK, Request, Start, Clear, Delete, NoMap, ReadMap, Commit, Abort, Done,
       AskPlayer, PlayerRunning, GetPlayer, AskInventory, InventoryRunning,
       GetInventory, Ask, Running, Goto

LEMMA FromTheFirstNext == Typed /\ FromTheFirst /\ [Next]_vars => FromTheFirst'
<1> SUFFICES ASSUME Typed, FromTheFirst, [Next]_vars PROVE FromTheFirst'
  OBVIOUS
<1> USE DEF Typed, TypeOK
<1>1. CASE UNCHANGED vars
  BY <1>1 DEF vars, FromTheFirst
<1>2. ASSUME NEW c \in Client, Request(c) PROVE FromTheFirst'
  <2>1. pc'[c] \notin InStart => table'[c] = 1
    BY <1>2 DEF Request, Start, Clear, Delete, NoMap, ReadMap, Commit, Abort, Done,
                AskPlayer, PlayerRunning, GetPlayer, AskInventory, InventoryRunning,
                GetInventory, Ask, Running, Goto, InStart, FromTheFirst
  <2>2. ASSUME NEW d \in Client, d # c, pc'[d] \notin InStart PROVE table'[d] = 1
    BY <1>2, <2>2, OthersApart DEF FromTheFirst
  <2> QED BY <2>1, <2>2 DEF FromTheFirst
<1> QED BY <1>1, <1>2 DEF Next

LEMMA AloneClearsNext ==
    Typed /\ FromTheFirst /\ AloneClears /\ [Next]_vars => AloneClears'
<1> SUFFICES ASSUME Typed, FromTheFirst, AloneClears, [Next]_vars PROVE AloneClears'
  OBVIOUS
<1> USE DEF Typed, TypeOK
<1>1. CASE UNCHANGED vars
  BY <1>1 DEF vars, AloneClears
<1>2. ASSUME NEW c \in Client, Request(c) PROVE AloneClears'
  <2> SUFFICES ASSUME NEW d \in Client, pc'[d] \in InStart, alone'[d]
               PROVE  /\ \A e \in Client : pc'[e] \in InStart => e = d
                      /\ \A k \in 1 .. 3 :
                            k < table'[d] \/ pc'[d] \in {"map", "commit"} =>
                                doomed'[d][Clearing[k]] = db'[Clearing[k]]
                      /\ pc'[d] = "delete" => seen'[d] = db'[Clearing[table'[d]]]
    BY DEF AloneClears
  <2>1. CASE Start(c)
    <3>1. d = c
      <4> SUFFICES ASSUME d # c PROVE FALSE
        OBVIOUS
      <4>1. pc[d] \in InStart
        BY OthersApart, <1>2
      <4> QED BY <2>1, <4>1 DEF Start, Starting
    <3>2. \A e \in Client : pc[e] \notin InStart
      BY <2>1, <3>1 DEF Start, Starting
    <3>3. pc' = [pc EXCEPT ![c] = "clear"] /\ table' = table
      BY <2>1 DEF Start, Goto
    <3>4. table[c] = 1
      BY <3>2 DEF FromTheFirst
    <3>5. pc'[d] = "clear" /\ table'[d] = 1 /\ \A k \in 1 .. 3 : ~(k < 1)
      BY <3>1, <3>3, <3>4, InThree
    <3>6. \A e \in Client : pc'[e] \in InStart => e = d
      BY <3>1, <3>2, <3>3
    <3> QED BY <3>5, <3>6
  <2>2. CASE ~Start(c) /\ d # c
    <3>1. /\ pc'[d] = pc[d] /\ table'[d] = table[d] /\ alone[d]
          /\ seen'[d] = seen[d] /\ doomed'[d] = doomed[d]
      BY <1>2, <2>2, OthersApart
    <3>2. pc[d] \in InStart /\ pc[c] \notin InStart
      BY <2>2, <3>1 DEF AloneClears
    <3>3. pc'[c] \notin InStart /\ ~Commit(c)
      BY <1>2, <2>2, <3>2
         DEF Request, Clear, Delete, NoMap, ReadMap, Commit, Abort, AskPlayer,
             PlayerRunning, GetPlayer, AskInventory, InventoryRunning, GetInventory,
             Ask, Running, Goto, InStart
    <3>4. db' = db
      BY <1>2, <3>3, OnlyCommitWrites
    <3>5. \A e \in Client : pc'[e] \in InStart => e = d
      BY <1>2, <3>1, <3>2, <3>3, OthersApart DEF AloneClears
    <3>6. /\ \A k \in 1 .. 3 : k < table[d] \/ pc[d] \in {"map", "commit"} =>
                doomed[d][Clearing[k]] = db[Clearing[k]]
          /\ pc[d] = "delete" => seen[d] = db[Clearing[table[d]]]
      BY <3>1, <3>2 DEF AloneClears
    <3> QED BY <3>1, <3>4, <3>5, <3>6
  <2>3. CASE ~Start(c) /\ d = c
    <3>1. /\ pc[c] \in InStart /\ ~Commit(c) /\ alone[c]
          /\ Clear(c) \/ Delete(c) \/ ReadMap(c)
      BY <1>2, <2>3
         DEF Request, NoMap, Commit, Abort, Done, AskPlayer, PlayerRunning, GetPlayer,
             AskInventory, InventoryRunning, GetInventory, Ask, Running, Goto, InStart,
             Clear, Delete, ReadMap
    <3>2. db' = db
      BY <1>2, <3>1, OnlyCommitWrites
    <3>3. \A e \in Client : pc[e] \in InStart => e = c
      BY <3>1 DEF AloneClears
    <3>4. \A e \in Client : pc'[e] \in InStart => e = c
      BY <1>2, <3>3, OthersApart
    <3>5. \A k \in 1 .. 3 : k < table[c] \/ pc[c] \in {"map", "commit"} =>
              doomed[c][Clearing[k]] = db[Clearing[k]]
      BY <3>1 DEF AloneClears
    <3>6. CASE Clear(c)
      BY <2>3, <3>2, <3>4, <3>5, <3>6 DEF Clear, Goto
    <3>7. CASE ReadMap(c)
      <4>1. pc[c] = "map" /\ pc'[c] = "commit" /\ table' = table /\ doomed' = doomed
        BY <3>7 DEF ReadMap, Goto
      <4> QED BY <2>3, <3>2, <3>4, <3>5, <4>1
    <3>8. CASE Delete(c)
      <4> DEFINE t == Clearing[table[c]]
      <4>1. table[c] \in 1 .. 3 /\ t \in Table
        BY Tables
      <4>2. seen[c] = db[t]
        BY <3>1, <3>8 DEF Delete, AloneClears
      <4>3. doomed' = [doomed EXCEPT ![c][t] = db[t]]
        BY <3>8, <4>2 DEF Delete
      <4>4. doomed'[c] = [doomed[c] EXCEPT ![t] = db[t]]
        <5> HIDE DEF t
        <5> QED BY <4>1, <4>3
      <4>5. \/ table[c] < 3 /\ table'[c] = table[c] + 1 /\ pc'[c] = "clear"
            \/ table'[c] = table[c] /\ pc'[c] = "map" /\ table[c] = 3
        <5>1. CASE table[c] < 3
          <6>1. /\ pc' = [pc EXCEPT ![c] = "clear"]
                /\ table' = [table EXCEPT ![c] = table[c] + 1]
            BY <3>8, <5>1, Tables DEF Delete, Goto
          <6> QED BY <5>1, <6>1
        <5>2. CASE ~(table[c] < 3)
          <6>1. pc' = [pc EXCEPT ![c] = "map"] /\ table' = table
            BY <3>8, <5>2, Tables DEF Delete, Goto
          <6>2. table[c] = 3 \/ table[c] < 3
            BY <4>1, InThree
          <6> QED BY <5>2, <6>1, <6>2
        <5> QED BY <5>1, <5>2
      <4>6. ASSUME NEW k \in 1 .. 3, k < table'[c] \/ pc'[c] = "map"
            PROVE  k = table[c] \/ k < table[c]
        <5>1. CASE table[c] < 3 /\ table'[c] = table[c] + 1 /\ pc'[c] = "clear"
          <6>1. k < table[c] + 1
            BY <4>6, <5>1
          <6> HIDE DEF Typed
          <6> QED BY <4>1, <6>1, InThree
        <5>2. CASE table[c] = 3
          BY <4>1, InThree, <5>2
        <5> QED BY <4>5, <5>1, <5>2
      <4>7. ASSUME NEW k \in 1 .. 3, k = table[c] \/ k < table[c]
            PROVE  doomed'[c][Clearing[k]] = db[Clearing[k]]
        <5>1. doomed[c] \in [Table -> SUBSET Row] /\ Clearing[k] \in Table
          BY Tables
        <5>2. CASE k = table[c]
          BY <4>1, <4>4, <5>1, <5>2
        <5>3. CASE k < table[c]
          <6>1. Clearing[k] # t
            <7>1. Clearing[k] = Clearing[table[c]] => k = table[c]
              BY <4>1, Tables
            <7> QED BY <4>1, InThree, <5>3, <7>1
          <6> QED BY <3>5, <4>4, <5>1, <5>3, <6>1
        <5> QED BY <4>7, <5>2, <5>3
      <4> HIDE DEF t
      <4> QED BY <2>3, <3>2, <3>4, <4>5, <4>6, <4>7
    <3> QED BY <3>1, <3>6, <3>7, <3>8
  <2> QED BY <2>1, <2>2, <2>3
<1> QED BY <1>1, <1>2 DEF Next

(* A start that met no other one leaves its own player and game, and no    *)
(* row of an earlier start in any table, whatever starts overlapped or     *)
(* failed before it (GameService.java:32-35).                              *)
THEOREM StartLeavesItsOwn == Spec => StartClears
<1>1. Init => FromTheFirst /\ AloneClears
  BY DEF Init, FromTheFirst, AloneClears, InStart
<1>2. Typed /\ AloneClears /\ [Next]_vars =>
        [\A c \in Client :
            pc[c] = "commit" /\ pc'[c] = "idle" /\ answer'[c] = "started" /\ alone[c] =>
                /\ \A t \in Table : db'[t] \subseteq {id[c]}
                /\ id[c] \in db'["player"] \cap db'["game"]]_vars
  <2> SUFFICES ASSUME Typed, AloneClears, Next,
                      NEW d \in Client, pc[d] = "commit", pc'[d] = "idle",
                      answer'[d] = "started", alone[d]
               PROVE  /\ \A t \in Table : db'[t] \subseteq {id[d]}
                      /\ id[d] \in db'["player"] \cap db'["game"]
    OBVIOUS
  <2> USE DEF Typed, TypeOK
  <2>1. PICK c \in Client : Request(c)
    BY DEF Next
  <2>2. c = d
    BY <2>1, OthersApart
  <2>3. Commit(d)
    BY <2>1, <2>2
       DEF Request, Start, Clear, Delete, NoMap, ReadMap, Abort, Done, AskPlayer,
           PlayerRunning, GetPlayer, AskInventory, InventoryRunning, GetInventory, Ask,
           Running, Goto
  <2>4. \A k \in 1 .. 3 : doomed[d][Clearing[k]] = db[Clearing[k]]
    BY DEF AloneClears, InStart
  <2>5. \A t \in Table : doomed[d][t] = db[t]
    <3> TAKE t \in Table
    <3>1. PICK k \in 1 .. 3 : t = Clearing[k]
      BY Tables
    <3> QED BY <2>4, <3>1
  <2>6. db' = [t \in Table |-> Persisted(d)[t]]
    BY <2>3, <2>5 DEF Commit
  <2> QED BY <2>6 DEF Persisted, Table
<1>3. Spec => [](Typed /\ FromTheFirst /\ AloneClears)
  BY <1>1, InitTyped, TypedInvariant, FromTheFirstNext, AloneClearsNext, PTL DEF Spec
<1> QED BY <1>2, <1>3, PTL DEF Spec, StartClears

=============================================================================
