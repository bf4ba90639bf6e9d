--------------------------- MODULE Leaderboard_proofs ---------------------------
(***************************************************************************)
(* The field, the baselines and the end of a scan, for every set of wallets, *)
(* registrations, chunk and chain of Leaderboard.                           *)
(***************************************************************************)
EXTENDS Leaderboard, TLAPS

State == [parts : SUBSET Wallets, last : Int, base : [Wallets -> Int]]
Scan == [from : Int, to : Int, chunk : Int, found : SUBSET Wallets]

BoardType ==
    /\ head \in Nat /\ open \in BOOLEAN /\ overlap \in BOOLEAN
    /\ disk \in [kind : Kinds, st : State]
    /\ pc \in [Monitors -> Steps] /\ mem \in [Monitors -> State]
    /\ scan \in [Monitors -> Scan]
    /\ counted \in [Monitors -> BOOLEAN]
    /\ first \in [Wallets -> Int]

LEMMA Blanks == Blank \in State /\ Idle \in Scan /\ None \in Int /\ Values \subseteq Int
  BY DEF Blank, State, Idle, Scan, None, Values

LEMMA BoardTypeInit == Init => BoardType
  <1>. SUFFICES ASSUME Init PROVE BoardType
    OBVIOUS
  <1>1. disk \in [kind : Kinds, st : State]
    BY Blanks DEF Init, Kinds
  <1>2. mem \in [Monitors -> State] /\ scan \in [Monitors -> Scan]
    BY Blanks DEF Init
  <1>3. first \in [Wallets -> Int] /\ pc \in [Monitors -> Steps]
    BY Blanks DEF Init, Steps
  <1>4. counted \in [Monitors -> BOOLEAN] /\ overlap \in BOOLEAN /\ open \in BOOLEAN /\ head \in Nat
    BY DEF Init
  <1>. QED BY <1>1, <1>2, <1>3, <1>4 DEF BoardType

\* A monitor that goes on to some other place.
LEMMA GotoType ==
    ASSUME BoardType, NEW m \in Monitors, NEW l \in Steps, Goto(m, l)
    PROVE  pc' \in [Monitors -> Steps] /\ pc'[m] = l /\ \A n \in Monitors \ {m} : pc'[n] = pc[n]
  BY DEF BoardType, Goto

LEMMA BoardTypeNext == BoardType /\ [Next]_vars => BoardType'
  <1>. SUFFICES ASSUME BoardType, [Next]_vars PROVE BoardType'
    OBVIOUS
  <1>0. /\ head \in Nat /\ disk \in [kind : Kinds, st : State]
        /\ mem \in [Monitors -> State] /\ scan \in [Monitors -> Scan]
        /\ pc \in [Monitors -> Steps] /\ counted \in [Monitors -> BOOLEAN]
        /\ first \in [Wallets -> Int] /\ open \in BOOLEAN /\ overlap \in BOOLEAN
    BY DEF BoardType
  <1>1. ASSUME NEW m \in Monitors, GiveUp(m)
        PROVE  BoardType'
    <2>1. pc' \in [Monitors -> Steps]
      BY <1>1, GotoType DEF GiveUp, Steps
    <2>2. scan' \in [Monitors -> Scan] /\ counted' \in [Monitors -> BOOLEAN]
      BY <1>0, <1>1, Blanks DEF GiveUp
    <2>. QED BY <1>0, <1>1, <2>1, <2>2 DEF GiveUp, BoardType, world, history
  <1>2. ASSUME NEW m \in Monitors, NEW l \in Steps, SaveState(m, l)
        PROVE  BoardType'
    <2>1. pc' \in [Monitors -> Steps]
      BY <1>2, GotoType DEF SaveState
    <2>2. disk' \in [kind : Kinds, st : State]
      BY <1>0, <1>2 DEF SaveState, Kinds
    <2>3. first' \in [Wallets -> Int]
      <3>1. \A w \in Wallets : mem[m].base[w] \in Int
        BY <1>0 DEF State
      <3>. QED BY <1>0, <1>2, <3>1 DEF SaveState, Remember
    <2>. QED BY <1>0, <1>2, <2>1, <2>2, <2>3 DEF SaveState, BoardType, world
  <1>3. CASE NewBlock
    BY <1>0, <1>3 DEF NewBlock, monitors, history, BoardType
  <1>13. CASE WindowOpens
    BY <1>0, <1>13 DEF WindowOpens, monitors, history, BoardType
  <1>14. CASE UNCHANGED vars
    BY <1>0, <1>14 DEF vars, world, monitors, history, BoardType
  <1>4. ASSUME NEW m \in Monitors, Start(m)
        PROVE  BoardType'
    <2>1. pc' \in [Monitors -> Steps]
      BY <1>4, GotoType DEF Start, Steps
    <2>2. (IF disk.kind = "whole" THEN disk.st ELSE Blank) \in State
      BY <1>0, Blanks
    <2>3. mem' \in [Monitors -> State]
      BY <1>0, <1>4, <2>2 DEF Start
    <2>4. overlap' \in BOOLEAN
      BY <1>4 DEF Start
    <2>. QED BY <1>0, <1>4, <2>1, <2>3, <2>4 DEF Start, BoardType, world
  <1>5. ASSUME NEW m \in Monitors, Stop(m)
        PROVE  BoardType'
    <2>1. pc' \in [Monitors -> Steps]
      BY <1>5, GotoType DEF Stop, Steps
    <2>2. mem' \in [Monitors -> State] /\ scan' \in [Monitors -> Scan]
          /\ counted' \in [Monitors -> BOOLEAN]
      BY <1>0, <1>5, Blanks DEF Stop
    <2>. QED BY <1>0, <1>5, <2>1, <2>2 DEF Stop, BoardType, world, history
  <1>6. ASSUME NEW m \in Monitors, BeginRefresh(m)
        PROVE  BoardType'
    <2>1. PICK h \in 0 .. head :
             scan' = [scan EXCEPT ![m] = [from |-> mem[m].last + 1, to |-> h,
                                          chunk |-> Chunk, found |-> {}]]
      BY <1>6 DEF BeginRefresh
    <2>2. [from |-> mem[m].last + 1, to |-> h, chunk |-> Chunk, found |-> {}] \in Scan
      BY <1>0, BoardAssumption DEF State, Scan
    <2>3. scan' \in [Monitors -> Scan]
      BY <1>0, <2>1, <2>2
    <2>4. pc' \in [Monitors -> Steps]
      BY <1>6, GotoType DEF BeginRefresh, Steps
    <2>5. counted' \in [Monitors -> BOOLEAN]
      BY <1>0, <1>6 DEF BeginRefresh
    <2>. QED BY <1>0, <1>6, <2>3, <2>4, <2>5 DEF BeginRefresh, BoardType, world, history
  <1>7. ASSUME NEW m \in Monitors, Asking(m), LogsAnswer(m)
        PROVE  BoardType'
    <2>1. PICK view \in 0 .. head :
             scan' = [scan EXCEPT ![m].from = ChunkEnd(scan[m]) + 1,
                        ![m].found = @ \cup {w \in Wallets :
                            RegisteredAt[w] \in scan[m].from .. Least(ChunkEnd(scan[m]), view)}]
      BY <1>7 DEF LogsAnswer
    <2>2. ChunkEnd(scan[m]) + 1 \in Int
      BY <1>0 DEF ChunkEnd, Least, Scan
    <2>3. scan' \in [Monitors -> Scan]
      <3>. DEFINE T == [scan[m] EXCEPT !.from = ChunkEnd(scan[m]) + 1,
                          !.found = @ \cup {w \in Wallets :
                             RegisteredAt[w] \in scan[m].from .. Least(ChunkEnd(scan[m]), view)}]
      <3>1. T \in Scan
        BY <1>0, <2>2 DEF Scan
      <3>2. scan' = [scan EXCEPT ![m] = T]
        BY <2>1
      <3>. HIDE DEF T
      <3>. QED BY <1>0, <3>1, <3>2
    <2>. QED BY <1>0, <1>7, <2>3 DEF LogsAnswer, BoardType, world
  <1>8. ASSUME NEW m \in Monitors, LogsRefused(m)
        PROVE  BoardType'
    <2>1. scan[m].chunk \div 2 \in Int
      BY <1>0 DEF Scan
    <2>2. scan' \in [Monitors -> Scan]
      BY <1>0, <1>8, <2>1 DEF LogsRefused, Scan
    <2>. QED BY <1>0, <1>8, <2>2 DEF LogsRefused, BoardType, world, history
  <1>9. ASSUME NEW m \in Monitors, Participants(m)
        PROVE  BoardType'
    <2>1. pc' \in [Monitors -> Steps]
      BY <1>9, GotoType DEF Participants, Steps
    <2>2. scan' \in [Monitors -> Scan]
      BY <1>0, <1>9, Blanks DEF Participants
    <2>3. mem' \in [Monitors -> State]
      BY <1>0, <1>9 DEF Participants, State, Scan
    <2>4. disk' \in [kind : Kinds, st : State]
      BY <1>0, <1>9 DEF Participants, Kinds
    <2>. QED BY <1>0, <1>9, <2>1, <2>2, <2>3, <2>4 DEF Participants, BoardType, world, history
  <1>10. ASSUME NEW m \in Monitors, Decimals(m)
         PROVE  BoardType'
    <2>1. pc' \in [Monitors -> Steps]
      BY <1>10, GotoType DEF Decimals, Steps
    <2>2. disk' \in [kind : Kinds, st : State]
      BY <1>0, <1>10 DEF Decimals, Kinds
    <2>. QED BY <1>0, <1>10, <2>1, <2>2 DEF Decimals, BoardType, world, history
  <1>11. ASSUME NEW m \in Monitors, ValueWallets(m)
         PROVE  BoardType'
    <2>1. pc' \in [Monitors -> Steps]
      BY <1>11, GotoType DEF ValueWallets, Steps
    <2>2. disk' \in [kind : Kinds, st : State]
      BY <1>0, <1>11 DEF ValueWallets, Kinds
    <2>3. mem' \in [Monitors -> State]
      <3>1. CASE counted[m]
        <4>1. PICK usd \in [mem[m].parts -> Values] :
                 mem' = [mem EXCEPT ![m].base = [w \in Wallets |->
                            IF w \in mem[m].parts THEN Base(@, w, usd[w]) ELSE @[w]]]
          BY <1>11, <3>1 DEF ValueWallets
        <4>2. \A w \in mem[m].parts : usd[w] \in Int
          BY <4>1, Blanks
        <4>3. mem[m].base \in [Wallets -> Int]
          BY <1>0 DEF State
        <4>4. [w \in Wallets |-> IF w \in mem[m].parts THEN Base(mem[m].base, w, usd[w])
                                 ELSE mem[m].base[w]] \in [Wallets -> Int]
          BY <4>2, <4>3 DEF Base
        <4>. QED BY <1>0, <4>1, <4>4 DEF State
      <3>2. CASE ~counted[m]
        BY <1>0, <1>11, <3>2 DEF ValueWallets
      <3>. QED BY <3>1, <3>2
    <2>4. counted' \in [Monitors -> BOOLEAN]
      BY <1>0, <1>11 DEF ValueWallets
    <2>. QED BY <1>0, <1>11, <2>1, <2>2, <2>3, <2>4 DEF ValueWallets, BoardType, world, history
  <1>12. ASSUME NEW m \in Monitors, Refresh(m)
         PROVE  BoardType'
    BY <1>1, <1>2, <1>7, <1>8, <1>9, <1>10, <1>11, <1>12
       DEF Refresh, LogsRaise, ValuationRaises, SaveScan, SaveDecimals, SaveBase, LogsAnswer, Steps
  <1>. QED BY <1>3, <1>4, <1>5, <1>6, <1>12, <1>13, <1>14 DEF Next

\* Every state of the board is well typed.
THEOREM BoardTyped == Spec => []BoardType
  BY BoardTypeInit, BoardTypeNext, PTL DEF Spec

-----------------------------------------------------------------------------
(* Every participant up to last_block *)

\* What a scan has passed is known already or found.
ScanComplete ==
    \A m \in Monitors : pc[m] = "scan" =>
        \A w \in Wallets : RegisteredAt[w] < scan[m].from /\ RegisteredAt[w] \notin skipped =>
            w \in mem[m].parts \cup scan[m].found

FieldInv == BoardType /\ FieldComplete /\ ScanComplete

LEMMA Blocks == \A w \in Wallets : RegisteredAt[w] \in Nat /\ RegisteredAt[w] >= 1
  BY BoardAssumption

\* The empty state claims nothing.
LEMMA BlankComplete == Complete(Blank.parts, Blank.last)
  BY Blocks DEF Complete, Blank

LEMMA FieldInit == Init => FieldInv
  BY BlankComplete, BoardTypeInit DEF Init, FieldInv, FieldComplete, ScanComplete

\* A step that leaves the scanned blocks, the scans and the states alone.
LEMMA FieldQuiet ==
    ASSUME FieldInv, BoardType', UNCHANGED <<mem, scan, skipped>>, disk'.st = disk.st,
           \A m \in Monitors : pc'[m] = "scan" => pc[m] = "scan"
    PROVE  FieldInv'
  BY DEF FieldInv, FieldComplete, ScanComplete, Complete

LEMMA FieldNext == FieldInv /\ [Next]_vars => FieldInv'
  <1>. SUFFICES ASSUME FieldInv, [Next]_vars PROVE FieldInv'
    OBVIOUS
  <1>0. /\ disk \in [kind : Kinds, st : State] /\ mem \in [Monitors -> State]
        /\ scan \in [Monitors -> Scan] /\ pc \in [Monitors -> Steps]
    BY DEF FieldInv, BoardType
  <1>t. BoardType /\ BoardType'
    BY BoardTypeNext DEF FieldInv
  <1>1. ASSUME NEW m \in Monitors, GiveUp(m)
        PROVE  FieldInv'
    <2>1. \A n \in Monitors : pc'[n] = "scan" => pc[n] = "scan" /\ n # m
      BY <1>1, <1>t, GotoType DEF GiveUp, Steps
    <2>2. \A n \in Monitors \ {m} : scan'[n] = scan[n]
      BY <1>0, <1>1 DEF GiveUp
    <2>3. UNCHANGED <<mem, disk, skipped>>
      BY <1>1 DEF GiveUp, history
    <2>. QED BY <1>t, <2>1, <2>2, <2>3 DEF FieldInv, FieldComplete, ScanComplete, Complete
  <1>2. ASSUME NEW m \in Monitors, NEW l \in Steps \ {"scan"}, SaveState(m, l)
        PROVE  FieldInv'
    <2>1. \A n \in Monitors : pc'[n] = "scan" => pc[n] = "scan"
      BY <1>2, <1>t, GotoType DEF SaveState
    <2>2. disk'.st = mem[m] /\ UNCHANGED <<mem, scan, skipped>>
      BY <1>2 DEF SaveState
    <2>. QED BY <1>t, <2>1, <2>2 DEF FieldInv, FieldComplete, ScanComplete, Complete
  <1>3. CASE NewBlock \/ WindowOpens \/ UNCHANGED vars
    <2>1. UNCHANGED <<mem, scan, skipped, disk, pc>>
      BY <1>3 DEF NewBlock, WindowOpens, vars, monitors, history
    <2>. QED BY <1>t, <2>1, FieldQuiet
  <1>4. ASSUME NEW m \in Monitors, Start(m)
        PROVE  FieldInv'
    <2>1. \A n \in Monitors : pc'[n] = "scan" => pc[n] = "scan" /\ n # m
      BY <1>4, <1>t, GotoType DEF Start, Steps
    <2>2. \A n \in Monitors \ {m} : mem'[n] = mem[n]
      BY <1>0, <1>4 DEF Start
    <2>3. mem'[m] = disk.st \/ mem'[m] = Blank
      BY <1>0, <1>4 DEF Start
    <2>4. UNCHANGED <<disk, scan, skipped>>
      BY <1>4 DEF Start
    <2>5. \A n \in Monitors : Complete(mem'[n].parts, mem'[n].last)
      BY <2>2, <2>3, BlankComplete DEF FieldInv, FieldComplete
    <2>. QED BY <1>t, <2>1, <2>2, <2>4, <2>5 DEF FieldInv, FieldComplete, ScanComplete, Complete
  <1>5. ASSUME NEW m \in Monitors, Stop(m)
        PROVE  FieldInv'
    <2>1. \A n \in Monitors : pc'[n] = "scan" => pc[n] = "scan" /\ n # m
      BY <1>5, <1>t, GotoType DEF Stop, Steps
    <2>2. /\ \A n \in Monitors \ {m} : mem'[n] = mem[n] /\ scan'[n] = scan[n]
          /\ mem'[m] = Blank
      BY <1>0, <1>5 DEF Stop
    <2>4. UNCHANGED <<disk, skipped>>
      BY <1>5 DEF Stop, history
    <2>5. \A n \in Monitors : Complete(mem'[n].parts, mem'[n].last)
      BY <2>2, BlankComplete DEF FieldInv, FieldComplete
    <2>. QED BY <1>t, <2>1, <2>2, <2>4, <2>5 DEF FieldInv, FieldComplete, ScanComplete, Complete
  <1>6. ASSUME NEW m \in Monitors, BeginRefresh(m)
        PROVE  FieldInv'
    <2>1. \A n \in Monitors \ {m} : pc'[n] = pc[n] /\ scan'[n] = scan[n]
      BY <1>0, <1>6, <1>t, GotoType DEF BeginRefresh, Steps
    <2>2. scan'[m].from = mem[m].last + 1
      BY <1>0, <1>6 DEF BeginRefresh
    <2>3. UNCHANGED <<mem, disk, skipped>>
      BY <1>6 DEF BeginRefresh, history
    <2>4. mem[m].last \in Int
      BY <1>0 DEF State
    <2>5. \A w \in Wallets : RegisteredAt[w] < scan'[m].from /\ RegisteredAt[w] \notin skipped
                               => w \in mem[m].parts
      BY <2>2, <2>4, Blocks DEF FieldInv, FieldComplete, Complete
    <2>6. ScanComplete'
      BY <2>1, <2>3, <2>5 DEF FieldInv, ScanComplete
    <2>. QED BY <1>t, <2>3, <2>6 DEF FieldInv, FieldComplete, Complete
  <1>7. ASSUME NEW m \in Monitors, Asking(m), LogsAnswer(m)
        PROVE  FieldInv'
    <2>. DEFINE end == ChunkEnd(scan[m])
    <2>1. PICK view \in 0 .. head :
            /\ scan' = [scan EXCEPT ![m].from = end + 1,
                        ![m].found = @ \cup {w \in Wallets :
                            RegisteredAt[w] \in scan[m].from .. Least(end, view)}]
            /\ skipped' = skipped \cup {b \in scan[m].from .. end : b > view}
      BY <1>7 DEF LogsAnswer
    <2>2. /\ \A n \in Monitors \ {m} : scan'[n] = scan[n]
          /\ scan'[m].from = end + 1
          /\ scan'[m].found = scan[m].found \cup {w \in Wallets :
                            RegisteredAt[w] \in scan[m].from .. Least(end, view)}
      BY <1>0, <2>1 DEF Scan
    <2>3. UNCHANGED <<pc, mem, disk>> /\ pc[m] = "scan"
      BY <1>7 DEF LogsAnswer, Asking
    <2>4. skipped \subseteq skipped'
      BY <2>1
    <2>5. end \in Int /\ scan[m].from \in Int /\ view \in Int
      BY <1>0, <1>t DEF ChunkEnd, Least, Scan, BoardType
    <2>6. ASSUME NEW w \in Wallets, RegisteredAt[w] < end + 1, RegisteredAt[w] \notin skipped'
          PROVE  w \in mem[m].parts \cup scan'[m].found
      <3>1. CASE RegisteredAt[w] < scan[m].from
        BY <2>2, <2>3, <2>4, <2>6, <3>1 DEF FieldInv, ScanComplete
      <3>2. CASE RegisteredAt[w] >= scan[m].from
        <4>. HIDE DEF end
        <4>1. RegisteredAt[w] \in scan[m].from .. end
          BY <2>5, <2>6, <3>2, Blocks
        <4>2. RegisteredAt[w] <= view
          BY <2>1, <2>5, <2>6, <4>1, Blocks
        <4>3. RegisteredAt[w] \in scan[m].from .. Least(end, view)
          BY <2>5, <4>1, <4>2, Blocks DEF Least
        <4>. QED BY <2>2, <4>3
      <3>. QED BY <2>5, <3>1, <3>2, Blocks
    <2>7. ScanComplete'
      BY <2>2, <2>3, <2>4, <2>6 DEF FieldInv, ScanComplete
    <2>. QED BY <1>t, <2>3, <2>4, <2>7 DEF FieldInv, FieldComplete, Complete
  <1>8. ASSUME NEW m \in Monitors, LogsRefused(m)
        PROVE  FieldInv'
    <2>1. \A n \in Monitors : scan'[n].from = scan[n].from /\ scan'[n].found = scan[n].found
      BY <1>0, <1>8 DEF LogsRefused, Scan
    <2>2. UNCHANGED <<pc, mem, disk, skipped>>
      BY <1>8 DEF LogsRefused, history
    <2>. QED BY <1>t, <2>1, <2>2 DEF FieldInv, FieldComplete, ScanComplete, Complete
  <1>9. ASSUME NEW m \in Monitors, Participants(m)
        PROVE  FieldInv'
    <2>1. \A n \in Monitors : pc'[n] = "scan" => pc[n] = "scan" /\ n # m
      BY <1>9, <1>t, GotoType DEF Participants, Steps
    <2>2. /\ \A n \in Monitors \ {m} : mem'[n] = mem[n] /\ scan'[n] = scan[n]
          /\ mem'[m].parts = mem[m].parts \cup scan[m].found
          /\ mem'[m].last = scan[m].to
      BY <1>0, <1>9 DEF Participants, State
    <2>3. disk'.st = disk.st /\ skipped' = skipped
      BY <1>0, <1>9 DEF Participants, history
    <2>4. scan[m].to < scan[m].from /\ scan[m].to \in Int /\ scan[m].from \in Int /\ pc[m] = "scan"
      BY <1>0, <1>9 DEF Participants, Scan
    <2>5. Complete(mem[m].parts, mem[m].last)'
      BY <2>2, <2>3, <2>4, Blocks DEF FieldInv, ScanComplete, Complete
    <2>6. FieldComplete'
      BY <2>2, <2>3, <2>5 DEF FieldInv, FieldComplete, Complete
    <2>7. ScanComplete'
      BY <2>1, <2>2, <2>3 DEF FieldInv, ScanComplete
    <2>. QED BY <1>t, <2>6, <2>7 DEF FieldInv
  <1>10. ASSUME NEW m \in Monitors, Decimals(m)
         PROVE  FieldInv'
    <2>1. \A n \in Monitors : pc'[n] = "scan" => pc[n] = "scan"
      BY <1>10, <1>t, GotoType DEF Decimals, Steps
    <2>2. UNCHANGED <<mem, scan, skipped>> /\ disk'.st = disk.st
      BY <1>0, <1>10 DEF Decimals, history
    <2>. QED BY <1>t, <2>1, <2>2, FieldQuiet
  <1>11. ASSUME NEW m \in Monitors, ValueWallets(m)
         PROVE  FieldInv'
    <2>1. \A n \in Monitors : pc'[n] = "scan" => pc[n] = "scan"
      BY <1>11, <1>t, GotoType DEF ValueWallets, Steps
    <2>2. UNCHANGED <<scan, skipped>> /\ disk'.st = disk.st
      BY <1>0, <1>11 DEF ValueWallets, history
    <2>3. \A n \in Monitors : mem'[n].parts = mem[n].parts /\ mem'[n].last = mem[n].last
      <3>1. mem' = mem \/ \E b : mem' = [mem EXCEPT ![m].base = b]
        BY <1>11 DEF ValueWallets
      <3>2. ASSUME NEW b, mem' = [mem EXCEPT ![m].base = b]
            PROVE  \A n \in Monitors : mem'[n].parts = mem[n].parts /\ mem'[n].last = mem[n].last
        BY <1>0, <3>2 DEF State
      <3>. QED BY <3>1, <3>2
    <2>. QED BY <1>t, <2>1, <2>2, <2>3 DEF FieldInv, FieldComplete, ScanComplete, Complete
  <1>12. ASSUME NEW m \in Monitors, Refresh(m)
         PROVE  FieldInv'
    BY <1>1, <1>2, <1>7, <1>8, <1>9, <1>10, <1>11, <1>12
       DEF Refresh, LogsRaise, ValuationRaises, SaveScan, SaveDecimals, SaveBase, LogsAnswer, Steps
  <1>. QED BY <1>3, <1>4, <1>5, <1>6, <1>12 DEF Next

\* For every set of wallets, registrations and chunk: whoever registered up to
\* last_block is a participant, but for blocks a node was asked about too early.
THEOREM FieldKept == Spec => []FieldComplete
  <1>1. FieldInv => FieldComplete
    BY DEF FieldInv
  <1>. QED BY <1>1, FieldInit, FieldNext, PTL DEF Spec

-----------------------------------------------------------------------------
(* The first baseline stands *)

\* A wallet's baseline is the first one saved, if one was.
Agrees(base) == \A w \in Wallets : first[w] # None => base[w] = first[w]

\* One monitor at a time: what it holds, and what the file holds, agrees with the
\* first that was saved; before there is a file nothing was.
AloneInv ==
    /\ \A m, n \in Monitors : m # n => pc[m] = "off" \/ pc[n] = "off"
    /\ Agrees(disk.st.base)
    /\ disk.kind = "none" => \A w \in Wallets : first[w] = None
    /\ \A m \in Monitors : pc[m] # "off" => Agrees(mem[m].base)

BaseInv == BoardType /\ (~overlap => AloneInv)

LEMMA BaseInit == Init => BaseInv
  BY BoardTypeInit DEF Init, BaseInv, AloneInv, Agrees

\* A step of a monitor that is up, and leaves the bases as they are.
LEMMA BaseQuiet ==
    ASSUME BaseInv, BoardType', UNCHANGED <<mem, first, overlap>>,
           disk'.st = disk.st, disk'.kind = "none" => disk.kind = "none",
           \A m \in Monitors : pc'[m] # "off" => pc[m] # "off"
    PROVE  BaseInv'
  BY DEF BaseInv, AloneInv, Agrees

LEMMA BaseNext == BaseInv /\ [Next]_vars => BaseInv'
  <1>. SUFFICES ASSUME BaseInv, [Next]_vars PROVE BaseInv'
    OBVIOUS
  <1>0. /\ disk \in [kind : Kinds, st : State] /\ mem \in [Monitors -> State]
        /\ pc \in [Monitors -> Steps] /\ overlap \in BOOLEAN
    BY DEF BaseInv, BoardType
  <1>t. BoardType /\ BoardType'
    BY BoardTypeNext DEF BaseInv
  <1>1. ASSUME NEW m \in Monitors, GiveUp(m), pc[m] # "off"
        PROVE  BaseInv'
    <2>1. \A n \in Monitors : pc'[n] # "off" => pc[n] # "off"
      BY <1>1, <1>t, GotoType DEF GiveUp, Steps
    <2>2. UNCHANGED <<mem, first, overlap, disk>>
      BY <1>1 DEF GiveUp, history
    <2>. QED BY <1>t, <2>1, <2>2, BaseQuiet
  <1>2. ASSUME NEW m \in Monitors, NEW l \in Steps, SaveState(m, l), pc[m] # "off"
        PROVE  BaseInv'
    <2>1. \A n \in Monitors : pc'[n] # "off" => pc[n] # "off"
      BY <1>2, <1>t, GotoType DEF SaveState
    <2>2. disk'.st = mem[m] /\ disk'.kind = "whole" /\ UNCHANGED <<mem, overlap>>
      BY <1>2 DEF SaveState
    <2>3. first' = [w \in Wallets |-> IF first[w] = None THEN mem[m].base[w] ELSE first[w]]
      BY <1>2 DEF SaveState, Remember
    <2>4. ASSUME ~overlap
          PROVE  AloneInv'
      <3>1. AloneInv
        BY <2>4 DEF BaseInv
      <3>2. \A w \in Wallets : first'[w] = mem[m].base[w]
        BY <1>2, <2>3, <3>1 DEF AloneInv, Agrees
      <3>3. \A n \in Monitors : pc'[n] # "off" => n = m
        BY <1>2, <2>1, <3>1 DEF AloneInv
      <3>. QED BY <2>2, <3>2, <3>3 DEF AloneInv, Agrees
    <2>. QED BY <1>t, <2>2, <2>4 DEF BaseInv
  <1>3. CASE NewBlock \/ WindowOpens \/ UNCHANGED vars
    <2>1. UNCHANGED <<mem, first, overlap, disk, pc>>
      BY <1>3 DEF NewBlock, WindowOpens, vars, monitors, history
    <2>. QED BY <1>t, <2>1, BaseQuiet
  <1>4. ASSUME NEW m \in Monitors, Start(m)
        PROVE  BaseInv'
    <2>1. \A n \in Monitors \ {m} : pc'[n] = pc[n] /\ mem'[n] = mem[n]
      BY <1>0, <1>4, <1>t, GotoType DEF Start, Steps
    <2>2. mem'[m] = IF disk.kind = "whole" THEN disk.st ELSE Blank
      BY <1>0, <1>4 DEF Start
    <2>3. UNCHANGED <<disk, first>> /\ disk.kind # "torn"
      BY <1>4 DEF Start
    <2>4. ASSUME ~overlap'
          PROVE  AloneInv'
      <3>1. AloneInv /\ \A n \in Monitors \ {m} : pc[n] = "off"
        BY <1>4, <2>4 DEF Start, BaseInv
      <3>2. Agrees(mem'[m].base)
        BY <1>0, <2>2, <2>3, <3>1 DEF AloneInv, Agrees, Kinds
      <3>3. \A n \in Monitors : pc'[n] # "off" => n = m
        BY <2>1, <3>1
      <3>. QED BY <2>3, <3>1, <3>2, <3>3 DEF AloneInv, Agrees
    <2>. QED BY <1>t, <2>4 DEF BaseInv
  <1>5. ASSUME NEW m \in Monitors, Stop(m)
        PROVE  BaseInv'
    <2>1. \A n \in Monitors : pc'[n] # "off" => pc[n] # "off" /\ n # m
      BY <1>5, <1>t, GotoType DEF Stop, Steps
    <2>2. \A n \in Monitors \ {m} : mem'[n] = mem[n]
      BY <1>0, <1>5 DEF Stop
    <2>3. UNCHANGED <<disk, first, overlap>>
      BY <1>5 DEF Stop, history
    <2>. QED BY <1>t, <2>1, <2>2, <2>3 DEF BaseInv, AloneInv, Agrees
  <1>6. ASSUME NEW m \in Monitors, BeginRefresh(m) \/ LogsAnswer(m) \/ LogsRefused(m)
        PROVE  BaseInv'
    <2>1. \A n \in Monitors : pc'[n] # "off" => pc[n] # "off"
      BY <1>6, <1>t, GotoType DEF BeginRefresh, LogsAnswer, LogsRefused, Steps
    <2>2. UNCHANGED <<mem, first, overlap, disk>>
      BY <1>6 DEF BeginRefresh, LogsAnswer, LogsRefused, history
    <2>. QED BY <1>t, <2>1, <2>2, BaseQuiet
  <1>7. ASSUME NEW m \in Monitors, Participants(m)
        PROVE  BaseInv'
    <2>1. \A n \in Monitors : pc'[n] # "off" => pc[n] # "off"
      BY <1>7, <1>t, GotoType DEF Participants, Steps
    <2>2. \A n \in Monitors : mem'[n].base = mem[n].base
      BY <1>0, <1>7 DEF Participants, State
    <2>3. /\ disk'.st = disk.st /\ disk'.kind # "none"
          /\ UNCHANGED <<first, overlap>>
      BY <1>0, <1>7 DEF Participants, history
    <2>. QED BY <1>t, <2>1, <2>2, <2>3 DEF BaseInv, AloneInv, Agrees
  <1>8. ASSUME NEW m \in Monitors, Decimals(m)
        PROVE  BaseInv'
    <2>1. \A n \in Monitors : pc'[n] # "off" => pc[n] # "off"
      BY <1>8, <1>t, GotoType DEF Decimals, Steps
    <2>2. /\ UNCHANGED <<mem, first, overlap>> /\ disk'.st = disk.st
          /\ disk'.kind = "none" => disk.kind = "none"
      BY <1>0, <1>8 DEF Decimals, history
    <2>. QED BY <1>t, <2>1, <2>2, BaseQuiet
  <1>9. ASSUME NEW m \in Monitors, ValueWallets(m)
        PROVE  BaseInv'
    <2>1. \A n \in Monitors : pc'[n] # "off" => pc[n] # "off"
      BY <1>9, <1>t, GotoType DEF ValueWallets, Steps
    <2>2. /\ UNCHANGED <<first, overlap>> /\ disk'.st = disk.st
          /\ disk'.kind = "none" => disk.kind = "none"
      BY <1>0, <1>9 DEF ValueWallets, history
    <2>3. \A n \in Monitors \ {m} : mem'[n] = mem[n]
      BY <1>0, <1>9 DEF ValueWallets
    <2>4. \A w \in Wallets : mem[m].base[w] # None => mem'[m].base[w] = mem[m].base[w]
      <3>1. CASE counted[m]
        <4>1. PICK usd \in [mem[m].parts -> Values] :
                 mem' = [mem EXCEPT ![m].base = [w \in Wallets |->
                            IF w \in mem[m].parts THEN Base(@, w, usd[w]) ELSE @[w]]]
          BY <1>9, <3>1 DEF ValueWallets
        <4>2. mem'[m].base = [w \in Wallets |->
                 IF w \in mem[m].parts THEN Base(mem[m].base, w, usd[w]) ELSE mem[m].base[w]]
          BY <1>0, <4>1 DEF State
        <4>. QED BY <4>2 DEF Base
      <3>2. CASE ~counted[m]
        BY <1>9, <3>2 DEF ValueWallets
      <3>. QED BY <3>1, <3>2
    <2>5. ASSUME AloneInv
          PROVE  Agrees(mem[m].base) /\ pc[m] # "off"
      BY <1>9, <2>5 DEF AloneInv, ValueWallets
    <2>. QED BY <1>t, <2>1, <2>2, <2>3, <2>4, <2>5 DEF BaseInv, AloneInv, Agrees
  <1>10. ASSUME NEW m \in Monitors, Refresh(m)
         PROVE  BaseInv'
    BY <1>1, <1>2, <1>6, <1>7, <1>8, <1>9, <1>10
       DEF Refresh, LogsRaise, Asking, ValuationRaises, SaveScan, SaveDecimals, SaveBase, Steps
  <1>. QED BY <1>3, <1>4, <1>5, <1>6, <1>10 DEF Next

\* As long as no second monitor was up beside it, the baseline on disk is the
\* first one saved, through any restarts and writes cut short.
THEOREM BaselinesStand == Spec => []BaselineStands
  <1>1. BaseInv => BaselineStands
    BY DEF BaseInv, AloneInv, Agrees, BaselineStands
  <1>. QED BY <1>1, BaseInit, BaseNext, PTL DEF Spec

-----------------------------------------------------------------------------
(* A scan comes to its end *)

ChunkInv == BoardType /\ \A m \in Monitors : pc[m] = "scan" => scan[m].chunk >= 1

LEMMA ChunkInit == Init => ChunkInv
  BY BoardTypeInit DEF Init, ChunkInv

\* The monitors whose scan a step touches are at its beginning, in it or out of it.
LEMMA ScanSteps ==
    ASSUME BoardType, [Next]_vars
    PROVE  \A m \in Monitors :
             \/ pc'[m] # "scan"
             \/ pc[m] = "scan" /\ scan'[m] = scan[m]
             \/ BeginRefresh(m) \/ LogsAnswer(m) \/ LogsRefused(m)
  <1>0. scan \in [Monitors -> Scan] /\ pc \in [Monitors -> Steps]
    BY DEF BoardType
  <1>. DEFINE Touch(m) == \/ pc'[m] # "scan"
                          \/ pc[m] = "scan" /\ scan'[m] = scan[m]
                          \/ BeginRefresh(m) \/ LogsAnswer(m) \/ LogsRefused(m)
  <1>1. ASSUME NEW n \in Monitors, NEW l \in Steps \ {"scan"}, Goto(n, l),
               \A m \in Monitors \ {n} : scan'[m] = scan[m]
        PROVE  \A m \in Monitors : Touch(m)
    BY <1>1, GotoType
  <1>2. CASE NewBlock \/ WindowOpens \/ UNCHANGED vars
    BY <1>2 DEF NewBlock, WindowOpens, vars, monitors
  <1>3. ASSUME NEW n \in Monitors, Start(n) \/ Stop(n) \/ GiveUp(n) \/ Participants(n)
        PROVE  \A m \in Monitors : Touch(m)
    <2>1. \A m \in Monitors \ {n} : scan'[m] = scan[m]
      BY <1>0, <1>3 DEF Start, Stop, GiveUp, Participants
    <2>. QED BY <1>1, <1>3, <2>1 DEF Start, Stop, GiveUp, Participants, Steps
  <1>4. ASSUME NEW n \in Monitors, Decimals(n) \/ ValueWallets(n)
        PROVE  \A m \in Monitors : Touch(m)
    BY <1>1, <1>4 DEF Decimals, ValueWallets, Steps
  <1>5. ASSUME NEW n \in Monitors, SaveScan(n) \/ SaveDecimals(n) \/ SaveBase(n)
        PROVE  \A m \in Monitors : Touch(m)
    BY <1>1, <1>5 DEF SaveScan, SaveDecimals, SaveBase, SaveState, Steps
  <1>6. ASSUME NEW n \in Monitors, BeginRefresh(n)
        PROVE  \A m \in Monitors : Touch(m)
    <2>1. \A m \in Monitors \ {n} : scan'[m] = scan[m] /\ pc'[m] = pc[m]
      BY <1>0, <1>6, GotoType DEF BeginRefresh, Steps
    <2>. QED BY <1>6, <2>1
  <1>7. ASSUME NEW n \in Monitors, LogsAnswer(n) \/ LogsRefused(n)
        PROVE  \A m \in Monitors : Touch(m)
    <2>1. \A m \in Monitors \ {n} : scan'[m] = scan[m] /\ pc'[m] = pc[m]
      BY <1>0, <1>7 DEF LogsAnswer, LogsRefused
    <2>. QED BY <1>7, <2>1
  <1>. QED BY <1>2, <1>3, <1>4, <1>5, <1>6, <1>7
           DEF Next, Refresh, LogsRaise, ValuationRaises

\* What an answer does to a scan.
LEMMA AnswerAdvances ==
    ASSUME ChunkInv, NEW m \in Monitors, LogsAnswer(m)
    PROVE  /\ scan[m].from < scan'[m].from /\ scan'[m].from <= scan[m].to + 1
           /\ scan'[m].chunk = scan[m].chunk
  <1>0. scan \in [Monitors -> Scan] /\ scan[m].chunk >= 1 /\ scan[m].from <= scan[m].to
    BY DEF ChunkInv, BoardType, LogsAnswer, Asking
  <1>1. scan'[m].from = ChunkEnd(scan[m]) + 1 /\ scan'[m].chunk = scan[m].chunk
    BY <1>0 DEF LogsAnswer, Scan
  <1>2. scan[m].from <= ChunkEnd(scan[m]) /\ ChunkEnd(scan[m]) <= scan[m].to
        /\ ChunkEnd(scan[m]) \in Int
    BY <1>0 DEF ChunkEnd, Least, Scan
  <1>. QED BY <1>0, <1>1, <1>2 DEF Scan

\* What a refusal does to it.
LEMMA RefusalShrinks ==
    ASSUME ChunkInv, NEW m \in Monitors, LogsRefused(m)
    PROVE  /\ scan'[m].from = scan[m].from
           /\ MinChunk <= scan'[m].chunk /\ scan'[m].chunk < scan[m].chunk
  <1>0. scan \in [Monitors -> Scan] /\ scan[m].chunk >= 1
    BY DEF ChunkInv, BoardType, LogsRefused, Asking
  <1>1. scan'[m].from = scan[m].from /\ scan'[m].chunk = scan[m].chunk \div 2
    BY <1>0 DEF LogsRefused, Scan
  <1>2. scan[m].chunk \div 2 < scan[m].chunk
    BY <1>0 DEF Scan
  <1>. QED BY <1>1, <1>2 DEF LogsRefused

LEMMA ChunkNext == ChunkInv /\ [Next]_vars => ChunkInv'
  <1>. SUFFICES ASSUME ChunkInv, [Next]_vars PROVE ChunkInv'
    OBVIOUS
  <1>t. BoardType /\ BoardType'
    BY BoardTypeNext DEF ChunkInv
  <1>1. ASSUME NEW m \in Monitors, pc'[m] = "scan"
        PROVE  scan'[m].chunk >= 1
    <2>1. CASE pc[m] = "scan" /\ scan'[m] = scan[m]
      BY <2>1 DEF ChunkInv
    <2>2. CASE BeginRefresh(m)
      <3>1. scan'[m].chunk = Chunk
        BY <1>t, <2>2 DEF BeginRefresh, BoardType
      <3>. QED BY <3>1, BoardAssumption
    <2>3. CASE LogsAnswer(m)
      BY <2>3, AnswerAdvances DEF ChunkInv, LogsAnswer, Asking
    <2>4. CASE LogsRefused(m)
      <3>1. scan'[m].chunk \in Int /\ MinChunk <= scan'[m].chunk
        BY <1>t, <2>4, RefusalShrinks DEF BoardType, Scan
      <3>. QED BY <3>1, BoardAssumption
    <2>. QED BY <1>1, <1>t, <2>1, <2>2, <2>3, <2>4, ScanSteps
  <1>. QED BY <1>1, <1>t DEF ChunkInv

\* For every chunk and every sequence of refusals a scan goes on or shrinks its
\* request towards the floor at which the next refusal ends it.
THEOREM ScansEnd == Spec => ScanProgresses
  <1>. DEFINE Progress(m) ==
          pc[m] = "scan" /\ pc'[m] = "scan" /\ scan'[m] # scan[m] =>
              \/ scan[m].from < scan'[m].from /\ scan'[m].from <= scan[m].to + 1
              \/ /\ scan'[m].from = scan[m].from
                 /\ MinChunk <= scan'[m].chunk /\ scan'[m].chunk < scan[m].chunk
  <1>1. ChunkInv /\ [Next]_vars => [\A m \in Monitors : Progress(m)]_vars
    <2>. SUFFICES ASSUME ChunkInv, [Next]_vars, NEW m \in Monitors PROVE Progress(m)
      OBVIOUS
    <2>1. CASE BeginRefresh(m)
      BY <2>1 DEF BeginRefresh
    <2>2. CASE LogsAnswer(m)
      BY <2>2, AnswerAdvances
    <2>3. CASE LogsRefused(m)
      BY <2>3, RefusalShrinks
    <2>. QED BY <2>1, <2>2, <2>3, ScanSteps DEF ChunkInv
  <1>2. Spec => []ChunkInv
    BY ChunkInit, ChunkNext, PTL DEF Spec
  <1>. QED BY <1>1, <1>2, PTL DEF Spec, ScanProgresses

===============================================================================
