----------------------------- MODULE Leaderboard -----------------------------
(***************************************************************************)
(* The competition board (agent/monitor/leaderboard.py): an incremental     *)
(* scan of Registered events through the RPC pool (agent/chain.py), the     *)
(* valuation of every participant, the baselines, and the state file.       *)
(* A monitor lives in the agent (its periodic report) and another in        *)
(* scripts/leaderboard.py or daily_digest.py; each keeps the state it read  *)
(* when it began and writes it whole.  The chain, its nodes and CMC are      *)
(* external.                                                                *)
(***************************************************************************)
EXTENDS Integers

CONSTANTS
    Wallets,
    RegisteredAt,   \* the block of each wallet's Registered event
    MaxBlock,       \* bound on the chain
    Chunk,          \* blocks of the first eth_getLogs request
    MinChunk        \* the least worth asking for

Monitors == {"agent", "script"}

ASSUME BoardAssumption ==
    /\ MaxBlock \in Nat /\ {Chunk, MinChunk} \subseteq Nat \ {0}
    /\ RegisteredAt \in [Wallets -> 1 .. MaxBlock]

None == -1
Values == {0, 2}            \* a valuation: dust, or real capital
Blank == [parts |-> {}, last |-> 0, base |-> [w \in Wallets |-> None]]

VARIABLES
    head,           \* the chain's last block
    open,           \* the trading window has begun
    disk,           \* leaderboard_state.json: its kind and state
    \* the monitors
    pc,
    mem,            \* self.state
    scan,           \* get_logs at work: [from, to, chunk, found]
    counted,        \* refresh's now was inside the window
    \* history, read by no action
    skipped,        \* blocks a node was asked about before it had them
    first,          \* the baseline each wallet had when one was first saved
    overlap         \* both monitors were up at once

monitors == <<pc, mem, scan, counted>>
world == <<head, open>>
history == <<skipped, first, overlap>>
vars == <<world, disk, monitors, history>>

Idle == [from |-> 1, to |-> 0, chunk |-> 0, found |-> {}]
Steps == {"off", "idle", "scan", "saveScan", "value", "saveDecimals", "price", "saveBase"}
Kinds == {"none", "torn", "whole"}
States == [parts : SUBSET Wallets, last : 0 .. MaxBlock,
           base : [Wallets -> Values \cup {None}]]

\* Every variable has its type, and no scan asks for a block that cannot be.
TypeOK ==
    /\ head \in 0 .. MaxBlock /\ open \in BOOLEAN
    /\ disk.kind \in Kinds /\ disk.st \in States
    /\ pc \in [Monitors -> Steps] /\ mem \in [Monitors -> States]
    /\ \A m \in Monitors : /\ scan[m].from \in 1 .. MaxBlock + 1
                           /\ scan[m].to \in 0 .. MaxBlock
                           /\ scan[m].chunk \in 0 .. Chunk
                           /\ scan[m].found \subseteq Wallets
    /\ counted \in [Monitors -> BOOLEAN]
    /\ skipped \subseteq 1 .. MaxBlock
    /\ first \in [Wallets -> Values \cup {None}] /\ overlap \in BOOLEAN

Init ==
    /\ head = 0 /\ open = FALSE
    /\ disk = [kind |-> "none", st |-> Blank]
    /\ pc = [m \in Monitors |-> "off"] /\ mem = [m \in Monitors |-> Blank]
    /\ scan = [m \in Monitors |-> Idle]
    /\ counted = [m \in Monitors |-> FALSE]
    /\ skipped = {} /\ first = [w \in Wallets |-> None] /\ overlap = FALSE

-----------------------------------------------------------------------------
(* The world *)

NewBlock ==
    /\ head < MaxBlock /\ head' = head + 1
    /\ UNCHANGED <<open, disk, monitors, history>>

WindowOpens ==
    /\ ~open /\ open' = TRUE
    /\ UNCHANGED <<head, disk, monitors, history>>

Goto(m, l) == pc' = [pc EXCEPT ![m] = l]

\* The state file is read once; one that is torn raises, and nothing starts (the
\* agent tries again with its next report).
Start(m) ==
    /\ pc[m] = "off"
    /\ disk.kind # "torn"
    /\ Goto(m, "idle")
    /\ mem' = [mem EXCEPT ![m] = IF disk.kind = "whole" THEN disk.st ELSE Blank]
    /\ overlap' = (overlap \/ \E n \in Monitors \ {m} : pc[n] # "off")
    /\ UNCHANGED <<world, disk, scan, counted, skipped, first>>

\* The process ends, by itself or not, and leaves the file as it is.
Stop(m) ==
    /\ pc[m] # "off"
    /\ Goto(m, "off")
    /\ mem' = [mem EXCEPT ![m] = Blank] /\ scan' = [scan EXCEPT ![m] = Idle]
    /\ counted' = [counted EXCEPT ![m] = FALSE]
    /\ UNCHANGED <<world, disk, history>>

-----------------------------------------------------------------------------
(* The file: Path.write_text truncates, then fills (the bytes of two writers
   that overlap are not told apart from those of the last) *)

\* The first baseline on disk is remembered.
Remember(st) ==
    first' = [w \in Wallets |-> IF first[w] = None THEN st.base[w] ELSE first[w]]

\* _save after the scan, after new decimals, after new baselines.
SaveState(m, next) ==
    /\ disk' = [kind |-> "whole", st |-> mem[m]] /\ Remember(mem[m])
    /\ Goto(m, next)
    /\ UNCHANGED <<world, mem, scan, counted, skipped, overlap>>

SaveScan(m) == pc[m] = "saveScan" /\ SaveState(m, "value")
SaveDecimals(m) == pc[m] = "saveDecimals" /\ SaveState(m, "price")
SaveBase(m) == pc[m] = "saveBase" /\ SaveState(m, "idle")

-----------------------------------------------------------------------------
(* refresh_participants and Rpc.get_logs *)

\* Mutant: the scan begins one block too late.
BeginRefreshLate(m) ==
    /\ pc[m] = "idle"
    /\ \E h \in 0 .. head :
          scan' = [scan EXCEPT ![m] = [from |-> mem[m].last + 2, to |-> h,
                                       chunk |-> Chunk, found |-> {}]]
    /\ counted' = [counted EXCEPT ![m] = open]
    /\ Goto(m, "scan")
    /\ UNCHANGED <<world, disk, mem, history>>

\* refresh: its now, and the head as some node of the pool sees it, perhaps
\* behind the one that answered last time.
BeginRefresh(m) ==
    /\ pc[m] = "idle"
    /\ \E h \in 0 .. head :
          scan' = [scan EXCEPT ![m] = [from |-> mem[m].last + 1, to |-> h,
                                       chunk |-> Chunk, found |-> {}]]
    /\ counted' = [counted EXCEPT ![m] = open]
    /\ Goto(m, "scan")
    /\ UNCHANGED <<world, disk, mem, history>>

Least(a, b) == IF a <= b THEN a ELSE b
ChunkEnd(s) == Least(s.from + s.chunk - 1, s.to)
Asking(m) == pc[m] = "scan" /\ scan[m].from <= scan[m].to

\* Some node answers for one chunk; of blocks it has not seen it knows nothing.
LogsAnswer(m) ==
    /\ Asking(m)
    /\ LET s == scan[m]  end == ChunkEnd(s) IN
       \E view \in 0 .. head :
          /\ scan' = [scan EXCEPT ![m].from = end + 1,
                        ![m].found = @ \cup {w \in Wallets :
                            RegisteredAt[w] \in s.from .. Least(end, view)}]
          /\ skipped' = skipped \cup {b \in s.from .. end : b > view}
    /\ UNCHANGED <<world, disk, pc, mem, counted, first, overlap>>

\* No node of the pool answers: half the chunk, until it is too small.
LogsRefused(m) ==
    /\ Asking(m)
    /\ scan[m].chunk \div 2 >= MinChunk
    /\ scan' = [scan EXCEPT ![m].chunk = @ \div 2]
    /\ UNCHANGED <<world, disk, pc, mem, counted, history>>

\* Mutant: the chunk has no lower bound.
LogsNeverRaise(m) ==
    /\ Asking(m)
    /\ scan[m].chunk \div 2 < MinChunk
    /\ scan' = [scan EXCEPT ![m].chunk = @ \div 2]
    /\ UNCHANGED <<world, disk, pc, mem, counted, history>>

\* A refresh that fails is given up; what the monitor had learned stays.
GiveUp(m) ==
    /\ Goto(m, "idle")
    /\ scan' = [scan EXCEPT ![m] = Idle] /\ counted' = [counted EXCEPT ![m] = FALSE]
    /\ UNCHANGED <<world, disk, mem, history>>

LogsRaise(m) ==
    /\ Asking(m)
    /\ scan[m].chunk \div 2 < MinChunk
    /\ GiveUp(m)

\* The scan is over: the participants grow, the head is kept, the file is opened.
Participants(m) ==
    /\ pc[m] = "scan" /\ scan[m].from > scan[m].to
    /\ mem' = [mem EXCEPT ![m].parts = @ \cup scan[m].found, ![m].last = scan[m].to]
    /\ scan' = [scan EXCEPT ![m] = Idle]
    /\ disk' = [disk EXCEPT !.kind = "torn"]
    /\ Goto(m, "saveScan")
    /\ UNCHANGED <<world, counted, history>>

-----------------------------------------------------------------------------
(* value_wallets *)

\* _decimals: the state is saved again when a token's were missing.
Decimals(m) ==
    /\ pc[m] = "value"
    /\ \/ Goto(m, "price") /\ UNCHANGED disk
       \/ /\ disk' = [disk EXCEPT !.kind = "torn"]
          /\ Goto(m, "saveDecimals")
    /\ UNCHANGED <<world, mem, scan, counted, history>>

\* Mutant: every valuation is a new baseline.
BaseAlways(base, w, usd) == usd

Base(base, w, usd) == IF base[w] = None THEN usd ELSE base[w]

\* Balances and prices: a token without a price, or a sub-call that failed,
\* counts for nothing, so any valuation may come out.
ValueWallets(m) ==
    /\ pc[m] = "price"
    /\ IF counted[m]
       THEN /\ \E usd \in [mem[m].parts -> Values] :
                  mem' = [mem EXCEPT ![m].base = [w \in Wallets |->
                             IF w \in mem[m].parts THEN Base(@, w, usd[w]) ELSE @[w]]]
            /\ disk' = [disk EXCEPT !.kind = "torn"]
            /\ Goto(m, "saveBase")
       ELSE Goto(m, "idle") /\ UNCHANGED <<mem, disk>>
    /\ counted' = [counted EXCEPT ![m] = FALSE]
    /\ UNCHANGED <<world, scan, history>>

\* A multicall or the quotes fail as a whole.
ValuationRaises(m) == pc[m] \in {"value", "price"} /\ GiveUp(m)

-----------------------------------------------------------------------------
Refresh(m) ==
    \/ LogsAnswer(m) \/ LogsRefused(m) \/ LogsRaise(m) \/ Participants(m)
    \/ Decimals(m) \/ ValueWallets(m)
    \/ SaveScan(m) \/ SaveDecimals(m) \/ SaveBase(m)
    \/ ValuationRaises(m)

Next ==
    \/ NewBlock \/ WindowOpens
    \/ \E m \in Monitors : Start(m) \/ Stop(m) \/ BeginRefresh(m) \/ Refresh(m)

Spec == Init /\ [][Next]_vars

-----------------------------------------------------------------------------
(* Properties *)

Complete(parts, last) ==
    \A w \in Wallets : RegisteredAt[w] <= last /\ RegisteredAt[w] \notin skipped => w \in parts

\* Whoever registered up to last_block is a participant, in memory and on disk,
\* through restarts, failed refreshes, nodes that lag and a second monitor that
\* writes older state; only a block that a node was asked about before it had it
\* is lost (refresh_participants, get_logs).
FieldComplete ==
    /\ \A m \in Monitors : Complete(mem[m].parts, mem[m].last)
    /\ Complete(disk.st.parts, disk.st.last)

\* As long as no second monitor was up beside it, the baseline on disk is the
\* first one ever saved, through restarts and writes cut short (refresh, _save).
BaselineStands ==
    ~overlap /\ disk.kind = "whole" =>
        \A w \in Wallets : first[w] # None => disk.st.base[w] = first[w]

\* Every answer, and every refusal that is not the last, brings the end of a scan
\* nearer: the first unread block rises, or the chunk shrinks above its floor.
\* No sequence of refusals keeps a refresh in get_logs for ever.
ScanProgresses ==
    [][\A m \in Monitors :
          pc[m] = "scan" /\ pc'[m] = "scan" /\ scan'[m] # scan[m] =>
              \/ scan[m].from < scan'[m].from /\ scan'[m].from <= scan[m].to + 1
              \/ /\ scan'[m].from = scan[m].from
                 /\ MinChunk <= scan'[m].chunk /\ scan'[m].chunk < scan[m].chunk]_vars
===============================================================================
