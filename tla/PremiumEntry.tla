----------------------------- MODULE PremiumEntry -----------------------------
(***************************************************************************)
(* One token's way from the data to the report: the strategy's signal     *)
(* (agent/strategies), the paid tie-break in the grey zone                  *)
(* (agent/x402/premium.py, ledger.py), the swap call with its one retry     *)
(* (agent/twak/client.py) and the round trips the digest reconstructs       *)
(* (agent/monitor/digest.py).  TradingAgent models what the cycle does      *)
(* around it; here its gates and the executor's guards may block any entry. *)
(* TWAK, the seller of the analysis and the chain are external.             *)
(***************************************************************************)
EXTENDS Strategies, Sequences, SequencesExt

CONSTANTS
    Registry,   \* strategies that may be active
    MaxSteps, MaxCalls, MaxLog, \* bounds: a payment begins while there are fewer
                                \* swap calls, answers and faults than MaxSteps;
                                \* on swap calls and trades in the log
    MaxLost,    \* bound on swaps given up on and trades unlogged
    Faults      \* which of "answer", "ledger", "timeout", "log" may be lost

ASSUME EntryAssumption ==
    /\ Registry \subseteq Plugins
    /\ {MaxSteps, MaxCalls, MaxLog, MaxLost} \subseteq Nat

VARIABLES
    active,     \* the strategy
    look,       \* what the strategy says about the data as they are
    held,       \* the position in the wallet, 0 for none
    by,         \* why it was bought: "signal", "premium", or "past" once the
                \* data have changed since
    pc,
    call,       \* the swap at hand: its side, what led to it, whether it is at its
                \* second attempt
    paid,       \* payments that left the wallet
    free,       \* answers that asked for no payment (history)
    lines,      \* spends of payments.jsonl that can be read
    half,       \* does the file end in the middle of a line?
    faults,     \* answers lost and writes that failed
    calls,      \* swap calls so far
    flight,     \* swaps given up on that may still be mined
    mined,      \* swaps mined for each call
    misled,     \* calls that were retried over a swap under way (history)
    log,        \* trade_executed events
    gaps        \* lengths of the log when a trade went unlogged

data == <<active, look>>
money == <<paid, free, lines, half, faults>>
wallet == <<held, by>>
twak == <<call, calls, flight, mined, misled>>
NoCall == [side |-> "none", how |-> "past", again |-> FALSE]
report == <<log, gaps>>
vars == <<data, money, wallet, twak, report, pc>>

\* What each strategy can say about a state of the data.
Says == UNION {{<<s, o>> : o \in Outlooks(s)} : s \in Registry}

Init ==
    /\ \E s \in Says : active = s[1] /\ look = s[2]
    /\ held = 0 /\ by = "past" /\ pc = "idle" /\ call = NoCall
    /\ paid = 0 /\ free = 0 /\ lines = 0 /\ half = FALSE /\ faults = 0
    /\ calls = 0 /\ flight = {} /\ mined = [c \in 1 .. MaxCalls |-> 0]
    /\ misled = {} /\ log = <<>> /\ gaps = {}

-----------------------------------------------------------------------------
(* The signal *)

\* A new bar: the series is hourly, a cycle comes every five minutes.
NewData ==
    /\ pc = "idle"
    /\ \E s \in Says : active = s[1] /\ look' = s[2]
    /\ by' = "past" /\ flight' = {[f EXCEPT !.how = "past"] : f \in flight}
    /\ UNCHANGED <<active, money, held, call, calls, mined, misled, report, pc>>

\* The call the executor makes once nothing objects to the proposal.
Propose(s, h) ==
    /\ calls < MaxCalls /\ calls' = calls + 1
    /\ Len(log) < MaxLog
    /\ call' = [side |-> s, how |-> h, again |-> FALSE]
    /\ pc' = "swap"
    /\ UNCHANGED <<flight, mined, misled>>

SellSignal ==
    /\ pc = "idle" /\ held # 0 /\ look.held.action = "sell"
    /\ Propose("sell", "signal")
    /\ UNCHANGED <<data, money, wallet, report>>

BuySignal ==
    /\ pc = "idle" /\ held = 0 /\ look.flat.action = "buy"
    /\ Propose("buy", "signal")
    /\ UNCHANGED <<data, money, wallet, report>>

\* The grey zone under a CONFLICTED regime with entries open: pay first; what the
\* answer is good for is asked afterwards.
GreyZoneSignal ==
    /\ pc = "idle" /\ held = 0 /\ look.flat.grey
    /\ calls + paid + free + faults < MaxSteps
    /\ pc' = "paying"
    /\ UNCHANGED <<data, money, wallet, twak, report>>

-----------------------------------------------------------------------------
(* The tie-break *)

\* Mutant: the spend is booked before the outcome is known.
BookedAlways(outcome) == TRUE

\* A TwakError ends the call without a line in the ledger; any answer gets one.
Booked(outcome) == outcome \in {"answered", "free"}

\* x402_request: an answer for a payment, an answer that asked for none, a
\* refusal before paying, or a payment whose answer never came.
Pay(outcome) ==
    /\ pc = "paying"
    /\ outcome = "lost" => "answer" \in Faults
    /\ paid' = IF outcome \in {"answered", "lost"} THEN paid + 1 ELSE paid
    /\ free' = IF outcome = "free" THEN free + 1 ELSE free
    /\ faults' = IF outcome = "lost" THEN faults + 1 ELSE faults
    /\ pc' = IF Booked(outcome) THEN "spend" ELSE "idle"
    /\ UNCHANGED <<data, lines, half, wallet, twak, report>>

\* What summarize will count: every line that parses, whether or not it names a
\* payment; one that was appended to half a line does not.
InRows == IF half THEN lines ELSE lines + 1

\* record_spend appends one line of one call's price.  A failing write is logged
\* and forgotten, and may leave half a line.
RecordSpend ==
    /\ pc = "spend"
    /\ \/ /\ lines' = InRows /\ half' = FALSE /\ UNCHANGED faults
       \/ /\ "ledger" \in Faults /\ faults' = faults + 1
          /\ half' \in {half, TRUE} /\ UNCHANGED lines
    /\ pc' = "verdict"
    /\ UNCHANGED <<data, paid, free, wallet, twak, report>>

\* _unwrap_mcp: of an answer in the form MCP gives it the payload is left, and
\* _verdict_strings finds its readings; of any other there is nothing or a bare
\* text, and neither has a reading under a verdict's key.
Answers == [form : {"mcp", "text", "nothing"}, says : SUBSET {"bullish", "bearish"}]
Found(answer) == IF answer.form = "mcp" THEN answer.says ELSE {}

\* confirms_entry: only a bullish reading without a bearish one beside it is a yes.
Confirms(found) == found = {"bullish"}

\* After a yes the cooldown, the edge floor, the volume, the size or one of the
\* executor's guards may still say no.
Verdict(answer) ==
    /\ pc = "verdict"
    /\ \/ Confirms(Found(answer)) /\ Propose("buy", "premium")
       \/ pc' = "idle" /\ UNCHANGED twak
    /\ UNCHANGED <<data, money, wallet, report>>

-----------------------------------------------------------------------------
(* The swap *)

Ids == 1 .. MaxCalls

\* A mined swap changes the wallet: a buy is a position of its own, named after
\* its call; a sell takes the whole balance and reverts when there is none.
Settle(c, s, h) ==
    IF s = "buy" THEN /\ held' = c /\ by' = h
                      /\ mined' = [mined EXCEPT ![c] = @ + 1]
    ELSE /\ held' = 0 /\ by' = "past"
         /\ mined' = IF held = 0 THEN mined ELSE [mined EXCEPT ![c] = @ + 1]

CanLose(what) == what \in Faults /\ Cardinality(flight) + Cardinality(gaps) < MaxLost

\* Mutant: every failed call is tried again.
RetriesAny(error) == TRUE

\* _is_approval_race: the error's text says one of three phrases, anywhere in it.
Retries(error) == error.phrase

\* The executor has its answer and logs the trade; an exit's line belongs to
\* the position it closes.
SwapMined ==
    /\ pc = "swap"
    /\ call.side = "sell" => held # 0
    /\ Settle(calls, call.side, call.how)
    /\ \/ /\ log' = Append(log, [side |-> call.side,
                                  id |-> IF call.side = "buy" THEN calls ELSE held])
          /\ UNCHANGED gaps
       \/ CanLose("log") /\ gaps' = gaps \cup {Len(log)} /\ UNCHANGED log
    /\ pc' = "idle" /\ call' = NoCall
    /\ UNCHANGED <<data, money, calls, flight, misled>>

\* What TwakClient._run raises: no CLI, 180 s gone, an exit with an error, an exit
\* 0 whose output is not JSON.  The texts of the last two quote what twak printed,
\* and with it whatever reason, its own or the chain's, is in there.
CliErrors == [kind : {"missing", "timeout"}, phrase : {FALSE}]
                \cup [kind : {"exited", "garbled"}, phrase : BOOLEAN]

\* What TwakRestClient._post raises: no answer from the server (its own timeout is
\* one of these), an answer that is not JSON, a refusal; the last two are quoted.
RestErrors == [kind : {"unreachable"}, phrase : {FALSE}]
                 \cup [kind : {"garbled", "refused"}, phrase : BOOLEAN]

\* An attempt fails and is followed by the second one, or the call fails.  Unless
\* there was nobody to ask, its swap may be under way, or done, all the same.
AttemptFails(error) ==
    /\ \/ UNCHANGED <<flight, misled>>
       \/ /\ error.kind # "missing" /\ CanLose("timeout")
          /\ flight' = flight \cup {[id |-> calls, side |-> call.side, how |-> call.how,
                                     again |-> call.again]}
          /\ misled' = IF error.phrase /\ ~call.again THEN misled \cup {calls} ELSE misled
    /\ IF Retries(error) /\ ~call.again
       THEN call' = [call EXCEPT !.again = TRUE] /\ UNCHANGED pc
       ELSE pc' = "idle" /\ call' = NoCall
    /\ UNCHANGED <<data, money, wallet, calls, mined, report>>

CliSwapFails(error) == pc = "swap" /\ AttemptFails(error)

\* The REST client first asks for a price to turn the dollars of a buy into an
\* amount; a failure there is not caught.
RestSwapFails(error) ==
    /\ pc = "swap"
    /\ \/ AttemptFails(error)
       \/ /\ ~call.again /\ call.side = "buy"
          /\ pc' = "idle" /\ call' = NoCall
          /\ UNCHANGED <<data, money, wallet, calls, flight, mined, misled, report>>

\* It is mined after all, at any time, and nobody logs it.
LateSwap(f) ==
    /\ f \in flight /\ flight' = flight \ {f}
    /\ \/ Settle(f.id, f.side, f.how) /\ gaps' = gaps \cup {Len(log)}
       \/ UNCHANGED <<wallet, mined, gaps>>
    /\ UNCHANGED <<data, money, call, calls, misled, log, pc>>

\* The daily compliance swap between the stables is a trade of the log as well.
ComplianceSwap ==
    /\ pc = "idle" /\ Len(log) < MaxLog
    /\ log' = Append(log, [side |-> "stable", id |-> 0])
    /\ UNCHANGED <<data, money, wallet, twak, gaps, pc>>

Next ==
    \/ NewData \/ SellSignal \/ BuySignal \/ GreyZoneSignal
    \/ \E outcome \in {"answered", "free", "refused", "lost"} : Pay(outcome)
    \/ RecordSpend
    \/ \E answer \in Answers : Verdict(answer)
    \/ SwapMined
    \/ \E error \in CliErrors : CliSwapFails(error)
    \/ \E error \in RestErrors : RestSwapFails(error)
    \/ \E f \in flight : LateSwap(f)
    \/ ComplianceSwap

Spec == Init /\ [][Next]_vars

-----------------------------------------------------------------------------
(* The digest *)

\* Mutant: the entry stays in the queue.
PairKept(acc, t) ==
    CASE t.side = "buy" -> [acc EXCEPT !.open = Append(@, t.id)]
      [] t.side = "sell" /\ acc.open # <<>> ->
            [acc EXCEPT !.trips = @ \cup {<<Head(acc.open), t.id>>}]
      [] OTHER -> acc

\* build_digest: an exit takes the oldest entry of its token still open in the
\* period, and is passed over when there is none.
Pair(acc, t) ==
    CASE t.side = "buy" -> [acc EXCEPT !.open = Append(@, t.id)]
      [] t.side = "sell" /\ acc.open # <<>> ->
            [open |-> Tail(acc.open), trips |-> acc.trips \cup {<<Head(acc.open), t.id>>}]
      [] OTHER -> acc

RoundTrips(trades) == FoldLeft(Pair, [open |-> <<>>, trips |-> {}], trades).trips

-----------------------------------------------------------------------------
(* Properties *)

\* A position the strategy's own signal opened is not sold by its signal while
\* the data are the same: entry and exit rules of the strategies do not overlap,
\* so that a cycle does not undo the one before (evaluate of the strategies).
NoChurn == pc = "swap" /\ call.side = "sell" /\ held # 0 => by # "signal"

\* A swap call mines two swaps at most, and two only if the text of its first
\* failure named an approval race while that attempt's swap was under way, however
\* late either is mined (swap, _is_approval_race).
SwapsPerCall == \A c \in Ids : mined[c] <= 2 /\ (mined[c] = 2 => c \in misled)

\* The spends the report counts are the answers the seller gave, so that they are
\* more than the payments made by the answers that were free at most; and a fault
\* takes at most two answers or payments off them: its own, and one whose line was
\* joined to half a line (mcp_paid_call, record_spend, summarize).
SpendsOnRecord ==
    LET spent == lines + (IF pc = "spend" THEN 1 ELSE 0)
    IN  spent <= paid + free /\ paid + free <= spent + 2 * faults

\* Over any period whose trades are all in the log, a reported round trip joins an
\* exit with the entry of the position it closed, though the period may begin
\* while a position is open (build_digest).
DigestPairs ==
    \A k \in 0 .. Len(log) :
        (\A g \in gaps : g < k) =>
            \A trip \in RoundTrips(SubSeq(log, k + 1, Len(log))) : trip[1] = trip[2]
===============================================================================
