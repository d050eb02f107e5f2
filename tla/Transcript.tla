------------------------------ MODULE Transcript ------------------------------
(***************************************************************************)
(* The conversation of the Pro thread and its copy in the journal: the     *)
(* loop of run_loop (runtime/loop/cycle.py) as far as it changes history,  *)
(* the drives of a lab that share one thread (drive_pro, runtime/lab/      *)
(* flow.py), and the incremental persistence by tx_delta and tx_snapshot   *)
(* (runtime/lab/journal.py).                                               *)
(*                                                                         *)
(* A message is known by its kind.  The responses to the calls of one      *)
(* assistant message are appended together and are one message here.       *)
(***************************************************************************)
EXTENDS Integers, Sequences, FiniteSets, SequencesExt, FiniteSetsExt

CONSTANTS
    KeepTurns,      \* compact_keep_recent_turns
    MaxLen,         \* bound of the model: no turn starts with a longer history
    CancelInTools,  \* whether a stop or the deadline may hit a turn in its tools
    ModelNamesCalls \* whether the model gives its calls ids

ASSUME TranscriptAssumption ==
    MaxLen \in Nat /\ KeepTurns \in Nat \ {0} /\ {CancelInTools, ModelNamesCalls} \subseteq BOOLEAN

VARIABLES
    raw,        \* the transcript as the tx events of the journal add it up
    txLen,      \* Journal._tx_len: how much of the history is durable
    pro,        \* LabState.pro_history
    history,    \* history of the drive in progress
    compacted,  \* compacted_pending
    at          \* "off", "idle" (between drives), "turn", "tools"

vars == <<raw, txLen, pro, history, compacted, at>>

User == "user"          \* request, state update or summary
Pinned == "pinned"      \* instruction, changed products or nudge: never summarized
Control == "control"    \* the message drive_pro opens a phase with
Text == "text"          \* assistant without calls
Calls == "calls"        \* assistant with tool_calls
Tools == "tools"        \* the responses to all calls of the message before
Messages == {User, Pinned, Control, Text, Calls, Tools}

Prefix(s, n) == SubSeq(s, 1, n)

\* drop_dangling_tool_calls: the last message with calls, if it was not
\* answered, goes, and what follows it goes with it.
DropDangling(s) ==
    LET owners == {i \in DOMAIN s : s[i] = Calls}
        last == CHOOSE i \in owners : \A k \in owners : k <= i
        answered == \E k \in DOMAIN s : k > last /\ s[k] = Tools
    IN  IF owners = {} \/ answered THEN s ELSE Prefix(s, last - 1)

\* Slip: the increment is written as the whole.
IncrementIsWhole(r, len, h, whole) ==
    IF whole \/ Len(h) < len THEN h ELSE SubSeq(h, len + 1, Len(h))

\* append_transcript: the events and the _tx_len after it.
Appended(r, len, h, whole) ==
    IF whole \/ Len(h) < len THEN h ELSE r \o SubSeq(h, len + 1, Len(h))

Flush(h) ==
    /\ raw' = Appended(raw, txLen, h, compacted)
    /\ txLen' = Len(h)
    /\ compacted' = FALSE

Init ==
    /\ raw = <<>> /\ txLen = 0
    /\ pro = <<>> /\ history = <<>>
    /\ compacted = FALSE
    /\ at = "off"

GoOff == at' = "off" /\ pro' = <<>> /\ history' = <<>>

-----------------------------------------------------------------------------
(* Between drives *)

\* Slip: _tx_len counts from zero after a resume.
FromZero(s) == 0

\* LabState.restore, sync_tx
Synced(s) == Len(s)

\* An instruction, or products that changed, are told to a thread that exists;
\* changed products also open one.
Told(tx, news) ==
    IF news = "nothing" \/ (news = "instruction" /\ tx = <<>>) THEN tx
    ELSE Append(IF tx = <<>> THEN <<User>> ELSE DropDangling(tx), Pinned)

\* A run starts: replay, after the event of what is new if there is any.
Start(news) ==
    /\ at = "off"
    /\ news # "nothing" => Len(raw) < MaxLen
    /\ raw' = Told(raw, news)
    /\ pro' = DropDangling(raw')
    /\ txLen' = Synced(pro')
    /\ compacted' = FALSE
    /\ at' = "idle"
    /\ UNCHANGED history

\* _seed_pro_thread
Seeded(s) == IF s = <<>> THEN <<User>> ELSE s

\* _append_state: SPEC or notes changed; durable at once.
AppendState ==
    /\ at = "idle" /\ Len(pro) < MaxLen
    /\ pro' = Append(Seeded(pro), User)
    /\ raw' = Appended(raw, txLen, pro', FALSE)
    /\ txLen' = Len(pro')
    /\ UNCHANGED <<history, compacted, at>>

\* The control message of a phase that was interrupted right after it was
\* opened is there already; same: it asks what was asked then.
Opened(s, same) == IF same /\ s # <<>> /\ s[Len(s)] = Control THEN s ELSE Append(s, Control)

\* A drive starts; run_loop flushes before its first turn.
Drive(same) ==
    /\ at = "idle" /\ Len(pro) < MaxLen
    /\ history' = Opened(Seeded(pro), same)
    /\ pro' = Seeded(pro)
    /\ Flush(history')
    /\ at' = "turn"

-----------------------------------------------------------------------------
(* run_loop *)

\* Every way out of a turn or a drive flushes.
NextTurn(h) == history' = h /\ Flush(h) /\ at' = "turn" /\ UNCHANGED pro
EndDrive(h) == Flush(h) /\ pro' = DropDangling(h) /\ history' = <<>> /\ at' = "idle"

\* Slip: every message is a turn of its own.
EveryMessage(s) == DOMAIN s

\* split_turns: the responses belong to the turn of their calls.
TurnStarts(s) == {i \in DOMAIN s : s[i] # Tools}

\* Slip: all turns are summarized alike.
Unpinned(s) == TurnStarts(s)

Movable(s) == {i \in TurnStarts(s) : s[i] # Pinned}

\* The turns that are summarized: all movable ones but the last KeepTurns.
OldTurns(s) ==
    {i \in Movable(s) : Cardinality({k \in Movable(s) : k > i}) >= KeepTurns}

\* The old turns leave one summary, where the first of them was.
Summarized(s) ==
    LET turn(i) == Max({k \in TurnStarts(s) : k <= i})
        first == Min(OldTurns(s))
        left(i) == IF i = first THEN <<User>>
                   ELSE IF turn(i) \in OldTurns(s) THEN <<>> ELSE <<s[i]>>
    IN  FlattenSeq([i \in DOMAIN s |-> left(i)])

\* compact_history, when the budget is used up; the summary may have failed.
\* Not durable before the next flush.
Compact ==
    /\ at = "turn" /\ ~compacted
    /\ OldTurns(history) # {}
    /\ history' = Summarized(history)
    /\ compacted' = TRUE
    /\ UNCHANGED <<raw, txLen, pro, at>>

\* An error of the gateway, or nothing said: the turn is tried again, after a
\* nudge once the retries are used up.
TurnIsEmpty(nudge) ==
    /\ at = "turn"
    /\ nudge => Len(history) < MaxLen
    /\ NextTurn(history \o (IF nudge THEN <<Pinned>> ELSE <<>>))

\* The reply has no calls.
TurnTalks ==
    /\ at = "turn" /\ Len(history) < MaxLen
    /\ NextTurn(Append(history, Text))

\* Slip: the assistant message is made durable before its tools run.
TurnCallsDurably ==
    /\ at = "turn" /\ Len(history) < MaxLen
    /\ history' = Append(history, Calls)
    /\ Flush(history')
    /\ at' = "tools"
    /\ UNCHANGED pro

\* The assistant message is in history before its tools run.
TurnCalls ==
    /\ at = "turn" /\ Len(history) < MaxLen
    /\ history' = Append(history, Calls)
    /\ at' = "tools"
    /\ UNCHANGED <<raw, txLen, pro, compacted>>

\* The tools return; a nudge may follow, and the drive may end with its submit.
ToolsReturn(nudge) ==
    /\ at = "tools"
    /\ NextTurn(Append(history, Tools) \o (IF nudge THEN <<Pinned>> ELSE <<>>))

ToolsSubmit ==
    /\ at = "tools"
    /\ EndDrive(Append(history, Tools))

\* The drive ends without a submit (authentication, budget): the run pauses.
DrivePauses ==
    /\ at = "turn"
    /\ Flush(history)
    /\ GoOff

\* A stop or the deadline of the drive: finally flushes history as it is.
Cancel ==
    /\ at = "turn" \/ (at = "tools" /\ CancelInTools)
    /\ Flush(history)
    /\ GoOff

\* The process dies; _tx_len and the unflushed rest die with it.
Crash ==
    /\ at # "off"
    /\ GoOff
    /\ compacted' = FALSE
    /\ txLen' = 0
    /\ UNCHANGED raw

Next ==
    \/ \E news \in {"nothing", "instruction", "mismatch"} : Start(news)
    \/ AppendState \/ \E same \in BOOLEAN : Drive(same)
    \/ Compact \/ TurnTalks \/ TurnCalls
    \/ \E nudge \in BOOLEAN : TurnIsEmpty(nudge) \/ ToolsReturn(nudge)
    \/ ToolsSubmit \/ DrivePauses \/ Cancel \/ Crash

Spec == Init /\ [][Next]_vars

-----------------------------------------------------------------------------
(* Properties *)

\* Every variable keeps its type.
TypeOK ==
    /\ raw \in Seq(Messages) /\ pro \in Seq(Messages) /\ history \in Seq(Messages)
    /\ txLen \in Nat
    /\ compacted \in BOOLEAN
    /\ at \in {"off", "idle", "turn", "tools"}

\* The first two rules of validate_message_sequence: calls are answered by the
\* next message, and nothing else is.
Answered(s) ==
    /\ \A i \in DOMAIN s : s[i] = Calls => i < Len(s) /\ s[i + 1] = Tools
    /\ \A i \in DOMAIN s : s[i] = Tools => i > 1 /\ s[i - 1] = Calls

\* The third: no id is answered twice.  Calls that come without an id are numbered
\* in their message (call_0, call_1), each message from 0 again.
IdsDiffer(s) == ModelNamesCalls \/ Cardinality({i \in DOMAIN s : s[i] = Tools}) <= 1

\* What a gateway accepts.
Sendable(s) == Answered(s) /\ IdsDiffer(s)

\* A run can be resumed from what is durable, wherever it was interrupted: the
\* restored conversation can be sent.
RestoredIsSendable == Sendable(DropDangling(raw))

\* Whenever a request is about to be made, its history is one the gateway accepts.
RequestIsSendable == at = "turn" => Sendable(history)

\* The increments add up: between drives the journal holds exactly the thread,
\* and in a drive everything but a compaction of this turn and its calls.
JournalFollowsThread ==
    /\ at = "idle" => raw = pro
    /\ at = "turn" /\ ~compacted => raw = history
    /\ at = "tools" /\ ~compacted => raw = Prefix(history, Len(history) - 1)

\* A run that nobody stops loses no message that was durable, except to a
\* compaction.
DurableIsKept ==
    [][raw' # raw /\ ~compacted =>
          Len(raw') >= Len(raw) /\ Prefix(raw', Len(raw)) = raw]_vars

\* Instructions and what the harness told the model outlive every compaction.
PinnedAreKept ==
    [][Cardinality({i \in DOMAIN raw' : raw'[i] = Pinned})
          >= Cardinality({i \in DOMAIN raw : raw[i] = Pinned})]_vars
=============================================================================
