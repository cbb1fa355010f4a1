------------------------------ MODULE Ingestion ------------------------------
(***************************************************************************)
(* From the Wazuh Indexer to the detectors: the detection loop             *)
(* (api/main.py), the connector with its circuit breaker                   *)
(* (ingestion/wazuh_connector.py), the preprocessor that refuses events    *)
(* (ingestion/preprocessor.py), the sliding window                         *)
(* (ingestion/sliding_window.py), the dead-letter queue                    *)
(* (ingestion/dead_letter.py) and its replay (api/routes/diagnostics.py).  *)
(*                                                                         *)
(* Time is relative: an event has an age, the last flush and the last      *)
(* failure lie so many units back, up to a horizon after which nothing     *)
(* depends on them.  A slot holds one event at a time and takes another    *)
(* when nothing in the platform remembers the first.                       *)
(***************************************************************************)
EXTENDS Integers

CONSTANTS Slots,      \* events the platform deals with at a time
          PollEvery,  \* poll_interval_seconds
          Window,     \* event_window_minutes, and what a poll asks for
          Grace,      \* grace_seconds of the sliding window
          Threshold, ResetAfter, \* of the circuit breaker
          MaxWork,    \* how long one cycle of the loop may take
          MaxEntries  \* dead-letter entries of one event

NoSlot == "none"

ASSUME IngestionAssumption ==
    /\ NoSlot \notin Slots
    /\ PollEvery \in Nat \ {0} /\ Window \in Nat \ {0} /\ Grace \in Nat
    /\ Threshold \in Nat \ {0} /\ ResetAfter \in Nat
    /\ MaxWork \in Nat /\ MaxEntries \in Nat \ {0}

VARIABLES
    age,      \* of each event; Absent for a free slot
    valid,    \* events the preprocessor accepts as it is configured now
    up,       \* whether the indexer answers
    loop,     \* where the detection loop stands
    breaker,
    buffer,   \* events in the sliding window
    batch,    \* the snapshot being handed to the detectors
    sinceFlush,
    letters,  \* number of dead-letter files of each event
    newest,   \* the event of the last file, while its millisecond may last
    lost,     \* history: events whose files were overwritten or never written
    replay,   \* the event an operator is replaying
    accepted, \* history: events the window has accepted
    flushed,  \* history: events the detectors have been given
    refused   \* history: events refused and not yet replayed

eventVars   == <<age, valid>>
letterVars  == <<letters, newest, lost>>
historyVars == <<accepted, flushed, refused>>
vars == <<eventVars, up, loop, breaker, buffer, batch, sinceFlush, letterVars, replay,
          historyVars>>

Horizon == Window + Grace + 1
Absent  == -1

LoopType    == [pc: {"sleep", "poll", "flush", "detect"}, wait: 0 .. PollEvery, busy: 0 .. MaxWork]
BreakerType == [state: {"CLOSED", "OPEN", "HALF_OPEN"}, failures: 0 .. Threshold,
                since: 0 .. ResetAfter + 1]
NewBreaker  == [state |-> "CLOSED", failures |-> 0, since |-> ResetAfter + 1]
Ready       == [pc |-> "poll", wait |-> 0, busy |-> 0]
Asleep      == [pc |-> "sleep", wait |-> PollEvery, busy |-> 0]

\* Mutant: eviction forgets the grace.
StaleNoGrace == {s \in Slots : age[s] # Absent /\ age[s] > Window}

Present == {s \in Slots : age[s] # Absent}
Recent  == {s \in Present : age[s] <= Window}
Stale   == {s \in Present : age[s] > Window + Grace}

UpTo(n, k) == IF n < k THEN n + 1 ELSE k

Init ==
    /\ age = [s \in Slots |-> Absent] /\ valid = {} /\ up = TRUE
    /\ loop = Ready /\ breaker = NewBreaker
    /\ buffer = {} /\ batch = {} /\ sinceFlush = Window
    /\ letters = [s \in Slots |-> 0] /\ newest = NoSlot /\ lost = {} /\ replay = NoSlot
    /\ accepted = {} /\ flushed = {} /\ refused = {}

-----------------------------------------------------------------------------
(* Events, the indexer and the clock.                                      *)

Happens(s) ==
    /\ age[s] = Absent
    /\ age' = [age EXCEPT ![s] = 0]
    /\ valid' \in {valid, valid \cup {s}}
    /\ UNCHANGED <<up, loop, breaker, buffer, batch, sinceFlush, letterVars, replay, historyVars>>

Forgotten(s) ==
    /\ age[s] = Horizon /\ s \notin buffer \cup batch /\ letters[s] = 0 /\ replay # s
    /\ age' = [age EXCEPT ![s] = Absent]
    /\ valid' = valid \ {s}
    /\ accepted' = accepted \ {s} /\ flushed' = flushed \ {s} /\ refused' = refused \ {s}
    /\ lost' = lost \ {s}
    /\ UNCHANGED <<up, loop, breaker, buffer, batch, sinceFlush, letters, newest, replay>>

(* A mapping is corrected, or the backfill window widened.                  *)
Fix(s) ==
    /\ s \in Present \ valid
    /\ valid' = valid \cup {s}
    /\ UNCHANGED <<age, up, loop, breaker, buffer, batch, sinceFlush, letterVars, replay, historyVars>>

Toggle ==
    /\ up' = ~up
    /\ UNCHANGED <<eventVars, loop, breaker, buffer, batch, sinceFlush, letterVars, replay, historyVars>>

(* Time passes while the loop sleeps, waits for the indexer or for the      *)
(* detectors' awaits.                                                      *)
Tick ==
    /\ \/ /\ loop.pc = "sleep" /\ loop.wait > 0
          /\ loop' = [loop EXCEPT !.wait = loop.wait - 1]
       \/ /\ loop.pc \in {"poll", "detect"} /\ loop.busy < MaxWork
          /\ loop' = [loop EXCEPT !.busy = loop.busy + 1]
    /\ age' = [s \in Slots |-> IF s \in Present THEN UpTo(age[s], Horizon) ELSE Absent]
    /\ sinceFlush' = UpTo(sinceFlush, Window)
    /\ breaker' = [breaker EXCEPT !.since = UpTo(breaker.since, ResetAfter + 1)]
    /\ newest' = NoSlot
    /\ UNCHANGED <<valid, up, buffer, batch, letters, lost, replay, historyVars>>

-----------------------------------------------------------------------------
(* One cycle of the loop.                                                  *)

Wake ==
    /\ loop.pc = "sleep" /\ loop.wait = 0
    /\ loop' = [loop EXCEPT !.pc = "poll"]
    /\ UNCHANGED <<eventVars, up, breaker, buffer, batch, sinceFlush, letterVars, replay, historyVars>>

GoTo(pc) == loop' = [loop EXCEPT !.pc = pc]

(* The breaker lets a request through when it is not open, or has been open *)
(* long enough; that request decides.                                      *)
MayRequest == breaker.state = "OPEN" => breaker.since > ResetAfter

(* When the last failure was is read while the breaker is open only.        *)
OnSuccess == breaker' = NewBreaker

Trying == IF breaker.state = "OPEN" THEN "HALF_OPEN" ELSE breaker.state

OnFailure ==
    LET n == UpTo(breaker.failures, Threshold) IN
    breaker' = [state |-> IF n >= Threshold THEN "OPEN" ELSE Trying, failures |-> n, since |-> 0]

\* Mutant: a skipped request counts as a failure just now.
SkipRenewed ==
    /\ loop.pc = "poll" /\ ~MayRequest
    /\ GoTo("flush")
    /\ breaker' = [breaker EXCEPT !.since = 0]
    /\ UNCHANGED <<eventVars, up, buffer, batch, sinceFlush, letterVars, replay, historyVars>>

Skip ==
    /\ loop.pc = "poll" /\ ~MayRequest
    /\ GoTo("flush")
    /\ UNCHANGED <<eventVars, up, breaker, buffer, batch, sinceFlush, letterVars, replay, historyVars>>

(* All three attempts failed: the loop is given no events.                  *)
FetchFails ==
    /\ loop.pc = "poll" /\ MayRequest /\ ~up
    /\ OnFailure
    /\ GoTo("flush")
    /\ UNCHANGED <<eventVars, up, buffer, batch, sinceFlush, letterVars, replay, historyVars>>

(* The preprocessor writes a dead letter for every event of S, at every     *)
(* poll that fetches it.  A file is named by its millisecond: one written   *)
(* in the same millisecond replaces it, so some of S may keep theirs and    *)
(* the first may replace the newest.  MaxEntries of one event count as many.*)
Enqueue(S, unwritten) ==
    \E kept \in SUBSET S, over \in {NoSlot, newest} :
      /\ IF S = {} THEN over = NoSlot /\ newest' = newest ELSE newest' \in kept
      /\ letters' = [s \in Slots |->
                       LET n == letters[s] - (IF s = over THEN 1 ELSE 0)
                       IN IF s \in kept THEN UpTo(n, MaxEntries) ELSE n]
      /\ lost' = {s \in Slots : letters'[s] = 0 /\ (s \in lost \cup S \cup unwritten \/ s = over)}

(* Only a batch with events in it moves the window: new events enter, and   *)
(* then what is past window and grace goes.                                *)
AddBatch(S) ==
    /\ buffer' = IF S = {} THEN buffer ELSE (buffer \cup S) \ Stale
    /\ accepted' = accepted \cup S

Fetch ==
    /\ loop.pc = "poll" /\ MayRequest /\ up
    /\ OnSuccess
    /\ Enqueue(Recent \ valid, {})
    /\ AddBatch(Recent \cap valid)
    /\ refused' = refused \cup (Recent \ valid)
    /\ GoTo("flush")
    /\ UNCHANGED <<eventVars, up, batch, sinceFlush, replay, flushed>>

(* What the window owes the detectors is dropped from the account when the  *)
(* process dies or an exception ends the cycle.                            *)
Upset == accepted' = accepted \cap flushed

(* The answer cannot be read, or one of the letters cannot be written.      *)
FetchGarbled ==
    /\ loop.pc = "poll" /\ MayRequest /\ up
    /\ OnSuccess
    /\ loop' = Asleep
    /\ Upset
    /\ \E S \in SUBSET (Recent \ valid) :
         \E unwritten \in {{}} \cup {{s} : s \in (Recent \ valid) \ S} :
           /\ S # {} => unwritten # {}
           /\ Enqueue(S, unwritten)
           /\ refused' = refused \cup S \cup unwritten
    /\ UNCHANGED <<eventVars, up, buffer, batch, sinceFlush, replay, flushed>>

Due == sinceFlush >= Window

\* Mutant: every poll marks the window as flushed.
NotDueMarked ==
    /\ loop.pc = "flush" /\ ~Due
    /\ loop' = Asleep
    /\ sinceFlush' = 0
    /\ UNCHANGED <<eventVars, up, breaker, buffer, batch, letterVars, replay, historyVars>>

NotDue ==
    /\ loop.pc = "flush" /\ ~Due
    /\ loop' = Asleep
    /\ UNCHANGED <<eventVars, up, breaker, buffer, batch, sinceFlush, letterVars, replay, historyVars>>

(* The snapshot is a copy: the window keeps its events.                     *)
Flush ==
    /\ loop.pc = "flush" /\ Due
    /\ batch' = buffer
    /\ IF buffer = {} THEN sinceFlush' = 0 /\ loop' = Asleep
                      ELSE UNCHANGED sinceFlush /\ GoTo("detect")
    /\ UNCHANGED <<eventVars, up, breaker, buffer, letterVars, replay, historyVars>>

(* mark_flushed reads the clock after every detector has had the snapshot.  *)
Detected ==
    /\ loop.pc = "detect"
    /\ flushed' = flushed \cup batch
    /\ refused' = refused \ batch
    /\ lost' = lost \ batch
    /\ batch' = {} /\ sinceFlush' = 0
    /\ loop' = Asleep
    /\ UNCHANGED <<eventVars, up, breaker, buffer, letters, newest, replay, accepted>>

(* The window, the breaker and a replay under way are lost; files stay.     *)
Restart ==
    /\ Upset
    /\ loop' = Ready /\ breaker' = NewBreaker
    /\ buffer' = {} /\ batch' = {} /\ sinceFlush' = Window
    /\ replay' = NoSlot /\ newest' = NoSlot
    /\ UNCHANGED <<eventVars, up, letters, lost, flushed, refused>>

-----------------------------------------------------------------------------
(* The operator replays one dead letter.                                   *)

\* Mutant: the letter is taken out before it is looked at.
ReplayFailsRemoved(s) ==
    /\ replay = NoSlot /\ letters[s] > 0 /\ s \notin valid
    /\ letters' = [letters EXCEPT ![s] = letters[s] - 1]
    /\ UNCHANGED <<eventVars, up, loop, breaker, buffer, batch, sinceFlush, newest, lost, replay,
                   historyVars>>

(* Refused again: the file stays and normalize_batch writes another.        *)
ReplayFails(s) ==
    /\ replay = NoSlot /\ letters[s] > 0 /\ s \notin valid
    /\ Enqueue({s}, {})
    /\ UNCHANGED <<eventVars, up, loop, breaker, buffer, batch, sinceFlush, replay, historyVars>>

\* Mutant: whether the letter is still there is not checked.
ReplayUnchecked(s) ==
    /\ replay = NoSlot /\ s \in valid
    /\ replay' = s
    /\ UNCHANGED <<eventVars, up, loop, breaker, buffer, batch, sinceFlush, letterVars, historyVars>>

(* Listed and chosen after its millisecond.                                *)
Replay(s) ==
    /\ replay = NoSlot /\ letters[s] > 0 /\ s \in valid
    /\ replay' = s
    /\ newest' = IF newest = s THEN NoSlot ELSE newest
    /\ UNCHANGED <<eventVars, up, loop, breaker, buffer, batch, sinceFlush, letters, lost, historyVars>>

ReplayDone ==
    /\ replay # NoSlot
    /\ flushed' = flushed \cup {replay}
    /\ refused' = refused \ {replay}
    /\ letters' = [letters EXCEPT ![replay] = letters[replay] - 1]
    /\ replay' = NoSlot
    /\ UNCHANGED <<eventVars, up, loop, breaker, buffer, batch, sinceFlush, newest, lost, accepted>>

Cycle == \/ Wake \/ Skip \/ FetchFails \/ Fetch
         \/ NotDue \/ Flush \/ Detected

Operator == ReplayDone \/ \E s \in Slots : Fix(s) \/ ReplayFails(s) \/ Replay(s)

Next == \/ Cycle \/ FetchGarbled \/ Restart \/ Operator \/ Tick \/ Toggle
        \/ \E s \in Slots : Happens(s) \/ Forgotten(s)

Spec == Init /\ [][Next]_vars

(* The clock runs, and the loop is a task of an event loop that serves      *)
(* every task.                                                             *)
FairSpec == Spec /\ WF_vars(Tick) /\ WF_vars(Cycle)

-----------------------------------------------------------------------------
(* Every variable has its type; only events that happened are anywhere.     *)
TypeOK ==
    /\ age \in [Slots -> {Absent} \cup 0 .. Horizon]
    /\ valid \subseteq Present /\ up \in BOOLEAN
    /\ loop \in LoopType /\ breaker \in BreakerType
    /\ buffer \subseteq Present /\ batch \subseteq Present
    /\ sinceFlush \in 0 .. Window
    /\ letters \in [Slots -> 0 .. MaxEntries]
    /\ newest \in Present \cup {NoSlot} /\ lost \subseteq Present
    /\ replay \in Present \cup {NoSlot}
    /\ accepted \subseteq Present /\ flushed \subseteq Present /\ refused \subseteq Present

(* "Flush once per analytic window so feature extractors see the full       *)
(* window's events at once": an event the window has accepted is given to   *)
(* the detectors before it is evicted.                                     *)
NothingMissed == accepted \subseteq flushed \cup buffer \cup batch

(* A refused event can be inspected and replayed until a replay, or a later *)
(* poll after the preprocessor was corrected, has given it to the           *)
(* detectors.  Excepted are the events whose file another letter of the     *)
(* same millisecond replaced, or could not be written, until they are       *)
(* fetched and refused again.                                              *)
RefusedKept == \A s \in refused \ lost : letters[s] > 0

(* What the window has accepted is handed over in the end, whether or not   *)
(* the indexer goes on answering.                                          *)
Flushes == \A s \in Slots : s \in accepted ~> (s \in flushed \/ s \notin accepted)

(* When the indexer is back for good the breaker closes for good: an open   *)
(* breaker never shuts the platform out of a source that works.             *)
Recovers == <>[]up => <>[](breaker.state = "CLOSED")
=============================================================================
