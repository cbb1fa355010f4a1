--------------------------- MODULE IngestionProofs ---------------------------
(***************************************************************************)
(* Proofs about Ingestion, for any events, intervals, breaker settings and *)
(* bounds.  That no event is missed is proved of every configuration whose *)
(* window is kept long enough (RetentionCovers).                           *)
(***************************************************************************)
EXTENDS Ingestion, TLAPS

-----------------------------------------------------------------------------
(* Counting up to a bound.                                                 *)

LEMMA UpToBound ==
  ASSUME NEW k \in Nat, NEW n \in 0 .. k
  PROVE  /\ UpTo(n, k) \in 0 .. k
         /\ UpTo(n, k) <= n + 1 /\ UpTo(n, k) >= n
         /\ UpTo(n, k) = n + 1 \/ (UpTo(n, k) = k /\ n = k)
         /\ k > 0 => UpTo(n, k) > 0
BY DEF UpTo

LEMMA HorizonNat == Horizon \in Nat /\ Window + Grace + 1 = Horizon
BY IngestionAssumption DEF Horizon

-----------------------------------------------------------------------------
(* Types, by the variables they are about.                                 *)

TypeOfEvents ==
    /\ age \in [Slots -> {Absent} \cup 0 .. Horizon]
    /\ valid \subseteq Present /\ buffer \subseteq Present /\ batch \subseteq Present
    /\ replay \in Present \cup {NoSlot}
    /\ newest \in Present \cup {NoSlot} /\ lost \subseteq Present
    /\ accepted \subseteq Present /\ flushed \subseteq Present /\ refused \subseteq Present

TypeOfLoop ==
    /\ loop \in LoopType /\ breaker \in BreakerType /\ up \in BOOLEAN
    /\ sinceFlush \in 0 .. Window

TypeOfLetters == letters \in [Slots -> 0 .. MaxEntries]

(* A replay under way has its letter until it is done, and the newest file *)
(* is there.  The event replayed passes, so none of its files is the newest.*)
LettersHold ==
    /\ replay # NoSlot => letters[replay] > 0 /\ replay \in valid /\ replay # newest
    /\ newest # NoSlot => letters[newest] > 0
    /\ \A s \in Slots : letters[s] > 0 => s \in Present

LEMMA TypeParts == TypeOK <=> TypeOfEvents /\ TypeOfLoop /\ TypeOfLetters
BY DEF TypeOK, TypeOfEvents, TypeOfLoop, TypeOfLetters

LEMMA TypePartsNext == TypeOK' <=> TypeOfEvents' /\ TypeOfLoop' /\ TypeOfLetters'
BY DEF TypeOK, TypeOfEvents, TypeOfLoop, TypeOfLetters

LEMMA LoopMoves ==
  ASSUME TypeOfLoop
  PROVE  /\ Ready \in LoopType /\ Asleep \in LoopType /\ NewBreaker \in BreakerType
         /\ \A pc \in {"sleep", "poll", "flush", "detect"} : [loop EXCEPT !.pc = pc] \in LoopType
         /\ 0 \in 0 .. Window /\ Window \in 0 .. Window
BY IngestionAssumption DEF TypeOfLoop, Ready, Asleep, NewBreaker, LoopType, BreakerType

LEMMA BreakerMoves ==
  ASSUME TypeOfLoop, OnSuccess \/ OnFailure
  PROVE  breaker' \in BreakerType
<1>1. CASE OnSuccess
  BY <1>1, LoopMoves DEF OnSuccess
<1>2. CASE OnFailure
  <2>1. breaker.failures \in 0 .. Threshold /\ breaker.state \in {"CLOSED", "OPEN", "HALF_OPEN"}
    BY DEF TypeOfLoop, BreakerType
  <2>2. UpTo(breaker.failures, Threshold) \in 0 .. Threshold
    BY <2>1, UpToBound, IngestionAssumption
  <2>3. Trying \in {"CLOSED", "OPEN", "HALF_OPEN"}
    BY <2>1 DEF Trying
  <2> QED
    BY <1>2, <2>2, <2>3, IngestionAssumption DEF OnFailure, BreakerType
<1> QED
  BY <1>1, <1>2

LEMMA TypeOKInit == Init => TypeOK /\ LettersHold
<1> SUFFICES ASSUME Init PROVE TypeOK /\ LettersHold
  OBVIOUS
<1>1. TypeOfEvents
  BY DEF Init, TypeOfEvents
<1>2. TypeOfLoop
  BY IngestionAssumption DEF Init, TypeOfLoop, Ready, NewBreaker, LoopType, BreakerType
<1>3. TypeOfLetters /\ LettersHold
  BY IngestionAssumption DEF Init, TypeOfLetters, LettersHold
<1> QED
  BY <1>1, <1>2, <1>3, TypeParts

LEMMA TypeOfLoopStep == TypeOfLoop /\ [Next]_vars => TypeOfLoop'
<1> SUFFICES ASSUME TypeOfLoop, [Next]_vars PROVE TypeOfLoop'
  OBVIOUS
<1> USE LoopMoves
<1>1. CASE UNCHANGED <<loop, breaker, up, sinceFlush>>
  BY <1>1 DEF TypeOfLoop
<1>2. CASE Tick
  <2>1. loop' \in LoopType
    BY <1>2, IngestionAssumption DEF Tick, TypeOfLoop, LoopType
  <2>2. sinceFlush' \in 0 .. Window
    BY <1>2, UpToBound, IngestionAssumption DEF Tick, TypeOfLoop
  <2>3. breaker.since \in 0 .. ResetAfter + 1
    BY DEF TypeOfLoop, BreakerType
  <2>4. UpTo(breaker.since, ResetAfter + 1) \in 0 .. ResetAfter + 1
    <3>1. ResetAfter + 1 \in Nat
      BY IngestionAssumption
    <3> QED
      BY <2>3, <3>1, UpToBound
  <2>5. breaker' \in BreakerType
    BY <1>2, <2>4 DEF Tick, TypeOfLoop, BreakerType
  <2> QED
    BY <1>2, <2>1, <2>2, <2>5 DEF Tick, TypeOfLoop
<1>3. CASE Wake
  BY <1>3 DEF Wake, TypeOfLoop
<1>4. CASE Skip
  BY <1>4 DEF Skip, GoTo, TypeOfLoop
<1>5. CASE FetchFails
  BY <1>5, BreakerMoves DEF FetchFails, GoTo, TypeOfLoop
<1>6. CASE Fetch
  BY <1>6, BreakerMoves DEF Fetch, GoTo, TypeOfLoop
<1>7. CASE FetchGarbled
  BY <1>7, BreakerMoves, IngestionAssumption DEF FetchGarbled, Upset, TypeOfLoop
<1>8. CASE NotDue
  BY <1>8 DEF NotDue, TypeOfLoop
<1>9. CASE Flush
  BY <1>9 DEF Flush, GoTo, TypeOfLoop
<1>10. CASE Detected
  BY <1>10 DEF Detected, TypeOfLoop
<1>11. CASE Restart
  BY <1>11, IngestionAssumption DEF Restart, Upset, TypeOfLoop
<1>12. CASE Toggle
  BY <1>12 DEF Toggle, TypeOfLoop
<1>13. CASE Operator \/ \E s \in Slots : Happens(s) \/ Forgotten(s)
  BY <1>13, <1>1 DEF Operator, ReplayDone, Fix, ReplayFails, Replay, Happens, Forgotten
<1>14. CASE UNCHANGED vars
  BY <1>14, <1>1 DEF vars
<1> QED
  BY <1>2, <1>3, <1>4, <1>5, <1>6, <1>7, <1>8, <1>9, <1>10, <1>11, <1>12, <1>13, <1>14
  DEF Next, Cycle

(* Events that are there stay there, except a forgotten one.               *)
LEMMA Stays ==
  ASSUME TypeOfEvents, [Next]_vars, NEW x \in Present
  PROVE  x \in Present' \/ Forgotten(x)
<1>1. x \in Slots /\ age[x] # Absent
  BY DEF Present
<1>2. CASE UNCHANGED age
  BY <1>1, <1>2 DEF Present
<1>3. CASE Tick
  <2>1. age[x] \in 0 .. Horizon
    BY <1>1 DEF TypeOfEvents
  <2>2. age'[x] = UpTo(age[x], Horizon)
    BY <1>1, <1>3 DEF Tick, Present
  <2>3. age'[x] \in 0 .. Horizon
    BY <2>1, <2>2, UpToBound, HorizonNat
  <2> QED
    BY <1>1, <2>3 DEF Present, Absent
<1>4. CASE \E s \in Slots : Happens(s)
  <2>1. PICK s \in Slots : Happens(s)
    BY <1>4
  <2>2. x # s
    BY <1>1, <2>1 DEF Happens
  <2> QED
    BY <1>1, <2>1, <2>2 DEF Happens, Present, TypeOfEvents
<1>5. CASE \E s \in Slots : Forgotten(s)
  <2>1. PICK s \in Slots : Forgotten(s)
    BY <1>5
  <2>2. CASE x = s
    BY <2>1, <2>2
  <2>3. CASE x # s
    BY <1>1, <2>1, <2>3 DEF Forgotten, Present, TypeOfEvents
  <2> QED
    BY <2>2, <2>3
<1>6. CASE ~(Tick \/ \E s \in Slots : Happens(s) \/ Forgotten(s))
  <2>1. UNCHANGED age
    BY <1>6 DEF Next, vars, eventVars, Cycle, Wake, Skip, FetchFails, Fetch, NotDue, Flush, Detected, FetchGarbled,
       Restart, Operator, ReplayDone, Fix, ReplayFails, Replay, Toggle
  <2> QED
    BY <2>1, <1>2
<1> QED
  BY <1>3, <1>4, <1>5, <1>6

LEMMA TypeOfAge ==
  ASSUME TypeOfEvents, [Next]_vars
  PROVE  age' \in [Slots -> {Absent} \cup 0 .. Horizon]
<1>1. CASE UNCHANGED age
  BY <1>1 DEF TypeOfEvents
<1>2. CASE Tick
  <2>1. \A s \in Present : age[s] \in 0 .. Horizon
    BY DEF TypeOfEvents, Present
  <2>2. \A s \in Present : UpTo(age[s], Horizon) \in 0 .. Horizon
    BY <2>1, UpToBound, HorizonNat
  <2> QED
    BY <1>2, <2>2 DEF Tick
<1>3. CASE \E s \in Slots : Happens(s) \/ Forgotten(s)
  BY <1>3, HorizonNat DEF Happens, Forgotten, TypeOfEvents
<1>4. CASE ~(Tick \/ \E s \in Slots : Happens(s) \/ Forgotten(s))
  <2>1. UNCHANGED age
    BY <1>4 DEF Next, vars, eventVars, Cycle, Wake, Skip, FetchFails, Fetch, NotDue, Flush, Detected, FetchGarbled,
       Restart, Operator, ReplayDone, Fix, ReplayFails, Replay, Toggle
  <2> QED
    BY <2>1, <1>1
<1> QED
  BY <1>2, <1>3, <1>4

(* Where the newest file and the lost ones come from.                      *)
LEMMA EnqueueNames ==
  ASSUME NEW S, NEW unwritten, Enqueue(S, unwritten)
  PROVE  /\ newest' \in S \cup {newest}
         /\ \A x \in lost' : x \in lost \cup S \cup unwritten \/ (x = newest /\ newest # NoSlot)
BY IngestionAssumption DEF Enqueue

LEMMA TypeOfEventsStep == TypeOfEvents /\ LettersHold /\ [Next]_vars => TypeOfEvents'
<1> SUFFICES ASSUME TypeOfEvents, LettersHold, [Next]_vars PROVE TypeOfEvents'
  OBVIOUS
<1>1. age' \in [Slots -> {Absent} \cup 0 .. Horizon]
  BY TypeOfAge
<1>2. CASE \E s \in Slots : Forgotten(s)
  <2>1. PICK s \in Slots : Forgotten(s)
    BY <1>2
  <2>2. \A x \in Present : x # s => x \in Present'
    BY <2>1 DEF Forgotten, Present, TypeOfEvents
  <2>3. /\ valid' = valid \ {s} /\ accepted' = accepted \ {s}
        /\ flushed' = flushed \ {s} /\ refused' = refused \ {s}
        /\ buffer' = buffer /\ batch' = batch /\ replay' = replay
        /\ s \notin buffer \cup batch /\ replay # s
        /\ newest' = newest /\ lost' = lost \ {s} /\ letters[s] = 0
    BY <2>1 DEF Forgotten
  <2>4. newest # NoSlot => newest # s
    BY <2>3 DEF LettersHold
  <2> QED
    BY <1>1, <2>2, <2>3, <2>4 DEF TypeOfEvents
<1>3. ASSUME \A s \in Slots : ~Forgotten(s) PROVE TypeOfEvents'
  <2>1. Present \subseteq Present'
    BY <1>3, Stays DEF Present
  <2>2. CASE \E s \in Slots : Happens(s)
    <3>1. PICK s \in Slots : Happens(s)
      BY <2>2
    <3>2. s \in Present'
      BY <3>1 DEF Happens, Present, TypeOfEvents, Absent
    <3>3. /\ valid' \subseteq valid \cup {s}
          /\ UNCHANGED <<buffer, batch, replay, newest, lost, accepted, flushed, refused>>
      BY <3>1 DEF Happens, historyVars, letterVars
    <3> QED
      BY <1>1, <2>1, <3>2, <3>3 DEF TypeOfEvents
  <2>3. CASE \E s \in Slots : Fix(s)
    BY <1>1, <2>1, <2>3 DEF Fix, TypeOfEvents, historyVars, letterVars
  <2>4. CASE \E s \in Slots : Replay(s)
    BY <1>1, <2>1, <2>4 DEF Replay, TypeOfEvents, eventVars, historyVars
  <2>5. CASE ReplayDone
    BY <1>1, <2>1, <2>5 DEF ReplayDone, TypeOfEvents, eventVars
  <2>6. CASE Fetch
    <3>1. Recent \subseteq Present
      BY DEF Recent
    <3>2. /\ buffer' \subseteq buffer \cup Recent /\ accepted' \subseteq accepted \cup Recent
          /\ refused' \subseteq refused \cup Recent
          /\ UNCHANGED <<valid, batch, replay, flushed>>
      BY <2>6 DEF Fetch, AddBatch, eventVars
    <3>3. Enqueue(Recent \ valid, {})
      BY <2>6 DEF Fetch
    <3>4. newest' \in Recent \cup {newest} /\ \A x \in lost' : x \in lost \cup Recent \/ (x = newest /\ newest # NoSlot)
      BY <3>3, EnqueueNames
    <3> QED
      BY <1>1, <2>1, <3>1, <3>2, <3>4 DEF TypeOfEvents
  <2>7. CASE Flush
    BY <1>1, <2>1, <2>7 DEF Flush, TypeOfEvents, eventVars, historyVars, letterVars
  <2>8. CASE Detected
    BY <1>1, <2>1, <2>8 DEF Detected, TypeOfEvents, eventVars
  <2>9. CASE FetchGarbled
    <3>1. Recent \subseteq Present
      BY DEF Recent
    <3>2. PICK S \in SUBSET (Recent \ valid) : \E unwritten \in SUBSET (Recent \ valid) :
            Enqueue(S, unwritten) /\ refused' = refused \cup S \cup unwritten
      BY <2>9 DEF FetchGarbled
    <3>3. PICK unwritten \in SUBSET (Recent \ valid) :
            Enqueue(S, unwritten) /\ refused' = refused \cup S \cup unwritten
      BY <3>2
    <3>4. newest' \in Recent \cup {newest} /\ \A x \in lost' : x \in lost \cup Recent \/ (x = newest /\ newest # NoSlot)
      BY <3>3, EnqueueNames
    <3>5. accepted' \subseteq accepted /\ UNCHANGED <<valid, buffer, batch, replay, flushed>>
      BY <2>9 DEF FetchGarbled, Upset, eventVars
    <3> QED
      BY <1>1, <2>1, <3>1, <3>3, <3>4, <3>5 DEF TypeOfEvents
  <2>10. CASE Restart
    BY <1>1, <2>1, <2>10 DEF Restart, Upset, TypeOfEvents, eventVars
  <2>11. CASE UNCHANGED <<valid, buffer, batch, replay, accepted, flushed, refused>> /\ newest' \in {newest, NoSlot} /\ lost' = lost
    BY <1>1, <2>1, <2>11 DEF TypeOfEvents
  <2>12. CASE Tick \/ Toggle \/ Wake \/ Skip \/ FetchFails \/ NotDue \/ UNCHANGED vars
    BY <2>11, <2>12 DEF Tick, Toggle, Wake, Skip, FetchFails, NotDue, vars, eventVars, historyVars, letterVars
  <2>13. CASE \E s \in Slots : ReplayFails(s)
    <3>1. PICK s \in Slots : ReplayFails(s)
      BY <2>13
    <3>2. Enqueue({s}, {}) /\ letters[s] > 0 /\ UNCHANGED <<valid, buffer, batch, replay, accepted, flushed, refused, age>>
      BY <3>1 DEF ReplayFails, eventVars, historyVars
    <3>3. s \in Present
      BY <3>2 DEF LettersHold
    <3>4. newest' \in {s, newest} /\ \A x \in lost' : x \in lost \cup {s} \/ (x = newest /\ newest # NoSlot)
      BY <3>2, EnqueueNames
    <3> QED
      BY <1>1, <2>1, <3>2, <3>3, <3>4 DEF TypeOfEvents
  <2> QED
    BY <1>3, <2>2, <2>3, <2>4, <2>5, <2>6, <2>7, <2>8, <2>9, <2>10, <2>12, <2>13 DEF Next, Cycle, Operator
<1> QED
  BY <1>2, <1>3

(* Letters, and the refused events they are kept for.                      *)
Kept == TypeOfLetters /\ LettersHold /\ RefusedKept

LEMMA EnqueueKeeps ==
  ASSUME TypeOK, Kept, NEW S \in SUBSET Present, NEW unwritten, Enqueue(S, unwritten),
         S \cap valid = {}, refused' \subseteq refused \cup S \cup unwritten,
         UNCHANGED <<age, valid, replay>>, refused' \subseteq Slots
  PROVE  Kept'
<1>1. PICK kept \in SUBSET S, over \in {NoSlot, newest} :
        /\ IF S = {} THEN over = NoSlot /\ newest' = newest ELSE newest' \in kept
        /\ letters' = [s \in Slots |->
                         LET n == letters[s] - (IF s = over THEN 1 ELSE 0)
                         IN IF s \in kept THEN UpTo(n, MaxEntries) ELSE n]
        /\ lost' = {s \in Slots : letters'[s] = 0 /\ (s \in lost \cup S \cup unwritten \/ s = over)}
  BY DEF Enqueue
<1>2. /\ NoSlot \notin Slots /\ MaxEntries \in Nat /\ MaxEntries > 0
      /\ Present' = Present /\ Present \subseteq Slots
      /\ \A s \in Slots : letters[s] \in 0 .. MaxEntries
  BY IngestionAssumption DEF Present, Kept, TypeOfLetters
<1>3. /\ newest # NoSlot => newest \in Slots /\ letters[newest] > 0
      /\ replay # NoSlot => replay \in Slots /\ letters[replay] > 0 /\ replay \in valid /\ replay # newest
      /\ \A s \in Slots : letters[s] > 0 => s \in Present
  BY <1>2, TypeParts DEF Kept, LettersHold, TypeOfEvents
<1> DEFINE rest(s) == letters[s] - (IF s = over THEN 1 ELSE 0)
<1>4. ASSUME NEW s \in Slots
      PROVE  rest(s) \in 0 .. MaxEntries /\ rest(s) <= letters[s] /\ (s # over => rest(s) = letters[s])
  BY <1>2, <1>3, <1>1
<1>5. ASSUME NEW s \in Slots
      PROVE  /\ s \in kept => letters'[s] = UpTo(rest(s), MaxEntries)
             /\ s \notin kept => letters'[s] = rest(s)
  BY <1>1
<1> HIDE DEF rest
<1>6. ASSUME NEW s \in Slots
      PROVE  letters'[s] \in 0 .. MaxEntries /\ (s \in kept => letters'[s] > 0)
  BY <1>2, <1>4, <1>5, UpToBound
<1>7. TypeOfLetters'
  BY <1>1, <1>6 DEF TypeOfLetters
<1>8. LettersHold'
  <2>1. replay' # NoSlot => letters'[replay'] > 0 /\ replay' \in valid' /\ replay' # newest'
    BY <1>1, <1>2, <1>3, <1>4, <1>5
  <2>2. newest' # NoSlot => letters'[newest'] > 0
    <3>1. CASE S = {}
      BY <1>1, <1>2, <1>3, <1>4, <1>5, <3>1
    <3>2. CASE S # {}
      BY <1>1, <1>2, <1>6, <3>2
    <3> QED
      BY <3>1, <3>2
  <2>3. ASSUME NEW s \in Slots, letters'[s] > 0 PROVE s \in Present'
    <3>1. CASE s \in kept
      BY <1>2, <3>1
    <3>2. CASE s \notin kept
      BY <1>2, <1>3, <1>4, <1>5, <2>3, <3>2
    <3> QED
      BY <3>1, <3>2
  <2> QED
    BY <2>1, <2>2, <2>3 DEF LettersHold
<1>9. RefusedKept'
  <2> SUFFICES ASSUME NEW s \in refused', s \notin lost', ~(letters'[s] > 0) PROVE FALSE
    BY DEF RefusedKept
  <2>1. s \in Slots /\ letters'[s] = 0
    BY <1>6
  <2>2. s \notin lost /\ s \notin S /\ s \notin unwritten /\ s # over
    BY <1>1, <2>1
  <2>3. letters[s] > 0
    BY <2>2 DEF Kept, RefusedKept
  <2> QED
    BY <1>4, <1>5, <2>1, <2>2, <2>3
<1> QED
  BY <1>7, <1>8, <1>9 DEF Kept

LEMMA KeptStep == TypeOK /\ Kept /\ [Next]_vars => Kept'
<1> SUFFICES ASSUME TypeOK, Kept, [Next]_vars PROVE Kept'
  OBVIOUS
<1>1. /\ TypeOfEvents
      /\ NoSlot \notin Slots
      /\ replay # NoSlot => replay \in Slots
      /\ refused \subseteq Slots /\ Recent \subseteq Present /\ Present \subseteq Slots
      /\ \A s \in Slots : letters[s] \in 0 .. MaxEntries
  BY TypeParts, IngestionAssumption DEF TypeOfEvents, Present, Recent, Kept, TypeOfLetters
<1>2. CASE Fetch
  <2>1. /\ Enqueue(Recent \ valid, {}) /\ refused' = refused \cup (Recent \ valid)
        /\ UNCHANGED <<age, valid, replay>>
    BY <1>2 DEF Fetch, eventVars
  <2> QED
    BY <1>1, <2>1, EnqueueKeeps
<1>3. CASE FetchGarbled
  <2>1. PICK S \in SUBSET (Recent \ valid) : \E unwritten \in SUBSET (Recent \ valid) :
          Enqueue(S, unwritten) /\ refused' = refused \cup S \cup unwritten
    BY <1>3 DEF FetchGarbled
  <2>2. PICK unwritten \in SUBSET (Recent \ valid) :
          Enqueue(S, unwritten) /\ refused' = refused \cup S \cup unwritten
    BY <2>1
  <2>3. UNCHANGED <<age, valid, replay>>
    BY <1>3 DEF FetchGarbled, eventVars
  <2> QED
    BY <1>1, <2>2, <2>3, EnqueueKeeps
<1>4. CASE \E s \in Slots : ReplayFails(s)
  <2>1. PICK s \in Slots : ReplayFails(s)
    BY <1>4
  <2>2. /\ Enqueue({s}, {}) /\ letters[s] > 0 /\ s \notin valid
        /\ UNCHANGED <<age, valid, replay, refused>>
    BY <2>1 DEF ReplayFails, eventVars, historyVars
  <2>3. {s} \in SUBSET Present
    BY <2>2 DEF Kept, LettersHold
  <2> QED
    BY <1>1, <2>2, <2>3, EnqueueKeeps
<1>5. CASE \E s \in Slots : Replay(s)
  <2>1. PICK s \in Slots : Replay(s)
    BY <1>5
  <2>2. /\ replay' = s /\ letters[s] > 0 /\ s \in valid /\ newest' \in {newest, NoSlot} /\ newest' # s
        /\ UNCHANGED <<age, valid, letters, lost, refused>>
    BY <1>1, <2>1 DEF Replay, eventVars, historyVars
  <2> QED
    BY <1>1, <2>2 DEF Kept, TypeOfLetters, LettersHold, RefusedKept, Present
<1>6. CASE ReplayDone
  <2>1. /\ replay \in Slots /\ letters[replay] > 0 /\ replay # newest
        /\ letters' = [letters EXCEPT ![replay] = letters[replay] - 1]
        /\ refused' = refused \ {replay} /\ replay' = NoSlot
        /\ UNCHANGED <<age, newest, lost>>
    BY <1>1, <1>6 DEF ReplayDone, Kept, LettersHold, eventVars
  <2>2. letters[replay] - 1 \in 0 .. MaxEntries
    BY <1>1, <2>1, IngestionAssumption
  <2>3. newest # NoSlot => newest \in Slots
    BY <1>1 DEF TypeOfEvents
  <2> QED
    BY <1>1, <2>1, <2>2, <2>3 DEF Kept, TypeOfLetters, LettersHold, RefusedKept, Present
<1>7. CASE \E s \in Slots : Forgotten(s)
  <2>1. PICK s \in Slots : Forgotten(s)
    BY <1>7
  <2>2. /\ letters[s] = 0 /\ replay # s /\ valid' = valid \ {s}
        /\ refused' = refused \ {s} /\ lost' = lost \ {s}
        /\ UNCHANGED <<letters, newest, replay>>
    BY <2>1 DEF Forgotten
  <2>3. \A x \in Present : x # s => x \in Present'
    BY <2>1 DEF Forgotten, Present, TypeOfEvents
  <2> QED
    BY <1>1, <2>2, <2>3 DEF Kept, TypeOfLetters, LettersHold, RefusedKept
<1>8. ASSUME \A s \in Slots : ~Forgotten(s), UNCHANGED <<letters, replay>>,
             valid \subseteq valid', newest' \in {newest, NoSlot}, refused' \ lost' \subseteq refused \ lost
      PROVE  Kept'
  <2>1. Present \subseteq Present'
    BY <1>1, <1>8, Stays
  <2> QED
    BY <1>1, <1>8, <2>1 DEF Kept, TypeOfLetters, LettersHold, RefusedKept
<1>9. CASE Detected
  BY <1>7, <1>8, <1>9 DEF Detected, eventVars
<1>10. CASE Restart
  <2>1. /\ replay' = NoSlot /\ newest' = NoSlot
        /\ UNCHANGED <<age, letters, lost, refused>>
    BY <1>10 DEF Restart, eventVars
  <2> QED
    BY <1>1, <2>1 DEF Kept, TypeOfLetters, LettersHold, RefusedKept, Present
<1>11. CASE \E s \in Slots : Happens(s) \/ Fix(s)
  BY <1>7, <1>8, <1>11 DEF Happens, Fix, letterVars, historyVars
<1>12. CASE Tick
  BY <1>7, <1>8, <1>12 DEF Tick, historyVars
<1>13. CASE Wake \/ Skip \/ FetchFails \/ NotDue \/ Flush \/ Toggle \/ UNCHANGED vars
  BY <1>7, <1>8, <1>13 DEF Wake, Skip, FetchFails, NotDue, Flush, Toggle, vars, eventVars, letterVars, historyVars
<1> QED
  BY <1>2, <1>3, <1>4, <1>5, <1>6, <1>7, <1>9, <1>10, <1>11, <1>12, <1>13 DEF Next, Cycle, Operator

LEMMA KeptInit == Init => TypeOK /\ Kept
BY TypeOKInit, TypeParts DEF Init, Kept, RefusedKept

LEMMA StepOfTypes == TypeOK /\ Kept /\ [Next]_vars => TypeOK' /\ Kept'
BY TypeParts, TypeOfLoopStep, TypeOfEventsStep, KeptStep, TypePartsNext DEF Kept

(* Every variable has its type and only events that happened are in the     *)
(* window, the snapshot or the accounts, through every step of main.py's    *)
(* loop, the connector, the dead letters and a restart.                    *)
THEOREM TypeCorrect == Spec => []TypeOK
BY KeptInit, StepOfTypes, PTL DEF Spec

(* A refused event has a dead letter until it has been handed to the        *)
(* detectors, unless a letter of the same millisecond replaced it or the    *)
(* file could not be written: normalize_batch writes one at every refusal,  *)
(* and dlq_replay takes one out only when that event has gone through.      *)
THEOREM RefusedStay == Spec => []RefusedKept
<1>1. Kept => RefusedKept
  BY DEF Kept
<1> QED
  BY <1>1, KeptInit, StepOfTypes, PTL DEF Spec

-----------------------------------------------------------------------------
(* No event is missed when the window keeps its events long enough: the     *)
(* oldest one a flush still owes to the detectors was as old as the window  *)
(* when it was accepted, then waited for a flush, then for one more poll.   *)

RetentionCovers == Grace + 1 >= Window + MaxWork

(* What the window has accepted and no flush has taken yet.                 *)
Owed == accepted \ (flushed \cup batch)

(* The snapshot exists while the detectors work on it, and owes nothing.    *)
Snapshot ==
    /\ batch # {} => loop.pc = "detect"
    /\ loop.pc = "detect" => accepted \subseteq flushed \cup batch

(* A poll comes a whole interval after the last flush.                      *)
Rhythm ==
    /\ loop.pc = "sleep" => /\ loop.busy = 0
                            /\ sinceFlush >= PollEvery - loop.wait \/ sinceFlush = Window
    /\ loop.pc \in {"poll", "flush"} => /\ loop.wait = 0
                                        /\ sinceFlush >= PollEvery \/ sinceFlush = Window

(* How old an owed event can be, by the flush it waits for and by the poll  *)
(* that may evict it.                                                      *)
Ages ==
    \A s \in Owed :
      /\ s \in buffer
      /\ loop.pc # "detect" /\ sinceFlush < Window => age[s] <= Window + sinceFlush - PollEvery
      /\ loop.pc \in {"sleep", "poll"} => age[s] <= 2 * Window - 1 - loop.wait + loop.busy

OnTime == Snapshot /\ Rhythm /\ Ages

LEMMA LoopFields ==
  ASSUME TypeOfLoop
  PROVE  /\ loop.pc \in {"sleep", "poll", "flush", "detect"}
         /\ loop.wait \in 0 .. PollEvery /\ loop.busy \in 0 .. MaxWork
         /\ loop = [pc |-> loop.pc, wait |-> loop.wait, busy |-> loop.busy]
         /\ Asleep.pc = "sleep" /\ Asleep.wait = PollEvery /\ Asleep.busy = 0
         /\ Ready.pc = "poll" /\ Ready.wait = 0 /\ Ready.busy = 0
BY DEF TypeOfLoop, LoopType, Asleep, Ready

(* What an assignment to one field does to the others.                     *)
LEMMA LoopUpdates ==
  ASSUME TypeOfLoop
  PROVE  /\ \A pc \in {"sleep", "poll", "flush", "detect"} : GoTo(pc) =>
               loop'.pc = pc /\ loop'.wait = loop.wait /\ loop'.busy = loop.busy
         /\ loop' = [loop EXCEPT !.wait = loop.wait - 1] =>
               loop'.pc = loop.pc /\ loop'.wait = loop.wait - 1 /\ loop'.busy = loop.busy
         /\ loop' = [loop EXCEPT !.busy = loop.busy + 1] =>
               loop'.pc = loop.pc /\ loop'.wait = loop.wait /\ loop'.busy = loop.busy + 1
         /\ Wake => loop'.pc = "poll" /\ loop'.wait = loop.wait /\ loop'.busy = loop.busy
BY DEF TypeOfLoop, LoopType, GoTo, Wake

LEMMA RhythmStep == TypeOfLoop /\ Rhythm /\ [Next]_vars => Rhythm'
<1> SUFFICES ASSUME TypeOfLoop, Rhythm, [Next]_vars PROVE Rhythm'
  OBVIOUS
<1> USE LoopFields, LoopUpdates
<1>1. sinceFlush \in 0 .. Window /\ Window \in Nat /\ PollEvery \in Nat
  BY IngestionAssumption DEF TypeOfLoop
<1>2. CASE Tick
  <2>1. sinceFlush' \in 0 .. Window /\ sinceFlush' >= sinceFlush
        /\ (sinceFlush' = sinceFlush + 1 \/ sinceFlush' = Window)
    BY <1>1, <1>2, UpToBound DEF Tick
  <2>2. CASE loop.pc = "sleep" /\ loop' = [loop EXCEPT !.wait = loop.wait - 1]
    BY <1>1, <2>1, <2>2 DEF Rhythm
  <2>3. CASE loop.pc \in {"poll", "detect"} /\ loop' = [loop EXCEPT !.busy = loop.busy + 1]
    BY <1>1, <2>1, <2>3 DEF Rhythm
  <2> QED
    BY <1>2, <2>2, <2>3 DEF Tick
<1>3. CASE Wake
  BY <1>1, <1>3 DEF Wake, Rhythm
<1>4. CASE Skip \/ FetchFails \/ Fetch
  BY <1>1, <1>4 DEF Skip, FetchFails, Fetch, Rhythm
<1>5. CASE NotDue \/ FetchGarbled
  BY <1>1, <1>5 DEF NotDue, FetchGarbled, Rhythm
<1>6. CASE Flush
  BY <1>1, <1>6 DEF Flush, Rhythm
<1>7. CASE Detected
  BY <1>1, <1>7 DEF Detected, Rhythm
<1>8. CASE Restart
  BY <1>1, <1>8 DEF Restart, Rhythm
<1>9. CASE UNCHANGED <<loop, sinceFlush>>
  BY <1>9 DEF Rhythm
<1>10. CASE Operator \/ Toggle \/ (\E s \in Slots : Happens(s) \/ Forgotten(s)) \/ UNCHANGED vars
  BY <1>9, <1>10 DEF Operator, ReplayDone, Fix, ReplayFails, Replay, Toggle, Happens, Forgotten, vars
<1> QED
  BY <1>2, <1>3, <1>4, <1>5, <1>6, <1>7, <1>8, <1>10 DEF Next, Cycle

(* An event the window owes is one it owed before, or one just fetched.     *)
LEMMA OwedStep ==
  ASSUME TypeOK, Snapshot, [Next]_vars, NEW s \in Owed'
  PROVE  s \in Owed \/ (Fetch /\ s \in Recent \cap valid)
<1>1. CASE Fetch
  BY <1>1 DEF Fetch, AddBatch, Owed
<1>2. CASE Detected
  BY <1>2 DEF Detected, Owed
<1>3. CASE FetchGarbled \/ Restart
  BY <1>3 DEF FetchGarbled, Restart, Upset, Owed
<1>4. CASE \E x \in Slots : Forgotten(x)
  BY <1>4 DEF Forgotten, Owed
<1>5. CASE ReplayDone
  BY <1>5 DEF ReplayDone, Owed
<1>6. CASE Flush
  <2>1. batch = {}
    BY <1>6 DEF Flush, Snapshot
  <2> QED
    BY <1>6, <2>1 DEF Flush, Owed, historyVars
<1>7. CASE UNCHANGED <<accepted, flushed, batch>>
  BY <1>7 DEF Owed
<1>8. CASE ~(Fetch \/ Detected \/ FetchGarbled \/ Restart \/ ReplayDone \/ Flush \/ \E x \in Slots : Forgotten(x))
  BY <1>7, <1>8 DEF Next, vars, historyVars, Cycle, Wake, Skip, FetchFails, NotDue, Operator, Fix, ReplayFails,
     Replay, Toggle, Tick, Happens
<1> QED
  BY <1>1, <1>2, <1>3, <1>4, <1>5, <1>6, <1>8

LEMMA SnapshotStep == TypeOK /\ OnTime /\ [Next]_vars => Snapshot'
<1> SUFFICES ASSUME TypeOK, OnTime, [Next]_vars PROVE Snapshot'
  OBVIOUS
<1>1. TypeOfLoop /\ Snapshot
  BY TypeParts DEF OnTime
<1> USE <1>1, LoopFields, LoopUpdates
<1>2. CASE Tick
  BY <1>2 DEF Tick, Snapshot, historyVars
<1>3. CASE Wake \/ Skip \/ FetchFails \/ NotDue
  BY <1>3 DEF Wake, Skip, FetchFails, NotDue, Snapshot, historyVars
<1>4. CASE Fetch
  BY <1>4 DEF Fetch, Snapshot
<1>5. CASE FetchGarbled \/ Restart
  BY <1>5 DEF FetchGarbled, Restart, Snapshot
<1>6. CASE Flush
  <2>1. accepted \subseteq flushed \cup buffer
    BY <1>6 DEF Flush, Snapshot, OnTime, Ages, Owed
  <2> QED
    BY <1>6, <2>1 DEF Flush, Snapshot, historyVars
<1>7. CASE Detected
  BY <1>7 DEF Detected, Snapshot
<1>8. CASE \E x \in Slots : Forgotten(x)
  BY <1>8 DEF Forgotten, Snapshot
<1>9. CASE ReplayDone
  BY <1>9 DEF ReplayDone, Snapshot
<1>10. CASE UNCHANGED <<loop, batch, accepted, flushed>>
  BY <1>10 DEF Snapshot
<1>11. CASE Toggle \/ (\E x \in Slots : Fix(x) \/ ReplayFails(x) \/ Replay(x) \/ Happens(x)) \/ UNCHANGED vars
  BY <1>10, <1>11 DEF Toggle, Fix, ReplayFails, Replay, Happens, vars, historyVars
<1> QED
  BY <1>2, <1>3, <1>4, <1>5, <1>6, <1>7, <1>8, <1>9, <1>11 DEF Next, Cycle, Operator

(* Ages of events that are there grow by one as time passes, at most.      *)
LEMMA AgesMove ==
  ASSUME TypeOK, [Next]_vars, NEW s \in Present, s \in Present', ~Forgotten(s)
  PROVE  /\ age[s] \in 0 .. Horizon /\ age'[s] \in 0 .. Horizon
         /\ age'[s] <= age[s] + 1
         /\ ~Tick => age'[s] = age[s]
<1>1. age[s] \in 0 .. Horizon /\ s \in Slots
  BY TypeParts DEF TypeOfEvents, Present
<1>2. CASE Tick
  <2>1. age'[s] = UpTo(age[s], Horizon)
    BY <1>1, <1>2 DEF Tick
  <2> QED
    BY <1>1, <1>2, <2>1, UpToBound, HorizonNat
<1>3. ASSUME ~Tick PROVE age'[s] = age[s]
  <2>1. CASE \E x \in Slots : Happens(x)
    <3>1. PICK x \in Slots : Happens(x)
      BY <2>1
    <3>2. x # s
      BY <3>1 DEF Happens, Present
    <3> QED
      BY <1>1, <3>1, <3>2, TypeParts DEF Happens, TypeOfEvents
  <2>2. CASE \E x \in Slots : Forgotten(x)
    <3>1. PICK x \in Slots : Forgotten(x)
      BY <2>2
    <3>2. x # s
      BY <3>1
    <3> QED
      BY <1>1, <3>1, <3>2, TypeParts DEF Forgotten, TypeOfEvents
  <2>3. CASE ~(\E x \in Slots : Happens(x) \/ Forgotten(x))
    BY <1>3, <2>3 DEF Next, vars, eventVars, Cycle, Wake, Skip, FetchFails, Fetch, NotDue, Flush, Detected,
       FetchGarbled, Restart, Operator, ReplayDone, Fix, ReplayFails, Replay, Toggle
  <2> QED
    BY <2>1, <2>2, <2>3
<1> QED
  BY <1>1, <1>2, <1>3

(* The window lets go of what it owes only by handing it over.              *)
LEMMA BufferStep ==
  ASSUME RetentionCovers, TypeOK, OnTime, [Next]_vars, NEW s \in Owed, s \in Owed'
  PROVE  s \in buffer'
<1>1. s \in buffer /\ s \in Present /\ TypeOfLoop
  BY TypeParts DEF OnTime, Ages, TypeOK, Owed
<1>2. CASE Fetch
  <2>1. loop.pc = "poll" /\ buffer \ Stale \subseteq buffer'
    BY <1>2 DEF Fetch, AddBatch
  <2>2. age[s] <= 2 * Window - 1 + MaxWork
    <3>1. age[s] <= 2 * Window - 1 - loop.wait + loop.busy
      BY <2>1 DEF OnTime, Ages
    <3>2. loop.wait = 0 /\ loop.busy \in 0 .. MaxWork
      BY <1>1, <2>1, LoopFields DEF OnTime, Rhythm
    <3>3. age[s] \in 0 .. Horizon
      BY <1>1, TypeParts DEF TypeOfEvents, Present
    <3> QED
      BY <3>1, <3>2, <3>3, HorizonNat, IngestionAssumption
  <2>3. ~(age[s] > Window + Grace)
    <3>1. age[s] \in 0 .. Horizon
      BY <1>1, TypeParts DEF TypeOfEvents, Present
    <3> QED
      BY <2>2, <3>1, HorizonNat, IngestionAssumption DEF RetentionCovers
  <2> QED
    BY <1>1, <2>1, <2>3 DEF Stale
<1>3. CASE Restart
  BY <1>3 DEF Restart, Upset, Owed
<1>4. CASE ~(Fetch \/ Restart)
  BY <1>1, <1>4 DEF Next, vars, Cycle, Wake, Skip, FetchFails, NotDue, Flush, Detected, FetchGarbled,
     Operator, ReplayDone, Fix, ReplayFails, Replay, Toggle, Tick, Happens, Forgotten
<1> QED
  BY <1>2, <1>3, <1>4

(* What a flush waits for, and what a poll may evict, as the loop goes on.  *)
LEMMA AgeStep ==
  ASSUME TypeOK, OnTime, [Next]_vars, NEW s \in Owed, s \in Owed', ~Forgotten(s)
  PROVE  /\ loop'.pc # "detect" /\ sinceFlush' < Window => age'[s] <= Window + sinceFlush' - PollEvery
         /\ loop'.pc \in {"sleep", "poll"} => age'[s] <= 2 * Window - 1 - loop'.wait + loop'.busy
<1> USE LoopFields, LoopUpdates
<1>1. TypeOfLoop /\ Rhythm /\ Snapshot /\ s \in Present /\ s \in Present'
  <2>1. TypeOfEvents /\ TypeOfLoop /\ s \in Present
    BY TypeParts DEF Owed, TypeOfEvents
  <2> QED
    BY <2>1, Stays DEF OnTime
<1>2. /\ age[s] \in 0 .. Horizon /\ age'[s] \in 0 .. Horizon /\ age'[s] <= age[s] + 1
      /\ ~Tick => age'[s] = age[s]
  BY <1>1, AgesMove
<1>3. sinceFlush \in 0 .. Window /\ Window \in Nat /\ PollEvery \in Nat /\ Horizon \in Nat
  BY <1>1, HorizonNat, IngestionAssumption DEF TypeOfLoop
<1>4. /\ loop.pc # "detect" /\ sinceFlush < Window => age[s] <= Window + sinceFlush - PollEvery
      /\ loop.pc \in {"sleep", "poll"} => age[s] <= 2 * Window - 1 - loop.wait + loop.busy
  BY DEF OnTime, Ages
<1>5. loop.pc # "detect"
  BY DEF OnTime, Snapshot, Owed
<1>6. CASE Tick
  <2>1. sinceFlush' \in 0 .. Window /\ (sinceFlush' = sinceFlush + 1 \/ sinceFlush' = Window)
    BY <1>3, <1>6, UpToBound DEF Tick
  <2>2. CASE loop.pc = "sleep" /\ loop' = [loop EXCEPT !.wait = loop.wait - 1]
    BY <1>1, <1>2, <1>3, <1>4, <2>1, <2>2
  <2>3. CASE loop.pc = "poll" /\ loop' = [loop EXCEPT !.busy = loop.busy + 1]
    BY <1>1, <1>2, <1>3, <1>4, <2>1, <2>3
  <2> QED
    BY <1>5, <1>6, <2>2, <2>3 DEF Tick
<1>7. CASE Wake
  BY <1>1, <1>2, <1>3, <1>4, <1>7 DEF Wake, eventVars
<1>8. CASE Skip \/ FetchFails \/ Fetch
  BY <1>1, <1>2, <1>3, <1>4, <1>8 DEF Skip, FetchFails, Fetch, eventVars
<1>9. CASE NotDue
  <2>1. sinceFlush' = sinceFlush /\ sinceFlush < Window /\ loop.pc = "flush" /\ loop' = Asleep /\ age' = age
    BY <1>3, <1>9 DEF NotDue, Due, eventVars
  <2> QED
    BY <1>1, <1>2, <1>3, <1>4, <1>9, <2>1
<1>10. CASE Flush
  <2>1. s \in buffer /\ batch' = buffer
    BY <1>10 DEF Flush, OnTime, Ages
  <2> QED
    BY <2>1 DEF Owed
<1>11. CASE FetchGarbled \/ Restart
  BY <1>11 DEF FetchGarbled, Restart, Upset, Owed
<1>12. CASE Detected
  BY <1>5, <1>12 DEF Detected
<1>13. CASE UNCHANGED <<loop, sinceFlush>> /\ ~Tick
  BY <1>2, <1>4, <1>13
<1>14. CASE ~(Tick \/ Wake \/ Skip \/ FetchFails \/ Fetch \/ NotDue \/ Flush \/ FetchGarbled \/ Restart \/ Detected)
  BY <1>13, <1>14 DEF Next, vars, Cycle, Operator, ReplayDone, Fix, ReplayFails, Replay, Toggle, Happens, Forgotten
<1> QED
  BY <1>6, <1>7, <1>8, <1>9, <1>10, <1>11, <1>12, <1>14

(* An event just fetched is in the window and young enough for both.        *)
LEMMA FetchedStep ==
  ASSUME TypeOK, OnTime, [Next]_vars, Fetch, NEW s \in Recent \cap valid
  PROVE  /\ s \in buffer'
         /\ sinceFlush' < Window => age'[s] <= Window + sinceFlush' - PollEvery
         /\ loop'.pc \notin {"sleep", "poll"}
<1>1. TypeOfLoop /\ Rhythm
  BY TypeParts DEF OnTime
<1>2. s \in Present /\ age[s] <= Window /\ age[s] \in 0 .. Horizon
  BY TypeParts DEF Recent, Present, TypeOfEvents
<1>3. s \notin Stale
  BY <1>2, IngestionAssumption, HorizonNat DEF Stale
<1>4. s \in buffer'
  BY <1>3 DEF Fetch, AddBatch
<1>5. /\ loop.pc = "poll" /\ loop'.pc = "flush"
      /\ sinceFlush' = sinceFlush /\ age' = age
  BY <1>1, LoopUpdates DEF Fetch, eventVars
<1>6. sinceFlush \in 0 .. Window /\ (sinceFlush >= PollEvery \/ sinceFlush = Window)
  BY <1>1, <1>5 DEF Rhythm, TypeOfLoop
<1> QED
  BY <1>2, <1>4, <1>5, <1>6, IngestionAssumption, HorizonNat

LEMMA AgesStep ==
  ASSUME RetentionCovers, TypeOK, OnTime, [Next]_vars
  PROVE  Ages'
<1> SUFFICES ASSUME NEW s \in Owed'
             PROVE  /\ s \in buffer'
                    /\ loop'.pc # "detect" /\ sinceFlush' < Window => age'[s] <= Window + sinceFlush' - PollEvery
                    /\ loop'.pc \in {"sleep", "poll"} => age'[s] <= 2 * Window - 1 - loop'.wait + loop'.busy
  BY DEF Ages
<1>1. CASE Fetch /\ s \in Recent \cap valid
  BY <1>1, FetchedStep
<1>2. CASE s \in Owed
  <2>1. ~Forgotten(s)
    BY DEF Forgotten, Owed
  <2> QED
    BY <1>2, <2>1, BufferStep, AgeStep
<1> QED
  BY <1>1, <1>2, OwedStep DEF OnTime

(* When Grace + 1 covers the window and one cycle's work, every event the   *)
(* window has accepted is handed to the detectors before it is evicted:     *)
(* main.py's flush once per window, EventWindow's eviction at every batch,  *)
(* whatever the indexer, the breaker and the operator do.                   *)
THEOREM NothingIsMissed ==
  ASSUME RetentionCovers
  PROVE  Spec => []NothingMissed
<1>1. Init => OnTime
  BY IngestionAssumption, LoopFields, TypeOKInit, TypeParts DEF Init, OnTime, Snapshot, Rhythm, Ages, Owed, Ready
<1>2. TypeOK /\ Kept /\ OnTime /\ [Next]_vars => OnTime'
  <2>1. TypeOK => TypeOfLoop
    BY TypeParts
  <2> QED
    BY <2>1, RhythmStep, SnapshotStep, AgesStep DEF OnTime
<1>3. OnTime => NothingMissed
  BY DEF OnTime, Ages, Owed, NothingMissed
<1> QED
  BY <1>1, <1>2, <1>3, KeptInit, StepOfTypes, PTL DEF Spec
=============================================================================
