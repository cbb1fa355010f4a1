------------------------- MODULE FederatedMemberProofs -------------------------
(***************************************************************************)
(* Proofs about FederatedMember, for any rounds, any number of             *)
(* contributions in view and any bounds.                                   *)
(***************************************************************************)
EXTENDS FederatedMember, TLAPS

(* The places that are not about a contribution.                            *)
Plain == Places \ OnContribution

JobTyped == /\ job \in Job
            /\ job.at \in OnContribution => job \in [at: OnContribution, id: Ids, round: Rounds]

-----------------------------------------------------------------------------
(* Types.                                                                  *)

LEMMA PlainJob ==
  ASSUME NEW p \in Plain, job' = [at |-> p]
  PROVE  JobTyped' /\ job'.at = p
BY DEF JobTyped, Plain, Job, Places, OnContribution

LEMMA SameJob ==
  ASSUME TypeOK, UNCHANGED job
  PROVE  JobTyped'
BY DEF TypeOK, JobTyped

LEMMA ContributionJob ==
  ASSUME NEW p \in OnContribution, NEW i \in Ids, NEW r \in Rounds,
         job' = [at |-> p, id |-> i, round |-> r]
  PROVE  JobTyped' /\ job'.at = p /\ job'.id = i /\ job'.round = r
BY DEF JobTyped, Job, Places, OnContribution

LEMMA MovedJob ==
  ASSUME TypeOK, job.at \in OnContribution, NEW p \in OnContribution, job' = [job EXCEPT !.at = p]
  PROVE  JobTyped' /\ job'.at = p /\ job'.id = job.id /\ job'.round = job.round
<1>1. job \in [at: OnContribution, id: Ids, round: Rounds]
  BY DEF TypeOK
<1> QED
  BY <1>1 DEF JobTyped, Job, Places, OnContribution

LEMMA TypeOKInit == Init => TypeOK
<1> SUFFICES ASSUME Init PROVE TypeOK
  OBVIOUS
<1>1. 0 \in Keys
  BY MemberAssumption DEF Keys
<1>2. job \in Job /\ job.at \notin OnContribution
  BY DEF Init, Idle, Job, Places, OnContribution
<1> QED
  BY <1>1, <1>2 DEF Init, TypeOK, Statuses

(* What the three kinds of steps do to the types of the membership, of the   *)
(* job and history, and of what is outside.                                 *)
MembershipTyped ==
    /\ key \in Keys /\ keys \in Keys /\ config \in Keys
    /\ optedIn \in BOOLEAN /\ mode \in {"manual", "auto"}
    /\ removal \in {"none", "requested", "completed"}

OutsideTyped ==
    /\ org \in [status: {"unknown", "enrolled", "leaving", "revoked"}, key: Keys]
    /\ open \subseteq Rounds /\ have \subseteq Rounds /\ sent \subseteq Rounds
    /\ wire \subseteq Uploads /\ taken \subseteq Ids
    /\ deaths \in Nat

LEMMA MembershipStep ==
  ASSUME TypeOK, Next
  PROVE  MembershipTyped'
<1>1. MembershipTyped /\ 0 \in Keys
  BY MemberAssumption DEF TypeOK, MembershipTyped, Keys
<1>2. \A k \in 1 .. keys : k \in Keys
  BY <1>1, MemberAssumption DEF MembershipTyped, Keys
<1>3. ASSUME Generate PROVE key' \in Keys /\ keys' \in Keys
  BY <1>1, <1>3, MemberAssumption DEF Generate, Keys, MembershipTyped
<1>4. CASE UNCHANGED membership
  BY <1>1, <1>4 DEF membership, MembershipTyped
<1>5. CASE InitKeypair \/ RotateStore
  BY <1>1, <1>3, <1>5, Zenon DEF InitKeypair, RotateStore, MembershipTyped
<1>6. CASE RotateDelete
  BY <1>1, <1>6 DEF RotateDelete, MembershipTyped
<1>7. CASE ConfigureByHand
  BY <1>1, <1>2, <1>7 DEF ConfigureByHand, Configure, MembershipTyped
<1>8. CASE EnrollStart
  BY <1>1, <1>3, <1>8 DEF EnrollStart, MembershipTyped
<1>9. CASE Redeem
  BY <1>1, <1>9 DEF Redeem, Configure, MembershipTyped
<1>10. ASSUME NEW yes \in BOOLEAN, OptIn(yes) PROVE MembershipTyped'
  BY <1>1, <1>10, Zenon DEF OptIn, MembershipTyped
<1>11. ASSUME NEW m \in {"manual", "auto"}, SetMode(m) PROVE MembershipTyped'
  BY <1>1, <1>11, Zenon DEF SetMode, MembershipTyped
<1>12. CASE NoteRequest \/ NoteCompleted
  BY <1>1, <1>12 DEF NoteRequest, NoteCompleted, MembershipTyped
<1>13. CASE Purge \/ ForcePurge
  BY <1>1, <1>13 DEF Purge, ForcePurge, Wipe, MembershipTyped
<1>14. CASE Participate \/ AutoTick \/ RequestLeave \/ FinalizeLeave \/ Send \/ Answer \/ Record \/ Outside
  <2>1. UNCHANGED membership
    BY <1>14, Zenon DEF Participate, AutoTick, Start, RequestLeave, FinalizeLeave, Send, Answer, Record, Outside,
       Take, Lose, OpenRound, CloseRound, Admit, Expel, Death
  <2> QED
    BY <1>4, <2>1
<1> QED
  BY <1>5, <1>6, <1>7, <1>8, <1>9, <1>10, <1>11, <1>12, <1>13, <1>14 DEF Next, Route, Advance

LEMMA JobStep ==
  ASSUME TypeOK, Next
  PROVE  JobTyped' /\ history' \in [Ids -> Statuses]
<1>1. /\ history \in [Ids -> Statuses]
      /\ \A s \in {"none", "pending", "accepted", "failed"} : s \in Statuses
  BY DEF TypeOK, Statuses
<1>2. \A p \in {"idle", "rotate", "redeem", "requested", "purge", "purged"} : p \in Plain
  BY DEF Plain, Places, OnContribution
<1>3. CASE InitKeypair \/ ConfigureByHand
  BY <1>1, <1>3, SameJob DEF InitKeypair, ConfigureByHand
<1>4. CASE RotateDelete \/ EnrollStart \/ FinalizeLeave
  BY <1>1, <1>2, <1>4, PlainJob DEF RotateDelete, EnrollStart, FinalizeLeave, GoTo
<1>5. CASE RotateStore \/ Redeem \/ NoteRequest \/ NoteCompleted
  BY <1>1, <1>2, <1>5, PlainJob DEF RotateStore, Redeem, NoteRequest, NoteCompleted, Idle
<1>6. ASSUME NEW yes \in BOOLEAN, OptIn(yes) PROVE JobTyped' /\ history' \in [Ids -> Statuses]
  BY <1>1, <1>6, SameJob DEF OptIn
<1>7. ASSUME NEW m \in {"manual", "auto"}, SetMode(m) PROVE JobTyped' /\ history' \in [Ids -> Statuses]
  BY <1>1, <1>7, SameJob DEF SetMode
<1>8. ASSUME NEW r \in Rounds, Start(r) PROVE JobTyped' /\ history' \in [Ids -> Statuses]
  <2>1. PICK i \in Ids : /\ history' = [history EXCEPT ![i] = "pending"]
                        /\ job' = [at |-> "send", id |-> i, round |-> r]
    BY <1>8 DEF Start
  <2>2. "send" \in OnContribution
    BY DEF OnContribution
  <2> QED
    BY <1>1, <2>1, <2>2, ContributionJob
<1>9. CASE Participate \/ AutoTick
  BY <1>8, <1>9 DEF Participate, AutoTick, TypeOK
<1>10. CASE Send \/ Answer
  <2>1. /\ job.at \in OnContribution /\ UNCHANGED history
        /\ \E p \in {"answer", "failed", "accepted"} : job' = [job EXCEPT !.at = p]
    BY <1>10 DEF Send, Answer, At, OnContribution
  <2>2. {"answer", "failed", "accepted"} \subseteq OnContribution
    BY DEF OnContribution
  <2> QED
    BY <1>1, <2>1, <2>2, MovedJob
<1>11. CASE Record
  <2>1. job.at \in {"accepted", "failed"} /\ job.at \in OnContribution
    BY <1>11 DEF Record, At, OnContribution
  <2>2. job.id \in Ids
    BY <2>1 DEF TypeOK
  <2>3. history' \in [Ids -> Statuses]
    BY <1>1, <1>11, <2>1, <2>2 DEF Record
  <2> QED
    BY <1>2, <1>11, <2>3, PlainJob DEF Record, Idle
<1>12. CASE RequestLeave
  <2>1. UNCHANGED history /\ (UNCHANGED job \/ GoTo("requested"))
    BY <1>12 DEF RequestLeave
  <2> QED
    BY <1>1, <1>2, <2>1, SameJob, PlainJob DEF GoTo
<1>13. CASE Purge \/ ForcePurge
  <2>1. GoTo("purged") /\ history' \in [Ids -> Statuses]
    BY <1>1, <1>13 DEF Purge, ForcePurge
  <2> QED
    BY <1>2, <2>1, PlainJob DEF GoTo
<1>14. CASE Outside
  <2>1. UNCHANGED history /\ (UNCHANGED job \/ job' = [at |-> "idle"])
    BY <1>14, Zenon DEF Outside, Take, Lose, OpenRound, CloseRound, Admit, Expel, Death, Idle
  <2> QED
    BY <1>1, <1>2, <2>1, SameJob, PlainJob
<1> QED
  BY <1>3, <1>4, <1>5, <1>6, <1>7, <1>9, <1>10, <1>11, <1>12, <1>13, <1>14 DEF Next, Route, Advance

LEMMA OutsideStep ==
  ASSUME TypeOK, Next
  PROVE  OutsideTyped'
<1>1. OutsideTyped
  BY DEF TypeOK, OutsideTyped
<1>2. key \in Keys /\ \A k \in 1 .. keys : k \in Keys
  BY MemberAssumption DEF TypeOK, Keys
<1>3. CASE UNCHANGED <<coordinator, sent, deaths>>
  BY <1>1, <1>3 DEF coordinator, OutsideTyped
<1>4. CASE Redeem
  BY <1>1, <1>2, <1>4 DEF Redeem, OutsideTyped
<1>5. ASSUME NEW yes \in BOOLEAN, OptIn(yes) PROVE OutsideTyped'
  BY <1>1, <1>5 DEF OptIn, coordinator, OutsideTyped
<1>6. ASSUME NEW r \in Rounds, Start(r) PROVE OutsideTyped'
  BY <1>1, <1>6 DEF Start, OutsideTyped
<1>7. CASE Participate \/ AutoTick
  BY <1>6, <1>7 DEF Participate, AutoTick, TypeOK
<1>8. CASE Send
  <2>1. job.id \in Ids /\ job.round \in Rounds
    BY <1>8 DEF Send, At, TypeOK, OnContribution
  <2>2. [id |-> job.id, round |-> job.round, key |-> key] \in Uploads
    BY <1>2, <2>1 DEF Uploads
  <2> QED
    BY <1>1, <1>8, <2>1, <2>2 DEF Send, OutsideTyped
<1>9. CASE RequestLeave
  BY <1>1, <1>9 DEF RequestLeave, OutsideTyped
<1>10. CASE Purge \/ ForcePurge
  BY <1>1, <1>10 DEF Purge, ForcePurge, Wipe, coordinator, OutsideTyped
<1>11. ASSUME NEW u \in wire, Take(u) \/ Lose(u) PROVE OutsideTyped'
  <2>1. u.id \in Ids /\ u.round \in Rounds
    BY <1>1 DEF OutsideTyped, Uploads
  <2> QED
    BY <1>1, <1>11, <2>1 DEF Take, Lose, OutsideTyped
<1>12. ASSUME NEW r \in Rounds, OpenRound(r) \/ CloseRound(r) PROVE OutsideTyped'
  BY <1>1, <1>12 DEF OpenRound, CloseRound, OutsideTyped
<1>13. CASE Admit \/ Expel
  BY <1>1, <1>2, <1>13 DEF Admit, Expel, OutsideTyped
<1>14. CASE Death
  BY <1>1, <1>14 DEF Death, coordinator, OutsideTyped
<1>15. CASE \/ InitKeypair \/ RotateDelete \/ RotateStore \/ ConfigureByHand \/ EnrollStart \/ FinalizeLeave
            \/ Answer \/ Record \/ NoteRequest \/ NoteCompleted
            \/ \E m \in {"manual", "auto"} : SetMode(m)
  BY <1>3, <1>15, Zenon DEF InitKeypair, RotateDelete, RotateStore, ConfigureByHand, EnrollStart, FinalizeLeave,
     Answer, Record, NoteRequest, NoteCompleted, SetMode
<1> QED
  BY <1>4, <1>5, <1>7, <1>8, <1>9, <1>10, <1>11, <1>12, <1>13, <1>14, <1>15 DEF Next, Route, Advance, Outside

LEMMA TypeOKStep ==
  ASSUME TypeOK, [Next]_vars
  PROVE  TypeOK'
<1>1. CASE UNCHANGED vars
  BY <1>1 DEF vars, membership, coordinator, TypeOK
<1>2. CASE Next
  BY <1>2, MembershipStep, JobStep, OutsideStep DEF TypeOK, MembershipTyped, JobTyped, OutsideTyped
<1> QED
  BY <1>1, <1>2

(* Type correctness.                                                       *)
THEOREM TypeCorrect == Spec => []TypeOK
BY TypeOKInit, TypeOKStep, PTL DEF Spec

-----------------------------------------------------------------------------
(* The invariant: what is committed at every place of a job.                *)
JobTrue ==
    /\ job.at \in OnContribution => history[job.id] = "pending"
    /\ job.at = "send" => Configured /\ optedIn
    /\ job.at = "accepted" => job.id \in taken
    /\ job.at = "redeem" => key # 0
    /\ job.at \in {"requested", "purge"} => Configured
    /\ job.at = "purged" => ~Configured /\ ~optedIn

(* Consent is never kept by an organisation that is out, and what was sent   *)
(* was sent under the present one.                                         *)
ConsentNeedsMembership ==
    /\ optedIn => Configured
    /\ sent # {} => optedIn

IInv == TypeOK /\ ToldTrue /\ JobTrue /\ ConsentNeedsMembership

LEMMA InitInvariant == Init => IInv
<1> SUFFICES ASSUME Init PROVE IInv
  OBVIOUS
<1>1. ToldTrue
  BY DEF Init, ToldTrue
<1>2. JobTrue
  BY DEF Init, JobTrue, Idle, OnContribution
<1> QED
  BY <1>1, <1>2, TypeOKInit DEF Init, IInv, ConsentNeedsMembership

(* The contributions: what the history says of each, and what the job does. *)
Listed ==
    /\ \A i \in Ids : history[i] = "accepted" => i \in taken
    /\ \A i \in taken : history[i] # "none"
    /\ \A u \in wire : history[u.id] # "none"
    /\ job.at \in OnContribution => history[job.id] = "pending"
    /\ job.at = "accepted" => job.id \in taken

Interrupted ==
    deaths = 0 => \A i \in Ids : history[i] = "pending" => job.at \in OnContribution /\ job.id = i

LEMMA IdleJob == Idle.at = "idle" /\ "idle" \notin OnContribution
BY DEF Idle, OnContribution

LEMMA ListedStep ==
  ASSUME TypeOK, Listed, Interrupted, Next
  PROVE  Listed' /\ Interrupted'
<1>1. /\ history \in [Ids -> Statuses] /\ wire \subseteq Uploads /\ taken \subseteq Ids /\ deaths \in Nat
      /\ job.at \in OnContribution => job.id \in Ids
      /\ \A u \in wire : u.id \in Ids
  BY DEF TypeOK, Uploads
<1>2. CASE /\ UNCHANGED <<history, wire, taken, deaths>>
           /\ job.at \notin OnContribution /\ job'.at \notin OnContribution
  BY <1>1, <1>2 DEF Listed, Interrupted, OnContribution
<1>3. ASSUME NEW p, p \notin OnContribution, GoTo(p)
      PROVE  job'.at \notin OnContribution
  BY <1>3 DEF GoTo
<1>4. CASE \/ InitKeypair \/ RotateDelete \/ RotateStore \/ ConfigureByHand \/ EnrollStart \/ FinalizeLeave
           \/ RequestLeave \/ NoteRequest \/ NoteCompleted \/ Redeem \/ Purge
           \/ (\E yes \in BOOLEAN : OptIn(yes)) \/ (\E m \in {"manual", "auto"} : SetMode(m))
  <2>1. UNCHANGED <<history, wire, taken, deaths>>
    BY <1>4 DEF InitKeypair, RotateDelete, RotateStore, ConfigureByHand, EnrollStart, FinalizeLeave,
       RequestLeave, NoteRequest, NoteCompleted, Redeem, Purge, OptIn, SetMode, coordinator
  <2>2. job.at \in {"idle", "rotate", "redeem", "requested", "purge", "purged"}
    BY <1>4, Zenon DEF InitKeypair, RotateDelete, RotateStore, ConfigureByHand, EnrollStart, FinalizeLeave,
       RequestLeave, NoteRequest, NoteCompleted, Redeem, Purge, OptIn, SetMode, At
  <2>3. \/ UNCHANGED job \/ job' = Idle
        \/ GoTo("rotate") \/ GoTo("redeem") \/ GoTo("purge") \/ GoTo("requested") \/ GoTo("purged")
    BY <1>4, Zenon DEF InitKeypair, RotateDelete, RotateStore, ConfigureByHand, EnrollStart, FinalizeLeave,
       RequestLeave, NoteRequest, NoteCompleted, Redeem, Purge, OptIn, SetMode
  <2>4. \A p \in {"idle", "rotate", "redeem", "requested", "purge", "purged"} : p \notin OnContribution
    BY DEF OnContribution
  <2> QED
    BY <1>2, <1>3, <2>1, <2>2, <2>3, <2>4, IdleJob
<1>5. ASSUME NEW r \in Rounds, At("idle"), Start(r)
      PROVE  Listed' /\ Interrupted'
  <2>1. PICK i \in Ids : /\ history' = [history EXCEPT ![i] = "pending"]
                        /\ job' = [at |-> "send", id |-> i, round |-> r]
                        /\ wire' = {u \in wire : u.id # i}
                        /\ taken' = taken \ {i}
                        /\ UNCHANGED deaths
    BY <1>5 DEF Start
  <2>2. job'.at = "send" /\ job'.id = i /\ "send" \in OnContribution /\ job.at \notin OnContribution
    BY <1>5, <2>1 DEF OnContribution, At
  <2> QED
    BY <1>1, <2>1, <2>2 DEF Listed, Interrupted
<1>6. CASE Participate \/ AutoTick
  BY <1>5, <1>6 DEF Participate, AutoTick, TypeOK
<1>7. CASE Send
  <2>1. /\ job.at \in OnContribution /\ job.at = "send" /\ UNCHANGED <<history, taken, deaths>>
        /\ \/ wire' = wire \cup {[id |-> job.id, round |-> job.round, key |-> key]}
           \/ wire' = wire
        /\ job' = [job EXCEPT !.at = "answer"] \/ job' = [job EXCEPT !.at = "failed"]
    BY <1>7 DEF Send, At, OnContribution
  <2>2. job'.id = job.id /\ job'.at \in {"answer", "failed"} /\ job'.at \in OnContribution
    BY <2>1, MovedJob DEF OnContribution
  <2>3. \A u \in wire' : u \in wire \/ u.id = job.id
    BY <2>1
  <2> QED
    BY <1>1, <2>1, <2>2, <2>3 DEF Listed, Interrupted
<1>8. CASE Answer
  <2>1. /\ job.at \in OnContribution /\ UNCHANGED <<history, taken, wire, deaths>>
        /\ \/ job.id \in taken /\ job' = [job EXCEPT !.at = "accepted"]
           \/ job' = [job EXCEPT !.at = "failed"]
    BY <1>8 DEF Answer, At, OnContribution, coordinator
  <2>2. /\ job'.id = job.id /\ job'.at \in OnContribution
        /\ job'.at = "accepted" => job.id \in taken
    BY <2>1, MovedJob DEF OnContribution
  <2> QED
    BY <1>1, <2>1, <2>2 DEF Listed, Interrupted
<1>9. CASE Record
  <2>1. /\ job.at \in OnContribution /\ job.at \in {"accepted", "failed"} /\ UNCHANGED <<taken, wire, deaths>>
        /\ history' = [history EXCEPT ![job.id] = job.at] /\ job' = Idle
    BY <1>9 DEF Record, At, OnContribution, coordinator
  <2>2. /\ \A i \in Ids : history'[i] = IF i = job.id THEN job.at ELSE history[i]
        /\ job'.at \notin OnContribution /\ job'.at # "accepted"
    BY <1>1, <2>1, IdleJob
  <2> QED
    BY <1>1, <2>1, <2>2 DEF Listed, Interrupted
<1>10. CASE ForcePurge
  <2>1. /\ UNCHANGED deaths
        /\ \/ UNCHANGED <<history, wire, taken>>
           \/ history' = [i \in Ids |-> "none"] /\ wire' = {} /\ taken' = {}
        /\ job.at = "idle" /\ job'.at = "purged"
    BY <1>10 DEF ForcePurge, At, GoTo
  <2> QED
    BY <1>1, <2>1 DEF Listed, Interrupted, OnContribution
<1>11. ASSUME NEW u \in wire, Take(u) \/ Lose(u)
       PROVE  Listed' /\ Interrupted'
  <2>1. /\ UNCHANGED <<history, job, deaths>> /\ wire' \subseteq wire
        /\ taken' = taken \/ taken' = taken \cup {u.id}
    BY <1>11 DEF Take, Lose
  <2> QED
    BY <1>1, <2>1 DEF Listed, Interrupted
<1>12. CASE Death
  <2>1. /\ UNCHANGED <<history, taken, wire>> /\ deaths' # 0 /\ job' = Idle
    BY <1>1, <1>12 DEF Death, coordinator
  <2> QED
    BY <2>1, IdleJob DEF Listed, Interrupted
<1>13. CASE Admit \/ Expel \/ \E r \in Rounds : OpenRound(r) \/ CloseRound(r)
  <2>1. UNCHANGED <<history, job, wire, taken, deaths>>
    BY <1>13 DEF Admit, Expel, OpenRound, CloseRound
  <2> QED
    BY <2>1 DEF Listed, Interrupted
<1> QED
  BY <1>4, <1>6, <1>7, <1>8, <1>9, <1>10, <1>11, <1>12, <1>13 DEF Next, Route, Advance, Outside

(* Membership, consent and removal.                                        *)
Standing ==
    /\ optedIn => Configured
    /\ sent # {} => optedIn
    /\ removal = "completed" => ~Configured /\ ~optedIn
    /\ deaths = 0 => (removal = "requested" => Configured \/ At("purged"))
    /\ job.at = "send" => Configured /\ optedIn
    /\ job.at = "redeem" => key # 0
    /\ job.at \in {"requested", "purge"} => Configured
    /\ job.at = "purged" => ~Configured /\ ~optedIn

LEMMA StandingStep ==
  ASSUME TypeOK, Standing, Next
  PROVE  Standing'
<1>1. key \in Nat /\ keys \in Nat /\ config \in Nat /\ deaths \in Nat
  BY MemberAssumption DEF TypeOK, Keys
<1>2. ASSUME job' = Idle
      PROVE  job'.at = "idle"
  BY <1>2 DEF Idle
<1>3. CASE UNCHANGED <<membership, job, sent, deaths>>
  BY <1>3 DEF Standing, Configured, membership, At
<1>4. CASE InitKeypair \/ (\E m \in {"manual", "auto"} : SetMode(m))
  <2>1. job.at = "idle" /\ UNCHANGED <<config, optedIn, removal, job, sent, deaths>>
    BY <1>4 DEF InitKeypair, SetMode, At
  <2> QED
    BY <2>1 DEF Standing, Configured, At
<1>5. CASE RotateDelete
  BY <1>5 DEF RotateDelete, Standing, Configured, At, GoTo
<1>6. CASE RotateStore
  BY <1>2, <1>6 DEF RotateStore, Standing, Configured, At
<1>7. CASE ConfigureByHand
  BY <1>1, <1>7 DEF ConfigureByHand, Configure, Standing, Configured, At
<1>8. CASE EnrollStart
  <2>1. key' # 0
    BY <1>1, <1>8 DEF EnrollStart, Generate
  <2> QED
    BY <1>8, <2>1 DEF EnrollStart, GoTo, Standing, Configured, At
<1>9. CASE Redeem
  <2>1. /\ \/ UNCHANGED <<config, optedIn, removal>>
           \/ config' # 0 /\ removal' = "none" /\ UNCHANGED optedIn
        /\ UNCHANGED <<sent, deaths>> /\ job.at = "redeem" /\ job' = Idle
    BY <1>9 DEF Redeem, Configure, Standing, At
  <2> QED
    BY <1>2, <2>1 DEF Standing, Configured, At
<1>10. ASSUME NEW yes \in BOOLEAN, OptIn(yes) PROVE Standing'
  BY <1>10 DEF OptIn, Standing, Configured, At
<1>11. CASE Participate \/ AutoTick
  <2>1. /\ UNCHANGED <<membership, sent, deaths>> /\ job'.at = "send" /\ Configured /\ optedIn
    BY <1>11 DEF Participate, AutoTick, Start
  <2> QED
    BY <2>1 DEF Standing, Configured, At, membership
<1>12. CASE Send \/ Answer
  <2>1. job.at \in OnContribution /\ UNCHANGED <<membership, deaths>>
    BY <1>12 DEF Send, Answer, At, OnContribution
  <2>2. \E p \in {"answer", "failed", "accepted"} : job' = [job EXCEPT !.at = p]
    BY <1>12, Zenon DEF Send, Answer
  <2>3. {"answer", "failed", "accepted"} \subseteq OnContribution
    BY DEF OnContribution
  <2>4. job'.at \in {"answer", "failed", "accepted"}
    BY <2>1, <2>2, <2>3, MovedJob
  <2>5. job.at # "purged"
    BY <2>1 DEF OnContribution
  <2>6. UNCHANGED sent \/ job.at = "send"
    BY <1>12 DEF Send, Answer, At
  <2> QED
    BY <2>1, <2>4, <2>5, <2>6 DEF Standing, Configured, At, membership
<1>13. CASE Record
  BY <1>2, <1>13 DEF Record, Standing, Configured, At, membership
<1>14. CASE RequestLeave
  BY <1>14 DEF RequestLeave, GoTo, Standing, Configured, At, membership
<1>15. CASE NoteRequest \/ NoteCompleted
  BY <1>2, <1>15 DEF NoteRequest, NoteCompleted, Standing, Configured, At
<1>16. CASE FinalizeLeave
  BY <1>16 DEF FinalizeLeave, GoTo, Standing, Configured, At, membership
<1>17. CASE Purge \/ ForcePurge
  BY <1>17 DEF Purge, ForcePurge, Wipe, GoTo, Standing, Configured, At
<1>18. CASE Outside
  <2>1. CASE Death
    BY <1>1, <1>2, <2>1 DEF Death, Standing, Configured, At, membership
  <2>2. ASSUME NEW r \in Rounds, CloseRound(r) PROVE Standing'
    BY <2>2 DEF CloseRound, Standing, Configured, At, membership
  <2>3. CASE (\E u \in wire : Take(u) \/ Lose(u)) \/ (\E r \in Rounds : OpenRound(r)) \/ Admit \/ Expel
    <3>1. UNCHANGED <<membership, job, sent, deaths>>
      BY <2>3, Zenon DEF Take, Lose, OpenRound, Admit, Expel
    <3> QED
      BY <1>3, <3>1
  <2> QED
    BY <1>18, <2>1, <2>2, <2>3 DEF Outside
<1> QED
  BY <1>4, <1>5, <1>6, <1>7, <1>8, <1>9, <1>10, <1>11, <1>12, <1>13, <1>14, <1>15, <1>16, <1>17, <1>18
     DEF Next, Route, Advance

LEMMA InvariantParts == IInv <=> TypeOK /\ Listed /\ Interrupted /\ Standing
<1>1. ASSUME IInv PROVE TypeOK /\ Listed /\ Interrupted /\ Standing
  <2>1. TypeOK /\ ToldTrue /\ JobTrue /\ ConsentNeedsMembership
    BY <1>1 DEF IInv
  <2> QED
    BY <2>1 DEF ToldTrue, JobTrue, ConsentNeedsMembership, Listed, Interrupted, Standing
<1>2. ASSUME TypeOK, Listed, Interrupted, Standing PROVE IInv
  <2>1. ToldTrue
    BY <1>2 DEF ToldTrue, Listed, Interrupted, Standing
  <2>2. JobTrue /\ ConsentNeedsMembership
    BY <1>2 DEF JobTrue, ConsentNeedsMembership, Listed, Standing
  <2> QED
    BY <1>2, <2>1, <2>2 DEF IInv
<1> QED
  BY <1>1, <1>2

LEMMA InvariantStep ==
  ASSUME IInv, [Next]_vars
  PROVE  IInv'
<1>1. CASE UNCHANGED vars
  BY <1>1, TypeOKStep DEF vars, membership, coordinator, IInv, ToldTrue, JobTrue, ConsentNeedsMembership, Configured, At
<1>2. CASE Next
  <2>1. TypeOK /\ Listed /\ Interrupted /\ Standing
    BY InvariantParts
  <2>2. TypeOK' /\ Listed' /\ Interrupted' /\ Standing'
    BY <1>2, <2>1, TypeOKStep, ListedStep, StandingStep
  <2> QED
    BY <2>2, InvariantParts, PTL
<1> QED
  BY <1>1, <1>2

LEMMA Invariant == Spec => []IInv
BY InitInvariant, InvariantStep, PTL DEF Spec

(* What the organisation is told about itself is true.                      *)
THEOREM Told == Spec => []ToldTrue
<1>1. IInv => ToldTrue
  BY DEF IInv
<1> QED
  BY <1>1, Invariant, PTL

-----------------------------------------------------------------------------
(* The refinement: what a step is to the consent.                           *)

LEMMA ConsentStep ==
  ASSUME IInv, [Next]_vars
  PROVE  [Consents!CNext]_(Consents!cvars)
<1> USE DEF Consents!CNext, Consents!cvars, Consents!Join, Consents!Consent, Consents!Withdraw,
            Consents!Depart, Consents!Send, Consents!End, Configured
<1>1. /\ optedIn => config # 0
      /\ sent # {} => optedIn
      /\ job.at = "send" => config # 0 /\ optedIn /\ job.round \in Rounds
      /\ job.at = "redeem" => key # 0
      /\ job.at = "purge" => config # 0
  <2>1. "send" \in OnContribution
    BY DEF OnContribution
  <2> QED
    BY <2>1 DEF IInv, JobTrue, ConsentNeedsMembership, TypeOK
<1>2. CASE UNCHANGED <<config, optedIn, sent>>
  BY <1>2
<1>3. CASE config' # 0 /\ UNCHANGED <<optedIn, sent>>
  BY <1>1, <1>3
<1>4. CASE ConfigureByHand
  <2>1. keys \in Nat
    BY MemberAssumption DEF IInv, TypeOK, Keys
  <2> QED
    BY <1>3, <1>4, <2>1 DEF ConfigureByHand, Configure
<1>5. CASE Redeem
  BY <1>1, <1>2, <1>3, <1>5 DEF Redeem, Configure, At
<1>6. ASSUME NEW yes \in BOOLEAN, OptIn(yes) PROVE [Consents!CNext]_(Consents!cvars)
  BY <1>1, <1>6 DEF OptIn
<1>7. CASE Purge \/ ForcePurge
  <2>1. config # 0 /\ config' = 0 /\ optedIn' = FALSE /\ sent' = {}
    BY <1>1, <1>7 DEF Purge, ForcePurge, Wipe, At
  <2> QED
    BY <2>1
<1>8. CASE Send
  <2>1. /\ UNCHANGED <<config, optedIn>> /\ config # 0 /\ optedIn /\ job.round \in Rounds
        /\ sent' = sent \cup {job.round} \/ sent' = sent
    BY <1>1, <1>8 DEF Send, At, membership
  <2> QED
    BY <2>1
<1>9. ASSUME NEW r \in Rounds, CloseRound(r) PROVE [Consents!CNext]_(Consents!cvars)
  BY <1>9 DEF CloseRound, membership
<1>10. CASE \/ InitKeypair \/ RotateDelete \/ RotateStore \/ EnrollStart \/ (\E m \in {"manual", "auto"} : SetMode(m))
            \/ Participate \/ AutoTick \/ RequestLeave \/ FinalizeLeave \/ Answer \/ Record \/ NoteRequest
            \/ NoteCompleted \/ (\E u \in wire : Take(u) \/ Lose(u)) \/ (\E r \in Rounds : OpenRound(r))
            \/ Admit \/ Expel \/ Death
  <2>1. UNCHANGED <<config, optedIn, sent>>
    BY <1>10 DEF InitKeypair, RotateDelete, RotateStore, EnrollStart, SetMode, Participate, AutoTick, Start,
       RequestLeave, FinalizeLeave, Answer, Record, NoteRequest, NoteCompleted, Take, Lose, OpenRound,
       Admit, Expel, Death, membership
  <2> QED
    BY <1>2, <2>1
<1>11. CASE UNCHANGED vars
  BY <1>2, <1>11 DEF vars, membership
<1> QED
  BY <1>4, <1>5, <1>6, <1>7, <1>8, <1>9, <1>10, <1>11 DEF Next, Route, Advance, Outside

(* Nothing leaves the house without the consent of the present membership:  *)
(* FederatedMember implements FederationConsent.                            *)
THEOREM Refinement == Spec => ImplementsConsent
<1>1. Init => Consents!CInit
  BY DEF Init, Consents!CInit, Configured
<1> QED
  BY <1>1, Invariant, ConsentStep, PTL DEF Spec, ImplementsConsent, Consents!CSpec
=============================================================================
