-------------------------- MODULE RevalidationProofs --------------------------
(***************************************************************************)
(* Theorems about Revalidation: the lock keeps the reviews of a position   *)
(* apart, the throttle caps the automatic ones, and what a review advises  *)
(* is backed by what it saw, for any positions, reviews, quotes and        *)
(* answers.                                                                *)
(***************************************************************************)
EXTENDS Revalidation, TLAPS, FiniteSetTheorems

Snap == [underlying : Int, premium : Int, iv : Int,
         status : {"unavailable", "partial", "complete"}]
CallRecord ==
  [pc : {"new", "over"} \cup Running, trigger : {"none", "manual", "auto"},
   pos : Position, codes : SUBSET Code, plan : Plan, snap : Snap, fired : SUBSET Code]
ReviewRecord ==
  [exists : BOOLEAN, recent : BOOLEAN, day : Nat, trigger : {"none", "manual", "auto"},
   pos : Position, codes : SUBSET Code, cited : SUBSET Code, action : Action \cup {"none"},
   proposed : Proposal, basis : Int]

\* TypeOK with every record typed whole.
Typed ==
  /\ shadow \in BOOLEAN
  /\ status \in [Position -> {"active", "closed", "gone"}]
  /\ plan \in [Position -> Plan]
  /\ thesis \in [Position -> {"none", "pending", "card"}]
  /\ lock \in [Position -> SUBSET Call]
  /\ call \in [Call -> CallRecord]
  /\ review \in [Call -> ReviewRecord]
  /\ \A c \in Call : review[c].exists => review[c].action \in Action
  /\ poll \in [pc : {"idle", "open", "waiting"}, rest : SUBSET Position, call : SUBSET Call]
  /\ today \in 0..LastDay /\ polls \in 0..MaxPolls /\ edits \in 0..MaxEdits
  /\ lapsed \subseteq Call

-----------------------------------------------------------------------------
(* What the definitions below the actions return.                           *)

LEMMA Starting ==
  /\ NewCall \in CallRecord /\ NoReview \in ReviewRecord
  /\ IdlePoll \in [pc : {"idle", "open", "waiting"}, rest : SUBSET Position, call : SUBSET Call]
  /\ \A p \in Position : FirstPlan(p) \in Plan
<1>1. (CHOOSE p \in Position : TRUE) \in Position
  BY PositionAssumption
<1>2. NoSnap \in Snap
  BY DEF NoSnap, Snap, None
<1>3. NewCall \in CallRecord
  BY <1>1, <1>2 DEF NewCall, NoPlan, CallRecord, Plan, None
<1>4. NoReview \in ReviewRecord
  BY <1>1 DEF NoReview, ReviewRecord, NoProposal, Proposal, None
<1>5. \A p \in Position : FirstPlan(p) \in Plan
  BY PositionAssumption DEF FirstPlan, Plan
<1> QED
  BY <1>3, <1>4, <1>5 DEF IdlePoll

\* The drift fires codes the program knows, the automatic ones among them.
LEMMA CodesFired ==
  ASSUME NEW p \in Position, NEW pl, NEW snap, NEW day
  PROVE  /\ Drift(ThesisOf[p], pl, snap, day) \subseteq Code
         /\ AutoTrigger(Drift(ThesisOf[p], pl, snap, day)) \subseteq Code
<1>1. Criteria(Rec[p], Entry[p]) \subseteq Code
  BY DEF Criteria, StrategyCriteria, Code, Degrade
<1>2. ThesisOf[p].criteria = Criteria(Rec[p], Entry[p])
  BY DEF ThesisOf, Card
<1> QED
  BY <1>1, <1>2 DEF Drift, AutoTrigger

\* Whatever the market shows, the review sees a snapshot.
LEMMA SnapshotSeen ==
  ASSUME NEW m \in Market, NEW p \in Position
  PROVE  Seen[p][m] \in Snap
<1> DEFINE known == {c \in m.contracts : c.source = "alpaca"}
           contract == CHOOSE c \in (IF known # {} THEN known ELSE m.contracts) : TRUE
<1>1. m.contracts \subseteq ContractQuote /\ m.underlying \in Int
  BY MarketAssumption
<1>2. CASE m.contracts = {}
  BY <1>1, <1>2 DEF Seen, Snapshot, Snap, None
<1>3. CASE m.contracts # {}
  <2>1. contract \in ContractQuote
    BY <1>1, <1>3
  <2> HIDE DEF contract
  <2>2. contract.iv \in Int /\ Liquidation(contract, Rec[p].side) \in Int
    BY <2>1 DEF ContractQuote, Liquidation, FirstOf
  <2> QED
    BY <1>1, <1>3, <2>2 DEF Seen, Snapshot, Snap, contract
<1> QED
  BY <1>2, <1>3

\* What is kept of an answer is an action with a proposal ...
LEMMA NormalizedType ==
  ASSUME NEW raw \in Answer, NEW fired, NEW side, NEW pl, NEW snap
  PROVE  /\ Normalized(raw, fired, side, pl, snap).action \in Action
         /\ Normalized(raw, fired, side, pl, snap).proposed \in Proposal
<1>1. raw.action \in Action /\ raw.proposed \in Proposal
  BY AnswerAssumption
<1>2. NoProposal \in Proposal
  BY DEF NoProposal, Proposal, None
<1> QED
  BY <1>1, <1>2 DEF Normalized, Action

\* ... and it is backed by what the review saw.
LEMMA NormalizedIsBacked ==
  ASSUME NEW raw \in Answer, NEW fired, NEW p, NEW pl \in Plan, NEW snap
  PROVE  LET final == Normalized(raw, fired, Rec[p].side, pl, snap)
             kill == fired \cap Kill IN
         /\ final.action = "close" => kill # {}
         /\ final.action = "hold" => kill = {} \/ Supported(raw) \cap Kill # {}
         /\ final.action = "adjust_stop" => Tightens(p, final.proposed.stop, pl.stop)
<1> DEFINE final == Normalized(raw, fired, Rec[p].side, pl, snap)
           kill == fired \cap Kill
           stop == ValidStop(raw.proposed, Rec[p].side, pl, snap)
<1>1. stop => Tightens(p, raw.proposed.stop, pl.stop)
  BY DEF ValidStop, Tightens
<1>2. kill \cap Supported(raw) # {} => Supported(raw) \cap Kill # {}
  OBVIOUS
<1>3. CASE raw.action = "close" /\ kill = {}
  <2>1. final = [action |-> IF stop THEN "adjust_stop" ELSE "insufficient_data",
                 proposed |-> raw.proposed]
    BY <1>3 DEF Normalized
  <2> QED
    BY <1>1, <2>1
<1>4. CASE /\ raw.action = "hold" /\ kill # {} /\ kill \cap Supported(raw) = {}
  BY <1>4 DEF Normalized
<1>5. CASE raw.action = "adjust_stop" /\ ~stop
  BY <1>5 DEF Normalized
<1>6. CASE /\ ~(raw.action = "close" /\ kill = {})
           /\ ~(raw.action = "hold" /\ kill # {} /\ kill \cap Supported(raw) = {})
           /\ ~(raw.action = "adjust_stop" /\ ~stop)
  <2>1. \/ final.action = "insufficient_data"
        \/ final.action = raw.action /\ final.proposed = raw.proposed
    BY <1>6 DEF Normalized
  <2> QED
    BY <1>1, <1>2, <1>6, <2>1
<1> QED
  BY <1>3, <1>4, <1>5, <1>6

-----------------------------------------------------------------------------
(* The inductive invariant.                                                 *)

\* A review past its lock that never lost it is the one that holds its key.
Holds == \A c \in Call : call[c].pc \in Running \ {"lock"} /\ c \notin lapsed
                          => lock[call[c].pos] = {c}

\* An automatic review under way is the one the poll waits for.
AutosAwaited == \A c \in Call : call[c].pc \in Running /\ call[c].trigger = "auto"
                                 => poll.pc = "waiting" /\ poll.call = {c}

\* No day has more automatic reviews than the cap, and there is room for the one
\* that has passed the throttle.
Autos(r, p, day) ==
  {d \in Call : r[d].exists /\ r[d].trigger = "auto" /\ r[d].pos = p /\ r[d].day = day}
RoomForAuto ==
  /\ \A p \in Position, day \in Nat : Cardinality(Autos(review, p, day)) <= Cap
  /\ \A c \in Call : call[c].pc \in {"quote", "ask"} /\ call[c].trigger = "auto"
                     => Cardinality(Autos(review, call[c].pos, today)) < Cap

-----------------------------------------------------------------------------
(* Types.                                                                   *)

LEMMA LeavingTypes ==
  ASSUME NEW k \in CallRecord, NEW pc \in {"release", "over"}
  PROVE  /\ Ended(k, pc) \in CallRecord
         /\ Ended(k, pc).pc = pc /\ Ended(k, pc).pos = k.pos
         /\ Ended(k, pc).trigger = k.trigger
BY Starting DEF Ended, CallRecord, Running

LEMMA BegunTypes ==
  ASSUME NEW trigger \in {"manual", "auto"}, NEW p \in Position, NEW codes \in SUBSET Code
  PROVE  /\ Begun(trigger, p, codes) \in CallRecord
         /\ Begun(trigger, p, codes).pc = "lock" /\ Begun(trigger, p, codes).pos = p
         /\ Begun(trigger, p, codes).trigger = trigger
BY Starting DEF Begun, CallRecord, Running

LEMMA UnusedIsNew ==
  ASSUME \E c \in Call : call[c].pc = "new"
  PROVE  Unused \in Call /\ call[Unused].pc = "new"
BY DEF Unused

\* What a step of review c may do to the reviews: c keeps its position and its
\* trigger, and the others stay as they are.
Moves(c) ==
  /\ call' \in [Call -> CallRecord]
  /\ call'[c].pos = call[c].pos /\ call'[c].trigger = call[c].trigger
  /\ \A d \in Call \ {c} : call'[d] = call[d]

LEMMA MovesByRecord ==
  ASSUME Typed, NEW c \in Call, NEW k \in CallRecord,
         k.pos = call[c].pos, k.trigger = call[c].trigger,
         call' = [call EXCEPT ![c] = k]
  PROVE  Moves(c) /\ call'[c] = k
BY DEF Typed, Moves

LEMMA Departs ==
  ASSUME Typed, NEW c \in Call, NEW pc \in {"release", "over"},
         call' = [call EXCEPT ![c] = Ended(@, pc)]
  PROVE  Moves(c) /\ call'[c].pc = pc
<1> DEFINE k == Ended(call[c], pc)
<1>1. call[c] \in CallRecord
  BY DEF Typed
<1>2. k \in CallRecord /\ k.pos = call[c].pos /\ k.trigger = call[c].trigger /\ k.pc = pc
  BY <1>1, LeavingTypes
<1>3. call' = [call EXCEPT ![c] = k]
  OBVIOUS
<1> HIDE DEF k
<1> QED
  BY <1>2, <1>3, MovesByRecord

LEMMA Advances ==
  ASSUME Typed, NEW c \in Call, NEW pc \in Running, call' = [call EXCEPT ![c].pc = pc]
  PROVE  Moves(c) /\ call'[c].pc = pc
<1> DEFINE k == [call[c] EXCEPT !.pc = pc]
<1>1. call[c] \in CallRecord
  BY DEF Typed
<1>2. k \in CallRecord /\ k.pos = call[c].pos /\ k.trigger = call[c].trigger /\ k.pc = pc
  BY <1>1 DEF CallRecord
<1>3. call' = [call EXCEPT ![c] = k]
  BY DEF Typed
<1> HIDE DEF k
<1> QED
  BY <1>2, <1>3, MovesByRecord

\* A step of review c moves only c, and past the throttle only as it should.
LEMMA CallStepMoves ==
  ASSUME Typed, NEW c \in Call, CallStep(c)
  PROVE  /\ Moves(c)
         /\ call[c].pc \in Running
         /\ call'[c].pc \in {"quote", "ask"} /\ call[c].trigger = "auto" =>
              call[c].pc = "quote" \/ (call[c].pc = "check" /\ ~Suppressed(c))
<1>1. call[c] \in CallRecord /\ plan \in [Position -> Plan] /\ call[c].pos \in Position
  BY DEF Typed, CallRecord
<1>2. CASE Acquire(c)
  <2>1. Moves(c) /\ call'[c].pc = "load"
    BY <1>2, Advances DEF Acquire, Running
  <2> QED
    BY <1>2, <2>1 DEF Acquire, Running
<1>3. CASE AlreadyRunning(c)
  <2>1. Moves(c) /\ call'[c].pc = "over"
    BY <1>3, Departs DEF AlreadyRunning, Over
  <2> QED
    BY <1>3, <2>1 DEF AlreadyRunning, Running
<1>4. CASE AcquireNoop(c)
  <2>1. Moves(c) /\ call'[c].pc = "load"
    BY <1>4, Advances DEF AcquireNoop, Running
  <2> QED
    BY <1>4, <2>1 DEF AcquireNoop, Running
<1>5. CASE Load(c)
  <2>1. CASE status[call[c].pos] # "active"
    <3>1. Moves(c) /\ call'[c].pc = "release"
      BY <1>5, <2>1, Departs DEF Load, Leaving
    <3> QED
      BY <1>5, <3>1 DEF Load, Running
  <2>2. CASE status[call[c].pos] = "active"
    <3> DEFINE pc == IF thesis[call[c].pos] = "card" THEN AfterLoad(c) ELSE "insert"
               k == [call[c] EXCEPT !.plan = plan[call[c].pos], !.pc = pc]
    <3>1. pc \in {"check", "quote", "insert"} /\ (call[c].trigger = "auto" => pc # "quote")
      BY DEF AfterLoad
    <3>2. call' = [call EXCEPT ![c].plan = plan[call[c].pos], ![c].pc = pc]
      BY <1>5, <2>2 DEF Load
    <3> HIDE DEF pc
    <3>3. /\ k \in CallRecord /\ k.pos = call[c].pos /\ k.trigger = call[c].trigger
          /\ k.pc = pc
      BY <1>1, <3>1 DEF CallRecord, Running
    <3>4. call' = [call EXCEPT ![c] = k]
      BY <3>2 DEF Typed
    <3> HIDE DEF k
    <3>5. Moves(c) /\ call'[c].pc = pc
      BY <3>3, <3>4, MovesByRecord
    <3> QED
      BY <1>5, <3>1, <3>5 DEF Load, Running
  <2> QED
    BY <2>1, <2>2
<1>6. CASE InsertThesis(c)
  <2>1. AfterLoad(c) \in {"check", "quote"}
        /\ (call[c].trigger = "auto" => AfterLoad(c) = "check")
    BY DEF AfterLoad
  <2>2. \/ call' = [call EXCEPT ![c].pc = AfterLoad(c)]
        \/ call' = Leaving(c)
    BY <1>6 DEF InsertThesis
  <2>3. Moves(c) /\ call'[c].pc \in {AfterLoad(c), "release"}
    <3>1. CASE call' = [call EXCEPT ![c].pc = AfterLoad(c)]
      BY <2>1, <3>1, Advances DEF Running
    <3>2. CASE call' = Leaving(c)
      BY <3>2, Departs DEF Leaving
    <3> QED
      BY <2>2, <3>1, <3>2
  <2> QED
    BY <1>6, <2>1, <2>3 DEF InsertThesis, Running
<1>7. CASE Throttle(c)
  <2>1. CASE Suppressed(c)
    <3>1. Moves(c) /\ call'[c].pc = "release"
      BY <1>7, <2>1, Departs DEF Throttle, Leaving
    <3> QED
      BY <1>7, <3>1 DEF Throttle, Running
  <2>2. CASE ~Suppressed(c)
    <3>1. Moves(c) /\ call'[c].pc = "quote"
      BY <1>7, <2>2, Advances DEF Throttle, Running
    <3> QED
      BY <1>7, <2>2, <3>1 DEF Throttle, Running
  <2> QED
    BY <2>1, <2>2
<1>8. CASE Observe(c)
  <2>1. PICK m \in Market :
          call' = [call EXCEPT ![c].pc = "ask", ![c].snap = Seen[call[c].pos][m],
                     ![c].fired = Drift(ThesisOf[call[c].pos], call[c].plan,
                                        Seen[call[c].pos][m], today)]
    BY <1>8 DEF Observe
  <2> DEFINE snap == Seen[call[c].pos][m]
             fired == Drift(ThesisOf[call[c].pos], call[c].plan, snap, today)
             k == [call[c] EXCEPT !.pc = "ask", !.snap = snap, !.fired = fired]
  <2>2. snap \in Snap /\ fired \in SUBSET Code
    BY <1>1, SnapshotSeen, CodesFired
  <2>3. call' = [call EXCEPT ![c].pc = "ask", ![c].snap = snap, ![c].fired = fired]
    BY <2>1
  <2> HIDE DEF snap, fired
  <2>4. /\ k \in CallRecord /\ k.pos = call[c].pos /\ k.trigger = call[c].trigger
        /\ k.pc = "ask"
    BY <1>1, <2>2 DEF CallRecord, Running
  <2>5. call' = [call EXCEPT ![c] = k]
    BY <2>3 DEF Typed
  <2> HIDE DEF k
  <2>6. Moves(c) /\ call[c].pc = "quote"
    BY <1>8, <2>4, <2>5, MovesByRecord DEF Observe
  <2> QED
    BY <2>6 DEF Running
<1>9. CASE Persist(c)
  <2>1. Moves(c) /\ call'[c].pc = "release"
    BY <1>9, Departs DEF Persist
  <2> QED
    BY <1>9, <2>1 DEF Persist, Running
<1>10. CASE PersistRaises(c)
  <2>1. Moves(c) /\ call'[c].pc = "release"
    BY <1>10, Departs DEF PersistRaises, Leaving
  <2> QED
    BY <1>10, <2>1 DEF PersistRaises, Running
<1>11. CASE Release(c)
  <2>1. Moves(c) /\ call'[c].pc = "over"
    BY <1>11, Departs DEF Release, Over
  <2> QED
    BY <1>11, <2>1 DEF Release, Running
<1> QED
  BY <1>2, <1>3, <1>4, <1>5, <1>6, <1>7, <1>8, <1>9, <1>10, <1>11 DEF CallStep

\* The poll starts a review only to wait for it, with codes the program knows.
LEMMA PollDriftMoves ==
  ASSUME Typed, PollDrift
  PROVE  /\ poll.pc = "open"
         /\ thesis' \in [Position -> {"none", "pending", "card"}]
         /\ \/ call' = call /\ poll'.pc = "open"
                /\ poll' \in [pc : {"open"}, rest : SUBSET Position, call : SUBSET Call]
            \/ \E c \in Call, p \in Position, codes \in SUBSET Code :
                 /\ call[c].pc = "new" /\ call' = [call EXCEPT ![c] = Begun("auto", p, codes)]
                 /\ poll' \in [pc : {"waiting"}, rest : SUBSET Position, call : {{c}}]
<1>1. PICK p \in poll.rest, m \in Market :
        LET codes == AutoTrigger(Drift(ThesisOf[p], plan[p], Seen[p][m], today)) IN
        /\ thesis' = IF thesis[p] = "none" /\ status[p] # "gone"
                     THEN [thesis EXCEPT ![p] = "pending"] ELSE thesis
        /\ IF codes = {} \/ shadow \/ ~MarketOpen
           THEN call' = call /\ poll' = [poll EXCEPT !.rest = @ \ {p}]
           ELSE /\ \E c \in Call : call[c].pc = "new"
                /\ call' = [call EXCEPT ![Unused] = Begun("auto", p, codes)]
                /\ poll' = [poll EXCEPT !.rest = @ \ {p}, !.pc = "waiting", !.call = {Unused}]
  BY DEF PollDrift
<1> DEFINE codes == AutoTrigger(Drift(ThesisOf[p], plan[p], Seen[p][m], today))
<1>2. codes \in SUBSET Code /\ p \in Position /\ poll.pc = "open"
  BY CodesFired DEF Typed, PollDrift
<1>3. thesis' \in [Position -> {"none", "pending", "card"}]
  BY <1>1, <1>2 DEF Typed
<1>4. CASE codes = {} \/ shadow \/ ~MarketOpen
  <2>1. call' = call /\ poll' = [poll EXCEPT !.rest = @ \ {p}]
    BY <1>1, <1>4
  <2> QED
    BY <1>2, <1>3, <2>1 DEF Typed
<1>5. CASE ~(codes = {} \/ shadow \/ ~MarketOpen)
  <2>1. /\ \E c \in Call : call[c].pc = "new"
        /\ call' = [call EXCEPT ![Unused] = Begun("auto", p, codes)]
        /\ poll' = [poll EXCEPT !.rest = @ \ {p}, !.pc = "waiting", !.call = {Unused}]
    BY <1>1, <1>5
  <2>2. Unused \in Call /\ call[Unused].pc = "new"
    BY <2>1, UnusedIsNew
  <2>3. poll' \in [pc : {"waiting"}, rest : SUBSET Position, call : {{Unused}}]
    BY <2>1 DEF Typed
  <2> HIDE DEF codes
  <2> QED
    BY <1>2, <1>3, <2>1, <2>2, <2>3
<1> QED
  BY <1>4, <1>5

\* A crash ends the review the poll waited for, and no other.
LEMMA PollDiesMoves ==
  ASSUME Typed, PollDies
  PROVE  /\ call' \in [Call -> CallRecord]
         /\ \A c \in Call : \/ call'[c] = call[c]
                            \/ call'[c].pc = "over"
         /\ \A c \in poll.call : call'[c].pc = "over"
<1>1. \A c \in Call : /\ call[c] \in CallRecord
                      /\ Ended(call[c], "over") \in CallRecord
                      /\ Ended(call[c], "over").pc = "over"
  BY LeavingTypes DEF Typed
<1>2. call' = [c \in Call |-> IF c \in poll.call /\ call[c].pc # "over"
                             THEN Ended(call[c], "over") ELSE call[c]]
  BY DEF PollDies
<1>3. poll.call \subseteq Call
  BY DEF Typed
<1> QED
  BY <1>1, <1>2, <1>3

\* What Persist writes is one review, of the position reviewed.
LEMMA PersistWrites ==
  ASSUME Typed, NEW c \in Call, Persist(c)
  PROVE  \E v \in ReviewRecord :
           /\ review' = [review EXCEPT ![c] = v]
           /\ v.exists /\ v.action \in Action /\ v.pos = call[c].pos
           /\ v.trigger = call[c].trigger /\ (v.trigger = "auto" => v.day = today)
<1>1. PICK raw \in Answer :
        LET k == call[c]
            final == Normalized(raw, k.fired, Rec[k.pos].side, k.plan, k.snap)
        IN review' = [review EXCEPT ![c] =
             [exists |-> TRUE, recent |-> k.trigger = "auto", trigger |-> k.trigger,
              day |-> IF k.trigger = "auto" THEN today ELSE 0,
              pos |-> k.pos, codes |-> k.codes, cited |-> Supported(raw) \cap Kill,
              action |-> final.action, proposed |-> final.proposed,
              basis |-> k.plan.stop]]
  BY DEF Persist
<1> DEFINE k == call[c]
           final == Normalized(raw, k.fired, Rec[k.pos].side, k.plan, k.snap)
           v == [exists |-> TRUE, recent |-> k.trigger = "auto", trigger |-> k.trigger,
                 day |-> IF k.trigger = "auto" THEN today ELSE 0,
                 pos |-> k.pos, codes |-> k.codes, cited |-> Supported(raw) \cap Kill,
                 action |-> final.action, proposed |-> final.proposed,
              basis |-> k.plan.stop]
<1>2. k \in CallRecord /\ today \in Nat
  BY BoundAssumption DEF Typed
<1>3. final.action \in Action /\ final.proposed \in Proposal
  BY NormalizedType
<1>4. Supported(raw) \cap Kill \subseteq Code
  BY DEF Code
<1> HIDE DEF final
<1>5. v \in ReviewRecord
  BY <1>2, <1>3, <1>4 DEF ReviewRecord, CallRecord, Plan
<1>6. review' = [review EXCEPT ![c] = v]
  BY <1>1 DEF final
<1>7. v.exists /\ v.action \in Action /\ v.pos = k.pos /\ v.trigger = k.trigger
      /\ (v.trigger = "auto" => v.day = today)
  BY <1>3
<1> HIDE DEF v
<1> QED
  BY <1>5, <1>6, <1>7

\* What time and a deletion do to the stored reviews: no row is new or different
\* but for its age.
Kept(v, w) ==
  \/ w = NoReview
  \/ /\ w.exists = v.exists /\ w.action = v.action /\ w.trigger = v.trigger
     /\ w.pos = v.pos /\ w.day = v.day
     /\ w.proposed = v.proposed /\ w.basis = v.basis

LEMMA ReviewsKept ==
  ASSUME Typed, End \/ CooldownEnds \/ DayPasses
  PROVE  /\ review' \in [Call -> ReviewRecord]
         /\ \A c \in Call : Kept(review[c], review'[c])
         /\ \A c \in Call : review'[c].exists => review'[c].action \in Action
<1> DEFINE old(v) == [v EXCEPT !.recent = FALSE]
<1>1. \A v \in ReviewRecord : old(v) \in ReviewRecord /\ Kept(v, old(v)) /\ Kept(v, v)
  BY DEF ReviewRecord, Kept
<1>2. NoReview \in ReviewRecord /\ \A v : Kept(v, NoReview)
  BY Starting DEF Kept
<1>3. \A c \in Call : review'[c] \in {review[c], old(review[c]), NoReview}
  <2>1. CASE End
    BY <2>1 DEF End
  <2>2. CASE CooldownEnds
    <3>1. PICK c \in Call : review' = [review EXCEPT ![c].recent = FALSE]
      BY <2>2 DEF CooldownEnds
    <3>2. review' = [review EXCEPT ![c] = old(review[c])]
      BY <3>1 DEF Typed
    <3> HIDE DEF old
    <3> QED
      BY <3>2 DEF Typed
  <2>3. CASE DayPasses
    BY <2>3 DEF DayPasses
  <2> QED
    BY <2>1, <2>2, <2>3
<1>4. review' = [c \in Call |-> review'[c]]
  <2>1. CASE CooldownEnds
    <3>1. PICK c \in Call : review' = [review EXCEPT ![c].recent = FALSE]
      BY <2>1 DEF CooldownEnds
    <3> QED
      BY <3>1 DEF Typed
  <2> QED
    BY <2>1 DEF End, DayPasses
<1> HIDE DEF old
<1>5. \A c \in Call : review[c] \in ReviewRecord
  BY DEF Typed
<1>6. \A c \in Call : review'[c] \in ReviewRecord /\ Kept(review[c], review'[c])
  BY <1>1, <1>2, <1>3, <1>5
<1>7. ASSUME NEW c \in Call, review'[c].exists PROVE review'[c].action \in Action
  <2>1. review'[c] # NoReview
    BY <1>7 DEF NoReview
  <2>2. review'[c].exists = review[c].exists /\ review'[c].action = review[c].action
    BY <1>6, <2>1 DEF Kept
  <2> QED
    BY <1>7, <2>2 DEF Typed
<1> QED
  BY <1>4, <1>6, <1>7

LEMMA InitTyped == Init => Typed
<1> SUFFICES ASSUME Init PROVE Typed
  OBVIOUS
<1>1. plan \in [Position -> Plan]
  BY Starting DEF Init
<1>2. call \in [Call -> CallRecord] /\ review \in [Call -> ReviewRecord]
      /\ \A c \in Call : ~review[c].exists
  BY Starting DEF Init, NoReview
<1>3. poll \in [pc : {"idle", "open", "waiting"}, rest : SUBSET Position, call : SUBSET Call]
  BY Starting DEF Init
<1>4. /\ today \in 0..LastDay /\ polls \in 0..MaxPolls /\ edits \in 0..MaxEdits
      /\ lapsed \subseteq Call
  BY BoundAssumption DEF Init
<1> QED
  BY <1>1, <1>2, <1>3, <1>4 DEF Init, Typed

LEMMA TypeStep == Typed /\ [Next]_vars => Typed'
<1> SUFFICES ASSUME Typed, [Next]_vars PROVE Typed'
  OBVIOUS
<1>1. CASE UNCHANGED vars
  BY <1>1 DEF vars, Typed
<1>2. CASE TapValidate
  <2>1. PICK p \in Position : call' = [call EXCEPT ![Unused] = Begun("manual", p, {})]
    BY <1>2 DEF TapValidate
  <2>2. Begun("manual", p, {}) \in CallRecord
    BY BegunTypes
  <2>3. call' \in [Call -> CallRecord]
    BY <2>1, <2>2 DEF Typed
  <2> QED
    BY <1>2, <2>3 DEF TapValidate, Typed
<1>3. ASSUME NEW c \in Call, CallStep(c) PROVE Typed'
  <2>1. call' \in [Call -> CallRecord]
    BY <1>3, CallStepMoves DEF Moves
  <2>2. call[c] \in CallRecord
    BY DEF Typed
  <2>3. CASE Acquire(c)
    BY <2>1, <2>2, <2>3 DEF Acquire, Typed, CallRecord
  <2>4. CASE AlreadyRunning(c) \/ Load(c) \/ Throttle(c) \/ Observe(c) \/ PersistRaises(c)
    BY <2>1, <2>4 DEF AlreadyRunning, Load, Throttle, Observe, PersistRaises, Typed
  <2>5. CASE AcquireNoop(c)
    BY <2>1, <2>5 DEF AcquireNoop, Typed
  <2>6. CASE InsertThesis(c)
    <3>1. thesis' \in [Position -> {"none", "pending", "card"}]
      BY <2>6 DEF InsertThesis, Typed
    <3> QED
      BY <2>1, <2>6, <3>1 DEF InsertThesis, Typed
  <2>7. CASE Persist(c)
    <3>1. PICK v \in ReviewRecord : review' = [review EXCEPT ![c] = v] /\ v.action \in Action
      BY <2>7, PersistWrites
    <3>2. /\ review' \in [Call -> ReviewRecord]
          /\ \A d \in Call : review'[d].exists => review'[d].action \in Action
      BY <3>1 DEF Typed
    <3> QED
      BY <2>1, <2>7, <3>2 DEF Persist, Typed
  <2>8. CASE Release(c)
    <3>1. lock' \in [Position -> SUBSET Call]
      BY <2>2, <2>8 DEF Release, Typed, CallRecord
    <3> QED
      BY <2>1, <2>8, <3>1 DEF Release, Typed
  <2> QED
    BY <1>3, <2>3, <2>4, <2>5, <2>6, <2>7, <2>8 DEF CallStep
<1>4. CASE PollOpens
  <2>1. /\ poll' \in [pc : {"idle", "open", "waiting"}, rest : SUBSET Position, call : SUBSET Call]
        /\ polls' \in 0..MaxPolls
    <3>1. poll' = [IdlePoll EXCEPT !.pc = "open", !.rest = {p \in Position : status[p] = "active"}]
      BY <1>4 DEF PollOpens
    <3>2. poll' = [pc |-> "open", rest |-> {p \in Position : status[p] = "active"}, call |-> {}]
      BY <3>1 DEF IdlePoll
    <3>3. polls' \in 0..MaxPolls
      BY <1>4, BoundAssumption DEF PollOpens, Typed
    <3> QED
      BY <3>2, <3>3
  <2> QED
    BY <1>4, <2>1 DEF PollOpens, Typed
<1>5. CASE PollDrift
  <2>1. /\ call' \in [Call -> CallRecord]
        /\ poll' \in [pc : {"idle", "open", "waiting"}, rest : SUBSET Position, call : SUBSET Call]
    <3>1. CASE call' = call /\ poll' \in [pc : {"open"}, rest : SUBSET Position, call : SUBSET Call]
      BY <3>1 DEF Typed
    <3>2. ASSUME NEW c \in Call, NEW p \in Position, NEW codes \in SUBSET Code,
                 call' = [call EXCEPT ![c] = Begun("auto", p, codes)],
                 poll' \in [pc : {"waiting"}, rest : SUBSET Position, call : {{c}}]
          PROVE  /\ call' \in [Call -> CallRecord]
                 /\ poll' \in [pc : {"idle", "open", "waiting"}, rest : SUBSET Position,
                               call : SUBSET Call]
      <4>1. Begun("auto", p, codes) \in CallRecord
        BY BegunTypes
      <4> QED
        BY <3>2, <4>1 DEF Typed
    <3> QED
      BY <1>5, <3>1, <3>2, PollDriftMoves
  <2>2. thesis' \in [Position -> {"none", "pending", "card"}]
    BY <1>5, PollDriftMoves
  <2> QED
    BY <1>5, <2>1, <2>2 DEF PollDrift, Typed
<1>6. CASE PollResumes
  BY <1>6 DEF PollResumes, Typed
<1>7. CASE PollCommits
  <2>1. thesis' \in [Position -> {"none", "pending", "card"}]
    BY <1>7 DEF PollCommits, Settled, Typed
  <2> QED
    BY <1>7, <2>1, Starting DEF PollCommits, Typed
<1>8. CASE PollDies
  <2>1. thesis' \in [Position -> {"none", "pending", "card"}]
    BY <1>8 DEF PollDies, Settled, Typed
  <2>2. call' \in [Call -> CallRecord]
    BY <1>8, PollDiesMoves
  <2> QED
    BY <1>8, <2>1, <2>2, Starting DEF PollDies, Typed
<1>9. CASE LockExpires
  <2>1. lock' \in [Position -> SUBSET Call] /\ lapsed' \subseteq Call
    BY <1>9 DEF LockExpires, Typed
  <2> QED
    BY <1>9, <2>1 DEF LockExpires, Typed
<1>10. CASE Apply
  <2>1. PICK c \in Call : plan' = [plan EXCEPT ![review[c].pos] = Applied(c, @, review[c].proposed)]
    BY <1>10 DEF Apply
  <2>2. review[c].pos \in Position /\ review[c].proposed \in Proposal
    BY DEF Typed, ReviewRecord
  <2>3. plan[review[c].pos] \in Plan
    BY <2>2 DEF Typed
  <2>4. plan' \in [Position -> Plan]
    <3>1. Applied(c, plan[review[c].pos], review[c].proposed) \in Plan
      BY <2>2, <2>3 DEF Applied, Plan, Proposal
    <3> QED
      BY <2>1, <2>2, <3>1 DEF Typed
  <2>5. edits' \in 0..MaxEdits
    BY <1>10, BoundAssumption DEF Apply, Typed
  <2> QED
    BY <1>10, <2>4, <2>5 DEF Apply, Typed
<1>11. CASE Adjust
  <2>1. plan' \in [Position -> Plan]
    <3>1. PICK p \in Position, s \in Stop :
            plan' = [plan EXCEPT ![p].stop = s, ![p].by = {}]
      BY <1>11 DEF Adjust
    <3>2. plan[p] \in Plan
      BY DEF Typed
    <3>3. [plan[p] EXCEPT !.stop = s, !.by = {}] \in Plan
      BY <3>2, StopAssumption DEF Plan
    <3>4. plan' = [plan EXCEPT ![p] = [plan[p] EXCEPT !.stop = s, !.by = {}]]
      BY <3>1
    <3> HIDE DEF Plan
    <3> QED
      BY <3>3, <3>4 DEF Typed
  <2>2. edits' \in 0..MaxEdits
    BY <1>11, BoundAssumption DEF Adjust, Typed
  <2> QED
    BY <1>11, <2>1, <2>2 DEF Adjust, Typed
<1>12. CASE End
  <2>1. /\ review' \in [Call -> ReviewRecord]
        /\ \A c \in Call : review'[c].exists => review'[c].action \in Action
    BY <1>12, ReviewsKept
  <2>2. /\ status' \in [Position -> {"active", "closed", "gone"}]
        /\ thesis' \in [Position -> {"none", "pending", "card"}]
    BY <1>12 DEF End, Typed
  <2> QED
    BY <1>12, <2>1, <2>2 DEF End, Typed
<1>13. CASE CooldownEnds
  <2>1. /\ review' \in [Call -> ReviewRecord]
        /\ \A c \in Call : review'[c].exists => review'[c].action \in Action
    BY <1>13, ReviewsKept
  <2> QED
    BY <1>13, <2>1 DEF CooldownEnds, Typed
<1>14. CASE DayPasses
  <2>1. /\ review' \in [Call -> ReviewRecord]
        /\ \A c \in Call : review'[c].exists => review'[c].action \in Action
    BY <1>14, ReviewsKept
  <2>2. today' \in 0..LastDay
    BY <1>14, BoundAssumption DEF DayPasses, Typed
  <2> QED
    BY <1>14, <2>1, <2>2 DEF DayPasses, Typed
<1> QED
  BY <1>1, <1>2, <1>3, <1>4, <1>5, <1>6, <1>7, <1>8, <1>9, <1>10, <1>11, <1>12,
     <1>13, <1>14 DEF Next, PollStep

\* The reviews, their lock, the theses and the poll only ever hold what the
\* program can put there (revalidation_service.py:93, monitor.py:322).
THEOREM TypeCorrect == Spec => []TypeOK
<1>1. Typed => TypeOK
  BY DEF Typed, TypeOK, CallRecord, ReviewRecord
<1> QED
  BY <1>1, InitTyped, TypeStep, PTL DEF Spec

-----------------------------------------------------------------------------
(* One review of a position at a time.                                      *)

LEMMA HoldsStep == Typed /\ Holds /\ [Next]_vars => Holds'
<1> SUFFICES ASSUME Typed, Holds, [Next]_vars PROVE Holds'
  OBVIOUS
<1>0. \A c \in Call : call[c] \in CallRecord /\ call[c].pos \in Position
  BY DEF Typed, CallRecord
<1>1. CASE UNCHANGED <<call, lock, lapsed>>
  BY <1>1 DEF Holds
<1>2. CASE TapValidate
  <2>1. PICK p \in Position : call' = [call EXCEPT ![Unused] = Begun("manual", p, {})]
    BY <1>2 DEF TapValidate
  <2>2. Begun("manual", p, {}).pc = "lock"
    BY BegunTypes
  <2>3. \A c \in Call : call'[c].pc # "lock" => call'[c] = call[c]
    BY <2>1, <2>2 DEF Typed
  <2> QED
    BY <1>2, <2>3 DEF TapValidate, Holds
<1>3. ASSUME NEW c \in Call, CallStep(c) PROVE Holds'
  <2>1. Moves(c) /\ call[c].pc \in Running
    BY <1>3, CallStepMoves
  <2>2. CASE Acquire(c)
    <3>1. lock' = [lock EXCEPT ![call[c].pos] = {c}] /\ lapsed' = lapsed
          /\ lock[call[c].pos] = {}
      BY <2>2 DEF Acquire
    <3>2. lock'[call'[c].pos] = {c}
      BY <1>0, <2>1, <3>1 DEF Moves, Typed
    <3>3. ASSUME NEW d \in Call \ {c}, call'[d].pc \in Running \ {"lock"}, d \notin lapsed'
          PROVE  lock'[call'[d].pos] = {d}
      <4>1. call'[d] = call[d] /\ lock[call[d].pos] = {d}
        BY <2>1, <3>1, <3>3 DEF Moves, Holds
      <4>2. call[d].pos # call[c].pos
        BY <3>1, <4>1
      <4> QED
        BY <1>0, <3>1, <4>1, <4>2 DEF Typed
    <3> QED
      BY <3>2, <3>3 DEF Holds
  <2>3. CASE AcquireNoop(c)
    BY <2>1, <2>3 DEF AcquireNoop, Moves, Holds
  <2>4. CASE AlreadyRunning(c)
    <3>1. call'[c].pc = "over"
      BY <2>4, Departs DEF AlreadyRunning, Over
    <3> QED
      BY <2>1, <2>4, <3>1 DEF AlreadyRunning, Moves, Holds, Running
  <2>5. CASE Release(c)
    <3>1. call'[c].pc = "over"
      BY <2>5, Departs DEF Release, Over
    <3>2. \A d \in Call \ {c} : lock[call[d].pos] = {d} => lock'[call[d].pos] = {d}
      BY <1>0, <2>5 DEF Release, Typed
    <3> QED
      BY <2>1, <2>5, <3>1, <3>2 DEF Release, Moves, Holds, Running
  <2>6. CASE \/ Load(c) \/ InsertThesis(c) \/ Throttle(c) \/ Observe(c) \/ Persist(c)
             \/ PersistRaises(c)
    <3>1. UNCHANGED <<lock, lapsed>> /\ call[c].pc # "lock"
      BY <2>6 DEF Load, InsertThesis, Throttle, Observe, Persist, PersistRaises
    <3> QED
      BY <2>1, <3>1 DEF Moves, Holds
  <2> QED
    BY <1>3, <2>2, <2>3, <2>4, <2>5, <2>6 DEF CallStep
<1>4. CASE PollDrift
  <2>1. UNCHANGED <<lock, lapsed>>
    BY <1>4 DEF PollDrift
  <2>2. CASE call' = call
    BY <2>1, <2>2 DEF Holds
  <2>3. ASSUME NEW c \in Call, NEW p \in Position, NEW codes \in SUBSET Code,
               call' = [call EXCEPT ![c] = Begun("auto", p, codes)]
        PROVE  Holds'
    <3>1. Begun("auto", p, codes).pc = "lock"
      BY BegunTypes
    <3>2. \A d \in Call : call'[d].pc # "lock" => call'[d] = call[d]
      BY <2>3, <3>1 DEF Typed
    <3> QED
      BY <2>1, <3>2 DEF Holds
  <2> QED
    BY <1>4, <2>2, <2>3, PollDriftMoves
<1>5. CASE PollDies
  <2>1. \A c \in Call : call'[c] = call[c] \/ call'[c].pc = "over"
    BY <1>5, PollDiesMoves
  <2> QED
    BY <1>5, <2>1 DEF PollDies, Holds, Running
<1>6. CASE LockExpires
  <2>1. PICK p \in Position :
          /\ lock' = [lock EXCEPT ![p] = {}] /\ call' = call
          /\ lapsed' = lapsed \cup {c \in lock[p] : call[c].pc \in Running}
    BY <1>6 DEF LockExpires
  <2>2. ASSUME NEW c \in Call, call[c].pc \in Running \ {"lock"}, c \notin lapsed'
        PROVE  lock'[call[c].pos] = {c}
    <3>1. lock[call[c].pos] = {c}
      BY <2>1, <2>2 DEF Holds
    <3>2. call[c].pos # p
      BY <2>1, <2>2, <3>1
    <3> QED
      BY <1>0, <2>1, <3>1, <3>2 DEF Typed
  <2> QED
    BY <2>1, <2>2 DEF Holds
<1>7. CASE \/ PollOpens \/ PollResumes \/ PollCommits \/ Apply \/ Adjust \/ End
           \/ CooldownEnds \/ DayPasses
  BY <1>1, <1>7 DEF PollOpens, PollResumes, PollCommits, Apply, Adjust, End, CooldownEnds,
                    DayPasses
<1>8. CASE UNCHANGED vars
  BY <1>1, <1>8 DEF vars
<1> QED
  BY <1>2, <1>3, <1>4, <1>5, <1>6, <1>7, <1>8 DEF Next, PollStep

\* Two reviews of one position run at once only when one of them lost or never
\* had its lock: Redis down, or the TTL over (revalidation_service.py:436).
THEOREM ReviewsApart == Spec => []OneReviewAtATime
<1>1. Init => Holds
  BY DEF Init, Holds, NewCall, Running
<1>2. Holds => OneReviewAtATime
  <2> SUFFICES ASSUME Holds, NEW c \in Call, NEW d \in Call, c # d,
                      call[c].pos = call[d].pos,
                      call[c].pc \in Reviewing, call[d].pc \in Reviewing,
                      c \notin lapsed, d \notin lapsed
               PROVE  FALSE
    BY DEF OneReviewAtATime
  <2>1. lock[call[c].pos] = {c} /\ lock[call[d].pos] = {d}
    BY DEF Holds, Reviewing, Running
  <2> QED
    BY <2>1
<1> QED
  BY <1>1, <1>2, InitTyped, TypeStep, HoldsStep, PTL DEF Spec

-----------------------------------------------------------------------------
(* The cap on automatic reviews.                                            *)

LEMMA AwaitedStep == Typed /\ AutosAwaited /\ [Next]_vars => AutosAwaited'
<1> SUFFICES ASSUME Typed, AutosAwaited, [Next]_vars PROVE AutosAwaited'
  OBVIOUS
<1>1. CASE UNCHANGED <<call, poll>>
  BY <1>1 DEF AutosAwaited
<1>2. CASE TapValidate
  <2>1. PICK p \in Position : call' = [call EXCEPT ![Unused] = Begun("manual", p, {})]
    BY <1>2 DEF TapValidate
  <2>2. Begun("manual", p, {}).trigger = "manual"
    BY BegunTypes
  <2>3. \A c \in Call : call'[c].trigger = "auto" => call'[c] = call[c]
    BY <2>1, <2>2 DEF Typed
  <2> QED
    BY <1>2, <2>3 DEF TapValidate, AutosAwaited
<1>3. ASSUME NEW c \in Call, CallStep(c) PROVE AutosAwaited'
  <2>1. Moves(c) /\ call[c].pc \in Running
    BY <1>3, CallStepMoves
  <2>2. poll' = poll
    BY <1>3 DEF CallStep, Acquire, AlreadyRunning, AcquireNoop, Load, InsertThesis, Throttle,
                Observe, Persist, PersistRaises, Release
  <2> QED
    BY <2>1, <2>2 DEF Moves, AutosAwaited
<1>4. CASE PollDrift
  <2>1. poll.pc = "open" /\ \A c \in Call : ~(call[c].pc \in Running /\ call[c].trigger = "auto")
    BY <1>4 DEF PollDrift, AutosAwaited
  <2>2. CASE call' = call
    BY <2>1, <2>2 DEF AutosAwaited
  <2>3. ASSUME NEW c \in Call, NEW p \in Position, NEW codes \in SUBSET Code,
               call' = [call EXCEPT ![c] = Begun("auto", p, codes)],
               poll' \in [pc : {"waiting"}, rest : SUBSET Position, call : {{c}}]
        PROVE  AutosAwaited'
    <3>1. \A d \in Call \ {c} : call'[d] = call[d]
      BY <2>3 DEF Typed
    <3>2. poll'.pc = "waiting" /\ poll'.call = {c}
      BY <2>3
    <3> QED
      BY <2>1, <3>1, <3>2 DEF AutosAwaited
  <2> QED
    BY <1>4, <2>2, <2>3, PollDriftMoves
<1>5. CASE PollDies
  <2>1. \A c \in Call : call'[c] = call[c] \/ call'[c].pc = "over"
    BY <1>5, PollDiesMoves
  <2>2. \A c \in poll.call : call'[c].pc = "over"
    BY <1>5, PollDiesMoves
  <2> QED
    BY <2>1, <2>2 DEF AutosAwaited, Running
<1>6. CASE PollResumes
  BY <1>6 DEF PollResumes, AutosAwaited, Running
<1>7. CASE PollOpens \/ PollCommits
  BY <1>7 DEF PollOpens, PollCommits, AutosAwaited
<1>8. CASE LockExpires \/ Apply \/ Adjust \/ End \/ CooldownEnds \/ DayPasses
  BY <1>1, <1>8 DEF LockExpires, Apply, Adjust, End, CooldownEnds, DayPasses
<1>9. CASE UNCHANGED vars
  BY <1>1, <1>9 DEF vars
<1> QED
  BY <1>2, <1>3, <1>4, <1>5, <1>6, <1>7, <1>8, <1>9 DEF Next, PollStep

\* Counting: reviews are finitely many, so fewer of them means a lower count, and
\* one more at most one more.
LEMMA Counting ==
  ASSUME NEW S \in SUBSET Call, NEW T \in SUBSET Call, NEW c
  PROVE  /\ Cardinality(S) \in Nat
         /\ T \subseteq S => Cardinality(T) <= Cardinality(S)
         /\ T \subseteq S \cup {c} => Cardinality(T) <= Cardinality(S) + 1
<1>1. IsFiniteSet(S) /\ IsFiniteSet(T)
  BY CapAssumption, FS_Subset
<1>2. IsFiniteSet(S \cup {c}) /\ Cardinality(S \cup {c}) <= Cardinality(S) + 1
  BY <1>1, FS_AddElement, FS_CardinalityType
<1>3. T \subseteq S => Cardinality(T) <= Cardinality(S)
  BY <1>1, FS_Subset
<1>4. T \subseteq S \cup {c} => Cardinality(T) <= Cardinality(S \cup {c})
  BY <1>2, FS_Subset
<1>5. Cardinality(S) \in Nat /\ Cardinality(T) \in Nat /\ Cardinality(S \cup {c}) \in Nat
  BY <1>1, <1>2, FS_CardinalityType
<1> QED
  BY <1>2, <1>3, <1>4, <1>5

LEMMA RoomKept ==
  ASSUME Typed, RoomForAuto,
         \A p \in Position, day \in Nat : Autos(review', p, day) \subseteq Autos(review, p, day),
         \A c \in Call : call'[c].pc \in {"quote", "ask"} /\ call'[c].trigger = "auto" =>
           /\ call'[c].pos = call[c].pos /\ today' = today
           /\ Cardinality(Autos(review, call[c].pos, today)) < Cap
  PROVE  RoomForAuto'
<1>1. \A r, p, day : Autos(r, p, day) \subseteq Call
  BY DEF Autos
<1>2. ASSUME NEW p \in Position, NEW day \in Nat
      PROVE  /\ Cardinality(Autos(review', p, day)) <= Cardinality(Autos(review, p, day))
             /\ Cardinality(Autos(review', p, day)) \in Nat
             /\ Cardinality(Autos(review, p, day)) \in Nat
             /\ Cardinality(Autos(review, p, day)) <= Cap
  BY <1>1, Counting DEF RoomForAuto
<1>3. \A p \in Position, day \in Nat : Cardinality(Autos(review', p, day)) <= Cap
  BY <1>2, CapAssumption
<1>4. ASSUME NEW c \in Call, call'[c].pc \in {"quote", "ask"}, call'[c].trigger = "auto"
      PROVE  Cardinality(Autos(review', call'[c].pos, today')) < Cap
  <2>1. call[c].pos \in Position /\ today \in Nat
    BY BoundAssumption DEF Typed, CallRecord
  <2>2. call'[c].pos = call[c].pos /\ today' = today
        /\ Cardinality(Autos(review, call[c].pos, today)) < Cap
    BY <1>4
  <2>3. /\ Cardinality(Autos(review', call[c].pos, today)) <= Cardinality(Autos(review, call[c].pos, today))
        /\ Cardinality(Autos(review', call[c].pos, today)) \in Nat
        /\ Cardinality(Autos(review, call[c].pos, today)) \in Nat
    BY <1>2, <2>1
  <2> QED
    BY <2>2, <2>3, CapAssumption
<1> QED
  BY <1>3, <1>4 DEF RoomForAuto

LEMMA RoomStep == Typed /\ AutosAwaited /\ RoomForAuto /\ [Next]_vars => RoomForAuto'
<1> SUFFICES ASSUME Typed, AutosAwaited, RoomForAuto, [Next]_vars PROVE RoomForAuto'
  OBVIOUS
<1>1. ASSUME UNCHANGED <<call, review, today>> PROVE RoomForAuto'
  BY <1>1 DEF RoomForAuto
<1>2. CASE TapValidate
  <2>1. PICK p \in Position : call' = [call EXCEPT ![Unused] = Begun("manual", p, {})]
    BY <1>2 DEF TapValidate
  <2>2. Begun("manual", p, {}).pc = "lock"
    BY BegunTypes
  <2>3. \A c \in Call : call'[c].pc # "lock" => call'[c] = call[c]
    BY <2>1, <2>2 DEF Typed
  <2> QED
    BY <1>2, <2>3 DEF TapValidate, RoomForAuto
<1>3. ASSUME NEW c \in Call, CallStep(c) PROVE RoomForAuto'
  <2>1. Moves(c) /\ call[c].pc \in Running
    BY <1>3, CallStepMoves
  <2>2. today' = today /\ call[c].pos \in Position /\ today \in Nat
    <3>1. today' = today
      BY <1>3 DEF CallStep, Acquire, AlreadyRunning, AcquireNoop, Load, InsertThesis,
                  Throttle, Observe, Persist, PersistRaises, Release
    <3>2. call[c] \in CallRecord /\ today \in Nat
      BY BoundAssumption DEF Typed
    <3> QED
      BY <3>1, <3>2 DEF CallRecord
  <2>3. CASE Persist(c)
    <3>1. call'[c].pc = "release" /\ call[c].pc = "ask"
      BY <2>3, Departs DEF Persist
    <3>2. PICK v \in ReviewRecord :
            /\ review' = [review EXCEPT ![c] = v]
            /\ v.pos = call[c].pos /\ v.trigger = call[c].trigger
            /\ v.trigger = "auto" => v.day = today
      BY <2>3, PersistWrites
    <3>3. \A d \in Call \ {c} : review'[d] = review[d]
      BY <3>2 DEF Typed
    <3>4. review'[c] = v
      BY <3>2 DEF Typed
    <3>5. CASE call[c].trigger = "auto"
      <4>1. \A p, day : Autos(review', p, day) \subseteq Autos(review, p, day) \cup {c}
        BY <3>3 DEF Autos
      <4>2. \A p, day : <<p, day>> # <<call[c].pos, today>>
                          => Autos(review', p, day) \subseteq Autos(review, p, day)
        BY <3>2, <3>3, <3>4, <3>5 DEF Autos
      <4>3. Cardinality(Autos(review, call[c].pos, today)) < Cap
        BY <3>1, <3>5 DEF RoomForAuto
      <4>4. ASSUME NEW p \in Position, NEW day \in Nat
            PROVE  Cardinality(Autos(review', p, day)) <= Cap
        <5>1. Autos(review, p, day) \subseteq Call /\ Autos(review', p, day) \subseteq Call
          BY DEF Autos
        <5>2. /\ Cardinality(Autos(review, p, day)) \in Nat
              /\ Cardinality(Autos(review', p, day)) \in Nat
              /\ Cardinality(Autos(review', p, day)) <= Cardinality(Autos(review, p, day)) + 1
          BY <4>1, <5>1, Counting
        <5>3. CASE <<p, day>> = <<call[c].pos, today>>
          BY <4>3, <5>2, <5>3, CapAssumption
        <5>4. CASE <<p, day>> # <<call[c].pos, today>>
          <6>1. Cardinality(Autos(review', p, day)) <= Cardinality(Autos(review, p, day))
            BY <4>2, <5>1, <5>4, Counting
          <6>2. Cardinality(Autos(review, p, day)) <= Cap
            BY DEF RoomForAuto
          <6> QED
            BY <5>2, <6>1, <6>2, CapAssumption
        <5> QED
          BY <5>3, <5>4
      <4>5. ASSUME NEW d \in Call, call'[d].pc \in {"quote", "ask"}, call'[d].trigger = "auto"
            PROVE  FALSE
        <5>1. d # c /\ call'[d] = call[d]
          BY <2>1, <3>1, <4>5 DEF Moves
        <5>2. poll.call = {c} /\ poll.call = {d}
          BY <2>1, <3>5, <4>5, <5>1 DEF AutosAwaited, Running
        <5> QED
          BY <5>1, <5>2
      <4> QED
        BY <4>4, <4>5 DEF RoomForAuto
    <3>6. CASE call[c].trigger # "auto"
      <4>1. \A p, day : Autos(review', p, day) \subseteq Autos(review, p, day)
        BY <3>2, <3>3, <3>4, <3>6 DEF Autos
      <4>2. \A d \in Call : call'[d].pc \in {"quote", "ask"} => call'[d] = call[d]
        BY <2>1, <3>1 DEF Moves
      <4> QED
        BY <2>2, <4>1, <4>2, RoomKept DEF RoomForAuto
    <3> QED
      BY <3>5, <3>6
  <2>4. CASE ~Persist(c)
    <3>1. review' = review
      BY <1>3, <2>4 DEF CallStep, Acquire, AlreadyRunning, AcquireNoop, Load, InsertThesis,
                        Throttle, Observe, PersistRaises, Release
    <3>2. ASSUME call'[c].pc \in {"quote", "ask"}, call'[c].trigger = "auto"
          PROVE  Cardinality(Autos(review, call[c].pos, today)) < Cap
      <4>1. call[c].trigger = "auto" /\ (call[c].pc = "quote" \/ ~Suppressed(c))
        BY <1>3, <2>1, <3>2, CallStepMoves DEF Moves
      <4>2. CASE call[c].pc = "quote"
        BY <4>1, <4>2 DEF RoomForAuto
      <4>3. CASE ~Suppressed(c)
        <5>1. ~(Cardinality(Autos(review, call[c].pos, today)) >= Cap)
          BY <4>3 DEF Suppressed, AutoReviews, Autos
        <5>2. Cardinality(Autos(review, call[c].pos, today)) \in Nat
          <6>1. Autos(review, call[c].pos, today) \subseteq Call
            BY DEF Autos
          <6> QED
            BY <6>1, Counting
        <5> QED
          BY <5>1, <5>2, CapAssumption
      <4> QED
        BY <4>1, <4>2, <4>3
    <3>3. \A d \in Call \ {c} : call'[d] = call[d]
      BY <2>1 DEF Moves
    <3>4. call'[c].pos = call[c].pos
      BY <2>1 DEF Moves
    <3> QED
      BY <2>2, <3>1, <3>2, <3>3, <3>4, RoomKept DEF RoomForAuto
  <2> QED
    BY <2>3, <2>4
<1>4. CASE PollDrift
  <2>1. UNCHANGED <<review, today>>
    BY <1>4 DEF PollDrift
  <2>2. ASSUME NEW c \in Call, NEW p \in Position, NEW codes \in SUBSET Code,
               call' = [call EXCEPT ![c] = Begun("auto", p, codes)]
        PROVE  RoomForAuto'
    <3>1. Begun("auto", p, codes).pc = "lock"
      BY BegunTypes
    <3>2. \A d \in Call : call'[d].pc # "lock" => call'[d] = call[d]
      BY <2>2, <3>1 DEF Typed
    <3> QED
      BY <2>1, <3>2 DEF RoomForAuto
  <2> QED
    BY <1>1, <1>4, <2>1, <2>2, PollDriftMoves
<1>5. CASE PollDies
  <2>1. \A c \in Call : call'[c] = call[c] \/ call'[c].pc = "over"
    BY <1>5, PollDiesMoves
  <2> QED
    BY <1>5, <2>1 DEF PollDies, RoomForAuto
<1>6. CASE End \/ CooldownEnds \/ DayPasses
  <2>1. \A c \in Call : Kept(review[c], review'[c])
    BY <1>6, ReviewsKept
  <2>2. ASSUME NEW p, NEW day, NEW c \in Autos(review', p, day)
        PROVE  c \in Autos(review, p, day)
    <3>1. review'[c] # NoReview
      BY <2>2 DEF Autos, NoReview
    <3>2. /\ review'[c].exists = review[c].exists /\ review'[c].trigger = review[c].trigger
          /\ review'[c].pos = review[c].pos /\ review'[c].day = review[c].day
      BY <2>1, <2>2, <3>1 DEF Kept, Autos
    <3> QED
      BY <2>2, <3>2 DEF Autos
  <2>3. call' = call
    BY <1>6 DEF End, CooldownEnds, DayPasses
  <2>4. \A c \in Call : call[c].pc \in {"quote", "ask"} => today' = today
    BY <1>6 DEF End, CooldownEnds, DayPasses, Running
  <2> QED
    BY <2>2, <2>3, <2>4, RoomKept DEF RoomForAuto
<1>7. CASE PollOpens \/ PollResumes \/ PollCommits \/ LockExpires \/ Apply \/ Adjust
  BY <1>1, <1>7 DEF PollOpens, PollResumes, PollCommits, LockExpires, Apply, Adjust
<1>8. CASE UNCHANGED vars
  BY <1>1, <1>8 DEF vars
<1> QED
  BY <1>2, <1>3, <1>4, <1>5, <1>6, <1>7, <1>8 DEF Next, PollStep

\* No position gets more than Cap automatic reviews in a session, crashes,
\* taps and expired locks included (revalidation_service.py:370).
THEOREM AutosCapped == Spec => []AutoReviewsCapped
<1>1. Init => AutosAwaited
  BY DEF Init, AutosAwaited, NewCall
<1>2. Init => RoomForAuto
  <2> SUFFICES ASSUME Init PROVE RoomForAuto
    OBVIOUS
  <2>1. \A p, day : Autos(review, p, day) = {}
    BY DEF Init, Autos, NoReview
  <2>2. \A c \in Call : call[c].pc = "new"
    BY DEF Init, NewCall
  <2> QED
    BY <2>1, <2>2, FS_EmptySet, CapAssumption DEF RoomForAuto
<1>3. RoomForAuto => AutoReviewsCapped
  <2>1. \A p, day : AutoReviews(p, day) = Autos(review, p, day)
    BY DEF AutoReviews, Autos
  <2> QED
    BY <2>1, BoundAssumption DEF RoomForAuto, AutoReviewsCapped
<1> QED
  BY <1>1, <1>2, <1>3, InitTyped, TypeStep, AwaitedStep, RoomStep, PTL DEF Spec

-----------------------------------------------------------------------------
(* The advice.                                                              *)

\* A stored review that advises to adjust the stop names one that tightens the
\* premium stop of the plan it was made of.
StopTightens(v) ==
  v.action = "adjust_stop" => Tightens(v.pos, v.proposed.stop, v.basis)
StopsBacked == \A c \in Call : review[c].exists => StopTightens(review[c])

\* What the answer of review c is backed by when it is stored.
Backed(c) ==
  LET kill == call[c].fired \cap Kill
  IN  /\ review'[c].action = "close" => kill # {}
      /\ review'[c].action = "hold" => kill = {} \/ review'[c].cited # {}

LEMMA PersistIsBacked ==
  ASSUME Typed, NEW c \in Call, Persist(c)
  PROVE  /\ Backed(c) /\ StopTightens(review'[c])
         /\ \A d \in Call \ {c} : review'[d] = review[d]
<1> DEFINE k == call[c]
           final(raw) == Normalized(raw, k.fired, Rec[k.pos].side, k.plan, k.snap)
           v(raw) == [exists |-> TRUE, recent |-> k.trigger = "auto", trigger |-> k.trigger,
                      day |-> IF k.trigger = "auto" THEN today ELSE 0,
                      pos |-> k.pos, codes |-> k.codes, cited |-> Supported(raw) \cap Kill,
                      action |-> final(raw).action, proposed |-> final(raw).proposed,
                      basis |-> k.plan.stop]
<1>1. PICK raw \in Answer : review' = [review EXCEPT ![c] = v(raw)]
  BY DEF Persist
<1>2. k.plan \in Plan
  BY DEF Typed, CallRecord
<1>3. /\ final(raw).action = "close" => k.fired \cap Kill # {}
      /\ final(raw).action = "hold" =>
           k.fired \cap Kill = {} \/ Supported(raw) \cap Kill # {}
      /\ final(raw).action = "adjust_stop" =>
           Tightens(k.pos, final(raw).proposed.stop, k.plan.stop)
  BY <1>2, NormalizedIsBacked
<1>4. /\ v(raw).action = final(raw).action /\ v(raw).proposed = final(raw).proposed
      /\ v(raw).cited = Supported(raw) \cap Kill /\ v(raw).pos = k.pos
      /\ v(raw).basis = k.plan.stop
  OBVIOUS
<1> HIDE DEF final, v
<1>5. review'[c] = v(raw) /\ \A d \in Call \ {c} : review'[d] = review[d]
  BY <1>1 DEF Typed
<1> QED
  BY <1>3, <1>4, <1>5 DEF Backed, StopTightens

\* Every step stores at most one review, keeps the others as they are or drops
\* them, and what it stores is backed.
LEMMA ReviewStep ==
  ASSUME Typed, [Next]_vars, NEW c \in Call, review'[c].exists
  PROVE  \/ Kept(review[c], review'[c])
         \/ Backed(c) /\ StopTightens(review'[c])
<1>1. CASE review' = review
  BY <1>1 DEF Kept
<1>2. CASE End \/ CooldownEnds \/ DayPasses
  BY <1>2, ReviewsKept
<1>3. ASSUME NEW d \in Call, CallStep(d), review' # review
      PROVE  \/ Kept(review[c], review'[c])
             \/ Backed(c) /\ StopTightens(review'[c])
  <2>1. Persist(d)
    BY <1>3 DEF CallStep, Acquire, AlreadyRunning, AcquireNoop, Load, InsertThesis,
                Throttle, Observe, PersistRaises, Release
  <2>2. /\ Backed(d) /\ StopTightens(review'[d])
        /\ \A e \in Call \ {d} : review'[e] = review[e]
    BY <2>1, PersistIsBacked
  <2>3. CASE c = d
    BY <2>2, <2>3
  <2>4. CASE c # d
    BY <2>2, <2>4 DEF Kept
  <2> QED
    BY <2>3, <2>4
<1>4. CASE \/ UNCHANGED vars \/ TapValidate \/ PollOpens \/ PollStep \/ PollDies
           \/ LockExpires \/ Apply \/ Adjust
  BY <1>1, <1>4 DEF vars, TapValidate, PollOpens, PollStep, PollDrift, PollResumes,
                    PollCommits, PollDies, LockExpires, Apply, Adjust
<1> QED
  BY <1>1, <1>2, <1>3, <1>4 DEF Next

LEMMA StopsStep == Typed /\ StopsBacked /\ [Next]_vars => StopsBacked'
<1> SUFFICES ASSUME Typed, StopsBacked, [Next]_vars, NEW c \in Call, review'[c].exists
             PROVE  StopTightens(review'[c])
  BY DEF StopsBacked, StopTightens, Tightens
<1>1. review'[c] # NoReview
  BY DEF NoReview
<1>2. CASE Kept(review[c], review'[c])
  BY <1>1, <1>2 DEF Kept, StopsBacked, StopTightens
<1> QED
  BY <1>2, ReviewStep

\* What a step does to the levels in force: nothing, or what the user typed, or
\* what a stored review proposed.
LEMMA PlanStep ==
  ASSUME Typed, [Next]_vars
  PROVE  \/ plan' = plan
         \/ \E p \in Position :
              /\ plan'[p].by = {}
              /\ \A q \in Position \ {p} : plan'[q] = plan[q]
         \/ \E d \in Call :
              /\ review[d].exists
              /\ plan' = [plan EXCEPT ![review[d].pos] =
                            Applied(d, plan[review[d].pos], review[d].proposed)]
<1>1. CASE Apply
  BY <1>1 DEF Apply
<1>2. CASE Adjust
  <2>1. PICK p \in Position, s \in Stop :
          plan' = [plan EXCEPT ![p].stop = s, ![p].by = {}]
    BY <1>2 DEF Adjust
  <2>2. plan[p] \in Plan
    BY DEF Typed
  <2>3. /\ plan'[p].by = {}
        /\ \A q \in Position \ {p} : plan'[q] = plan[q]
    BY <2>1, <2>2 DEF Typed, Plan
  <2> QED
    BY <2>3
<1>3. CASE ~Apply /\ ~Adjust
  BY <1>3 DEF Next, vars, TapValidate, CallStep, Acquire, AlreadyRunning, AcquireNoop, Load,
              InsertThesis, Throttle, Observe, Persist, PersistRaises, Release, PollOpens,
              PollStep, PollDrift, PollResumes, PollCommits, PollDies, LockExpires, End,
              CooldownEnds, DayPasses
<1> QED
  BY <1>1, <1>2, <1>3

\* However late the button is pressed and whatever the user changed meanwhile.
LEMMA AppliedStop ==
  ASSUME Typed, StopsBacked, [Next]_vars, NEW c \in Call, review[c].action = "adjust_stop",
         plan'[review[c].pos] # plan[review[c].pos], plan'[review[c].pos].by = {c},
         plan[review[c].pos].stop = review[c].basis
  PROVE  Tightens(review[c].pos, plan'[review[c].pos].stop, plan[review[c].pos].stop)
<1> DEFINE p == review[c].pos
<1>1. p \in Position
  BY DEF Typed, ReviewRecord
<1>2. PICK d \in Call :
        /\ review[d].exists
        /\ plan' = [plan EXCEPT ![review[d].pos] =
                      Applied(d, plan[review[d].pos], review[d].proposed)]
  BY <1>1, PlanStep
<1>3. review[d].pos = p
  BY <1>1, <1>2 DEF Typed
<1>4. plan'[p] = Applied(d, plan[p], review[d].proposed)
  BY <1>1, <1>2, <1>3 DEF Typed
<1>5. d = c
  BY <1>4 DEF Applied
<1>6. Tightens(p, review[c].proposed.stop, review[c].basis)
  BY <1>2, <1>5 DEF StopsBacked, StopTightens
<1>7. plan'[p].stop = review[c].proposed.stop
  BY <1>4, <1>5, <1>6 DEF Applied, Tightens
<1> QED
  BY <1>6, <1>7

\* However the reviews, the polls and the user's edits interleave: to close is
\* advised only when a kill criterion fired and to hold against one only by citing
\* it, and an "adjust stop" review, whenever it is applied, tightens the premium
\* stop in force if that is the one it was made of (revalidation_service.py:499,
\* :604).
THEOREM AdviceBacked == Spec => AdviceIsBacked
<1> DEFINE A == \A c \in Call :
       /\ review'[c].exists /\ ~review[c].exists =>
            LET kill == call[c].fired \cap Kill IN
            /\ review'[c].action = "close" => kill # {}
            /\ review'[c].action = "hold" => kill = {} \/ review'[c].cited # {}
       /\ review[c].action = "adjust_stop" =>
            LET p == review[c].pos IN
            /\ plan'[p] # plan[p] /\ plan'[p].by = {c}
            /\ plan[p].stop = review[c].basis
            => Tightens(p, plan'[p].stop, plan[p].stop)
<1>1. Typed /\ StopsBacked /\ [Next]_vars => A
  <2> SUFFICES ASSUME Typed, StopsBacked, [Next]_vars, NEW c \in Call
               PROVE  /\ review'[c].exists /\ ~review[c].exists => Backed(c)
                      /\ review[c].action = "adjust_stop" =>
                           LET p == review[c].pos IN
                           /\ plan'[p] # plan[p] /\ plan'[p].by = {c}
                           /\ plan[p].stop = review[c].basis
                           => Tightens(p, plan'[p].stop, plan[p].stop)
    BY DEF Backed
  <2>1. ASSUME review'[c].exists, ~review[c].exists PROVE Backed(c)
    <3>1. review'[c] # NoReview
      BY <2>1 DEF NoReview
    <3>2. ~Kept(review[c], review'[c])
      BY <2>1, <3>1 DEF Kept
    <3> QED
      BY <2>1, <3>2, ReviewStep
  <2> QED
    BY <2>1, AppliedStop
<1>2. Init => StopsBacked
  BY DEF Init, StopsBacked, NoReview
<1>3. [][A]_vars => AdviceIsBacked
  BY PTL DEF AdviceIsBacked
<1> QED
  BY <1>1, <1>2, <1>3, InitTyped, TypeStep, StopsStep, PTL DEF Spec

=============================================================================
