---------------------------- MODULE ActorProofs ----------------------------
(***************************************************************************)
(* A cancel stops the request it was meant for, and a run() tells its user *)
(* what it came to exactly once, for any number of run() calls, kills and  *)
(* parks.                                                                  *)
(***************************************************************************)
EXTENDS ActorRun, TLAPS

\* The worker of the queue sends one run() at a time.
OneUnderWay == \A c, d \in UnderWay : c = d

\* The ident belongs to the thread of the run() under way.
IdentIsCurrent ==
    /\ \A c \in Calls : thread[c] = "start" => pc[c] = "wait"
    /\ executionIdent # None =>
          pc[executionIdent] = "wait" /\ thread[executionIdent] # "start"

\* The switch is set only during the run() that it is to stop.
SwitchIsCurrent ==
    /\ killSwitch => executionIdent # None
    /\ \A c \in Calls : killed[c] /\ pc[c] = "wait"
                            => c \in hit /\ executionIdent = c

AInv == TypeOK /\ OneUnderWay /\ IdentIsCurrent /\ SwitchIsCurrent
        /\ StopHitsItsTarget

-----------------------------------------------------------------------------

\* The end of a run() writes its outcome and nothing of the other calls.
LEMMA EndsTyped ==
    ASSUME TypeOK, NEW c \in Calls, NEW how \in Outcomes, Ends(c, how)
    PROVE  /\ pc' \in [Calls -> {"new", "env", "wait", "over"}]
           /\ outcome' \in [Calls -> Outcomes \cup {"none"}]
           /\ answers' \in [Calls -> Nat]
           /\ pc'[c] = "over" /\ outcome'[c] = how
           /\ \A d \in Calls \ {c} : pc'[d] = pc[d] /\ outcome'[d] = outcome[d]
<1>1. answers[c] \in Nat /\ answers[c] + 1 \in Nat
  BY DEF TypeOK
<1> QED BY <1>1 DEF TypeOK, Ends

\* A run() that was under way ends and cleans up.
LEMMA EndsClean ==
    ASSUME AInv, NEW c \in Calls, c \in UnderWay, thread[c] # "start",
           NEW how \in Outcomes, Ends(c, how), Cleanup,
           how \in {"cancelled", "preempted"} => c \in hit,
           UNCHANGED <<place, killed, thread, result, hit, bounds>>
    PROVE  AInv'
<1>1. TypeOK'
  BY EndsTyped DEF AInv, TypeOK, Cleanup, place, bounds
<1>2. /\ pc'[c] = "over" /\ outcome'[c] = how
      /\ \A d \in Calls \ {c} : pc'[d] = pc[d] /\ outcome'[d] = outcome[d]
  BY EndsTyped DEF AInv
<1>3. \A d \in Calls : pc'[d] \notin {"env", "wait"}
  BY <1>2 DEF AInv, OneUnderWay, UnderWay
<1>4. OneUnderWay'
  BY <1>3 DEF OneUnderWay, UnderWay
<1>5. IdentIsCurrent'
  BY <1>2 DEF AInv, IdentIsCurrent, Cleanup
<1>6. SwitchIsCurrent'
  BY <1>3 DEF SwitchIsCurrent, Cleanup
<1>7. StopHitsItsTarget'
  BY <1>2 DEF AInv, StopHitsItsTarget
<1> QED BY <1>1, <1>4, <1>5, <1>6, <1>7 DEF AInv

\* run() up to the race.
LEMMA RunKeepsAInv ==
    ASSUME AInv, NEW c \in Calls, Run(c) \/ Executes(c)
    PROVE  AInv'
<1> USE DEF AInv
<1>1. CASE Run(c) /\ cached
  <2>1. /\ TypeOK'
        /\ pc'[c] = "over" /\ outcome'[c] = "rejected"
        /\ \A d \in Calls \ {c} : pc'[d] = pc[d] /\ outcome'[d] = outcome[d]
    BY <1>1, EndsTyped DEF Run, TypeOK, Outcomes, place, fields, bounds
  <2>2. pc[c] = "new" /\ UNCHANGED <<fields, killed, thread, hit>>
    BY <1>1 DEF Run
  <2>3. OneUnderWay'
    BY <2>1 DEF OneUnderWay, UnderWay
  <2>4. IdentIsCurrent' /\ SwitchIsCurrent'
    BY <2>1, <2>2 DEF IdentIsCurrent, SwitchIsCurrent, fields, TypeOK
  <2>5. StopHitsItsTarget'
    BY <2>1, <2>2 DEF StopHitsItsTarget
  <2> QED BY <2>1, <2>3, <2>4, <2>5
<1>2. CASE Run(c) /\ ~cached
  <2>1. /\ pc' = [pc EXCEPT ![c] = "env"] /\ pc[c] = "new" /\ UnderWay = {}
        /\ UNCHANGED <<outcome, answers, place, fields, killed, thread, result,
                       hit, bounds>>
    BY <1>2 DEF Run
  <2>2. TypeOK'
    BY <2>1 DEF TypeOK, place, fields, bounds
  <2>3. OneUnderWay'
    BY <2>1 DEF OneUnderWay, UnderWay, TypeOK
  <2>4. IdentIsCurrent' /\ SwitchIsCurrent'
    BY <2>1 DEF IdentIsCurrent, SwitchIsCurrent, fields, TypeOK
  <2> QED BY <2>1, <2>2, <2>3, <2>4 DEF StopHitsItsTarget
<1>3. CASE Executes(c)
  <2>1. /\ pc' = [pc EXCEPT ![c] = "wait"] /\ pc[c] = "env"
        /\ thread' = [thread EXCEPT ![c] = "start"]
        /\ killed' = [killed EXCEPT ![c] = killSwitch]
        /\ UNCHANGED <<place, fields, result, outcome, answers, hit, bounds>>
    BY <1>3 DEF Executes
  <2>2. executionIdent = None
    BY <2>1 DEF IdentIsCurrent, OneUnderWay, UnderWay, TypeOK
  <2>3. killSwitch = FALSE
    BY <2>2 DEF SwitchIsCurrent, TypeOK
  <2>4. TypeOK'
    BY <2>1 DEF TypeOK, Threads, place, fields, bounds
  <2>5. OneUnderWay'
    BY <2>1 DEF OneUnderWay, UnderWay, TypeOK
  <2>6. IdentIsCurrent'
    BY <2>1, <2>2 DEF IdentIsCurrent, fields, TypeOK
  <2>7. SwitchIsCurrent'
    BY <2>1, <2>3 DEF SwitchIsCurrent, fields, TypeOK
  <2> QED BY <2>1, <2>4, <2>5, <2>6, <2>7 DEF StopHitsItsTarget
<1> QED BY <1>1, <1>2, <1>3

\* run() after the race.
LEMMA EndKeepsAInv ==
    ASSUME AInv, NEW c \in Calls,
           EnvFails(c) \/ Finishes(c) \/ Stops(c) \/ TimesOut(c)
    PROVE  AInv'
<1>u. c \in UnderWay
  BY DEF EnvFails, Finishes, Stops, TimesOut, UnderWay
<1>1. CASE EnvFails(c)
  BY <1>u, <1>1, EndsClean DEF EnvFails, AInv, IdentIsCurrent, Outcomes
<1>2. CASE Stops(c)
  <2>1. c \in hit /\ thread[c] # "start"
    BY <1>2, ActorAssumption DEF Stops, AInv, SwitchIsCurrent, IdentIsCurrent
  <2>2. PICK how \in {"preempted", "cancelled"} : Ends(c, how)
    BY <1>2 DEF Stops
  <2> QED BY <1>u, <1>2, <2>1, <2>2, EndsClean DEF Stops, Outcomes
<1>3. CASE TimesOut(c)
  BY <1>u, <1>3, EndsClean DEF TimesOut, Outcomes
<1>4. CASE Finishes(c) /\ result[c] # "fatal"
  <2>1. PICK how \in Outcomes \ {"cancelled", "preempted"} : Ends(c, how)
    BY <1>4 DEF Finishes, AInv, TypeOK, Results, Outcomes
  <2> QED BY <1>u, <1>4, <2>1, EndsClean DEF Finishes
<1>5. CASE Finishes(c) /\ result[c] = "fatal"
  <2>1. Ends(c, "fatal") /\ Restart /\ UNCHANGED <<killed, result, hit, bounds>>
    BY <1>5 DEF Finishes
  <2>2. /\ TypeOK'
        /\ pc'[c] = "over" /\ outcome'[c] = "fatal"
        /\ \A d \in Calls \ {c} : pc'[d] = pc[d] /\ outcome'[d] = outcome[d]
    BY <2>1, EndsTyped DEF AInv, Restart, TypeOK, Threads, Outcomes, bounds
  <2>3. \A d \in Calls : pc'[d] \notin {"env", "wait"}
    BY <1>u, <2>2 DEF AInv, OneUnderWay, UnderWay
  <2>4. OneUnderWay' /\ IdentIsCurrent' /\ SwitchIsCurrent'
    BY <2>1, <2>3
    DEF Restart, OneUnderWay, UnderWay, IdentIsCurrent, SwitchIsCurrent
  <2>5. StopHitsItsTarget'
    BY <2>1, <2>2 DEF AInv, StopHitsItsTarget
  <2> QED BY <2>2, <2>4, <2>5 DEF AInv
<1> QED BY <1>1, <1>2, <1>3, <1>4, <1>5

\* The threads.
LEMMA ThreadKeepsAInv ==
    ASSUME AInv, NEW c \in Calls, ThreadStarts(c) \/ ThreadEnds(c) \/ Resolves(c)
    PROVE  AInv'
<1> USE DEF AInv
<1>1. CASE ThreadStarts(c)
  <2>1. /\ thread[c] = "start" /\ thread' = [thread EXCEPT ![c] = "exec"]
        /\ executionIdent' = c
        /\ UNCHANGED <<place, killSwitch, killReason, pc, killed, result, outcome,
                       answers, hit, bounds>>
    BY <1>1 DEF ThreadStarts
  <2>2. TypeOK'
    BY <2>1 DEF TypeOK, Threads, place, bounds
  <2>3. OneUnderWay' /\ StopHitsItsTarget'
    BY <2>1 DEF OneUnderWay, UnderWay, StopHitsItsTarget
  <2>4. IdentIsCurrent'
    BY <2>1 DEF IdentIsCurrent, TypeOK
  <2>5. SwitchIsCurrent'
    <3>1. c # None /\ pc[c] = "wait"
      BY <2>1, ActorAssumption DEF IdentIsCurrent
    <3>2. \A d \in Calls : pc[d] = "wait" => d = c
      BY <3>1 DEF OneUnderWay, UnderWay
    <3> QED BY <2>1, <3>1, <3>2 DEF SwitchIsCurrent
  <2> QED BY <2>2, <2>3, <2>4, <2>5
<1>2. CASE ThreadEnds(c) \/ Resolves(c)
  <2>1. /\ \E s \in {"posted", "done"} : thread' = [thread EXCEPT ![c] = s]
        /\ \/ result' = result
           \/ \E res \in Results : result' = [result EXCEPT ![c] = res]
        /\ UNCHANGED <<place, fields, pc, killed, outcome, answers, hit, bounds>>
    BY <1>2 DEF ThreadEnds, Resolves
  <2>2. TypeOK'
    BY <2>1 DEF TypeOK, Threads, place, fields, bounds
  <2>3. OneUnderWay' /\ StopHitsItsTarget' /\ SwitchIsCurrent'
    BY <2>1 DEF OneUnderWay, UnderWay, StopHitsItsTarget, SwitchIsCurrent, fields
  <2>4. IdentIsCurrent'
    BY <2>1 DEF IdentIsCurrent, TypeOK, fields
  <2> QED BY <2>2, <2>3, <2>4
<1> QED BY <1>1, <1>2

\* cancel(), whoever calls it.
LEMMA CancelKeepsAInv ==
    ASSUME AInv, NEW why \in {"none", "preempted"}, Cancel(why),
           UNCHANGED <<executionIdent, pc, thread, outcome>>
    PROVE  /\ killSwitch' \in BOOLEAN /\ killReason' \in {"none", "preempted"}
           /\ killed' \in [Calls -> BOOLEAN] /\ hit' \subseteq Calls
           /\ OneUnderWay' /\ IdentIsCurrent' /\ SwitchIsCurrent'
           /\ StopHitsItsTarget'
<1> USE DEF AInv
<1>1. OneUnderWay' /\ IdentIsCurrent'
  BY DEF OneUnderWay, UnderWay, IdentIsCurrent
<1>2. CASE executionIdent = None
  BY <1>1, <1>2 DEF Cancel, TypeOK, SwitchIsCurrent, StopHitsItsTarget
<1>3. CASE executionIdent # None
  <2>1. \A c \in Calls : pc[c] = "wait" => c \in UnderWay /\ c = executionIdent
    BY <1>3 DEF IdentIsCurrent, OneUnderWay, UnderWay, TypeOK
  <2>2. SwitchIsCurrent'
    BY <1>3, <2>1 DEF Cancel, SwitchIsCurrent
  <2>3. StopHitsItsTarget' /\ hit' \subseteq Calls
    BY <1>3 DEF Cancel, TypeOK, UnderWay, StopHitsItsTarget
  <2>4. /\ killSwitch' \in BOOLEAN /\ killReason' \in {"none", "preempted"}
        /\ killed' \in [Calls -> BOOLEAN]
    BY <1>3 DEF Cancel, TypeOK
  <2> QED BY <1>1, <2>2, <2>3, <2>4
<1> QED BY <1>2, <1>3

\* kill, to_cache() and from_cache().
LEMMA MoveKeepsAInv ==
    ASSUME AInv, Kill \/ ToCache \/ Cached \/ FromCache \/ Restored
    PROVE  AInv'
<1>1. CASE Kill
  <2>1. Cancel("none") /\ UNCHANGED <<executionIdent, pc, thread, outcome>>
    BY <1>1 DEF Kill
  <2>2. /\ killSwitch' \in BOOLEAN /\ killReason' \in {"none", "preempted"}
        /\ killed' \in [Calls -> BOOLEAN] /\ hit' \subseteq Calls
        /\ OneUnderWay' /\ IdentIsCurrent' /\ SwitchIsCurrent'
        /\ StopHitsItsTarget'
    BY <2>1, CancelKeepsAInv
  <2>3. kills' \in Nat
    BY <1>1 DEF Kill, AInv, TypeOK
  <2>4. TypeOK'
    BY <1>1, <2>2, <2>3 DEF Kill, AInv, TypeOK, place
  <2> QED BY <2>2, <2>4 DEF AInv
<1>2. CASE ToCache
  <2>1. Cancel("preempted") /\ UNCHANGED <<executionIdent, pc, thread, outcome>>
    BY <1>2 DEF ToCache
  <2>2. /\ killSwitch' \in BOOLEAN /\ killReason' \in {"none", "preempted"}
        /\ killed' \in [Calls -> BOOLEAN] /\ hit' \subseteq Calls
        /\ OneUnderWay' /\ IdentIsCurrent' /\ SwitchIsCurrent'
        /\ StopHitsItsTarget'
    BY <2>1, CancelKeepsAInv
  <2>3. parks' \in Nat
    BY <1>2 DEF ToCache, AInv, TypeOK
  <2>4. TypeOK'
    BY <1>2, <2>2, <2>3 DEF ToCache, AInv, TypeOK
  <2> QED BY <2>2, <2>4 DEF AInv
<1>3. CASE Cached \/ FromCache \/ Restored
  <2>1. UNCHANGED <<timed, fields, pc, killed, thread, result, outcome, answers,
                    hit, bounds>>
    BY <1>3 DEF Cached, FromCache, Restored
  <2>2. TypeOK'
    BY <1>3, <2>1
    DEF Cached, FromCache, Restored, AInv, TypeOK, fields, bounds
  <2>3. OneUnderWay' /\ IdentIsCurrent' /\ StopHitsItsTarget'
    BY <2>1
    DEF AInv, OneUnderWay, UnderWay, IdentIsCurrent, StopHitsItsTarget, fields
  <2>4. SwitchIsCurrent'
    BY <2>1 DEF AInv, SwitchIsCurrent, fields
  <2> QED BY <2>2, <2>3, <2>4 DEF AInv
<1> QED BY <1>1, <1>2, <1>3

\* The inductive invariant holds of every behaviour.
LEMMA AInvHolds == Spec => []AInv
<1>1. Init => AInv
  <2> SUFFICES ASSUME Init PROVE AInv
    OBVIOUS
  <2>1. TypeOK
    BY DEF Init, TypeOK, Threads, Results
  <2>2. OneUnderWay /\ IdentIsCurrent /\ StopHitsItsTarget
    BY DEF Init, OneUnderWay, UnderWay, IdentIsCurrent, StopHitsItsTarget
  <2>3. SwitchIsCurrent
    BY DEF Init, SwitchIsCurrent
  <2> QED BY <2>1, <2>2, <2>3 DEF AInv
<1>2. AInv /\ [Next]_vars => AInv'
  <2> SUFFICES ASSUME AInv, [Next]_vars PROVE AInv'
    OBVIOUS
  <2>1. CASE UNCHANGED vars
    BY <2>1
    DEF vars, AInv, TypeOK, OneUnderWay, UnderWay, IdentIsCurrent,
        SwitchIsCurrent, StopHitsItsTarget
  <2>2. CASE Next
    BY <2>2, RunKeepsAInv, EndKeepsAInv, ThreadKeepsAInv, MoveKeepsAInv
    DEF Next, RunStep
  <2> QED BY <2>1, <2>2
<1> QED BY <1>1, <1>2, PTL DEF Spec

\* The state has its types, whatever interleaves.
THEOREM ActorTypes == Spec => []TypeOK
<1>1. AInv => TypeOK
  BY DEF AInv
<1> QED BY <1>1, AInvHolds, PTL

\* No timeout, end of a block or lingering thread lets the kill switch outlive
\* the run() it was set for: cleanup() always comes before the next one.
THEOREM StopsHitTheirTarget == Spec => []StopHitsItsTarget
<1>1. AInv => StopHitsItsTarget
  BY DEF AInv
<1> QED BY <1>1, AInvHolds, PTL

-----------------------------------------------------------------------------
(* One answer *)

\* A run() that is not over has told its user nothing and come to nothing.
SilentUntilOver ==
    \A c \in Calls : pc[c] # "over" => outcome[c] = "none" /\ answers[c] = 0

AnswerInv == SilentUntilOver /\ OneAnswer

\* What a step may do to the end of a run(): nothing; or one that is not over
\* moves on without a word; or it ends.
LEMMA EndsOnce ==
    ASSUME TypeOK, Next
    PROVE  \/ UNCHANGED <<pc, outcome, answers>>
           \/ \E c \in Calls, where \in {"env", "wait"} :
                 /\ pc[c] # "over"
                 /\ pc' = [pc EXCEPT ![c] = where]
                 /\ UNCHANGED <<outcome, answers>>
           \/ \E c \in Calls, how \in Outcomes : pc[c] # "over" /\ Ends(c, how)
<1>1. ASSUME NEW c \in Calls, Run(c) \/ Executes(c)
      PROVE  \/ \E where \in {"env", "wait"} :
                   /\ pc[c] # "over"
                   /\ pc' = [pc EXCEPT ![c] = where]
                   /\ UNCHANGED <<outcome, answers>>
             \/ \E how \in Outcomes : pc[c] # "over" /\ Ends(c, how)
  BY <1>1 DEF Run, Executes, Outcomes
<1>2. ASSUME NEW c \in Calls, EnvFails(c) \/ Stops(c) \/ TimesOut(c)
      PROVE  \E how \in Outcomes : pc[c] # "over" /\ Ends(c, how)
  BY <1>2 DEF EnvFails, Stops, TimesOut, Outcomes
<1>3. ASSUME NEW c \in Calls, Finishes(c)
      PROVE  \E how \in Outcomes : pc[c] # "over" /\ Ends(c, how)
  BY <1>3 DEF Finishes, TypeOK, Results, Outcomes
<1>4. ASSUME NEW c \in Calls, ThreadStarts(c) \/ ThreadEnds(c) \/ Resolves(c)
      PROVE  UNCHANGED <<pc, outcome, answers>>
  BY <1>4 DEF ThreadStarts, ThreadEnds, Resolves
<1>5. Kill \/ ToCache \/ Cached \/ FromCache \/ Restored
      => UNCHANGED <<pc, outcome, answers>>
  BY DEF Kill, ToCache, Cached, FromCache, Restored
<1> QED BY <1>1, <1>2, <1>3, <1>4, <1>5 DEF Next, RunStep

\* Every run() that answers does so once, when it ends; one that is preempted or
\* rejected leaves the answer to the run() that the queue sends in its stead.
THEOREM AnswersOnce == Spec => []OneAnswer
<1>1. Init => AnswerInv
  BY DEF Init, AnswerInv, SilentUntilOver, OneAnswer, Answering, Outcomes
<1>2. TypeOK /\ AnswerInv /\ [Next]_vars => AnswerInv'
  <2> SUFFICES ASSUME TypeOK, AnswerInv, [Next]_vars PROVE AnswerInv'
    OBVIOUS
  <2>1. CASE UNCHANGED <<pc, outcome, answers>>
    BY <2>1 DEF AnswerInv, SilentUntilOver, OneAnswer
  <2>2. CASE \E c \in Calls, where \in {"env", "wait"} :
                /\ pc[c] # "over"
                /\ pc' = [pc EXCEPT ![c] = where]
                /\ UNCHANGED <<outcome, answers>>
    BY <2>2 DEF TypeOK, AnswerInv, SilentUntilOver, OneAnswer
  <2>3. ASSUME NEW c \in Calls, NEW how \in Outcomes, pc[c] # "over", Ends(c, how)
        PROVE  AnswerInv'
    <3>1. outcome[c] = "none" /\ answers[c] = 0
      BY <2>3 DEF AnswerInv, SilentUntilOver
    <3>2. /\ pc'[c] = "over" /\ outcome'[c] = how
          /\ answers'[c] = IF how \in Answering THEN 1 ELSE 0
      BY <2>3, <3>1 DEF Ends, TypeOK
    <3>3. \A d \in Calls \ {c} : /\ pc'[d] = pc[d] /\ outcome'[d] = outcome[d]
                                 /\ answers'[d] = answers[d]
      BY <2>3 DEF Ends, TypeOK
    <3> QED BY <3>2, <3>3 DEF AnswerInv, SilentUntilOver, OneAnswer
  <2> QED BY <2>1, <2>2, <2>3, EndsOnce DEF vars
<1>3. AnswerInv => OneAnswer
  BY DEF AnswerInv
<1> QED BY <1>1, <1>2, <1>3, ActorTypes, PTL DEF Spec
=============================================================================
