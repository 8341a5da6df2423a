------------------------- MODULE QuotaRefreshProofs -------------------------
(***************************************************************************)
(* Quotas and refusals in accounts.json are in order, for any refreshes of *)
(* any accounts by any programs.  One lemma per conjunct of QuotaInv, with *)
(* one step per action.                                                    *)
(***************************************************************************)
EXTENDS QuotaRefresh, FiniteSetTheorems, TLAPS

USE DEF At, Goto, In, world, disk, reads, EndReading, EndSaving, Answered, NoteProject

\* What a refresh reads is a finite set of accounts, and it has a program.
LEMMA Plan ==
  ASSUME TypeOK, NEW r \in Refreshes
  PROVE  /\ plan[r].program \in Programs
         /\ plan[r].due \subseteq Accounts
         /\ IsFiniteSet(plan[r].due)
         /\ Cardinality(plan[r].due) \in Nat
<1>1. plan[r].program \in Programs /\ plan[r].due \subseteq Accounts
  BY Parameters DEF TypeOK
<1>2. IsFiniteSet(plan[r].due)
  BY <1>1, Parameters, FS_Subset
<1> QED
  BY <1>1, <1>2, FS_CardinalityType

\* The work at hand of a refresh is finite.
LEMMA Work ==
  ASSUME TypeOK, NEW r \in Refreshes
  PROVE  /\ \A s : In(r, s) \subseteq plan[r].due /\ IsFiniteSet(In(r, s))
         /\ Busy(r) \subseteq plan[r].due
         /\ IsFiniteSet(Busy(r))
         /\ Cardinality(Busy(r)) \in Nat
<1>1. Busy(r) \subseteq plan[r].due /\ \A s : In(r, s) \subseteq plan[r].due
  BY DEF Busy
<1>2. IsFiniteSet(Busy(r)) /\ \A s : IsFiniteSet(In(r, s))
  BY <1>1, Plan, FS_Subset
<1> QED
  BY <1>1, <1>2, FS_CardinalityType

\* The steps of a refresh but those in which it gets an answer.
Works(r) ==
  \/ Begin(r) \/ BeginNothing(r) \/ WorkerExits(r) \/ ResultsEnd(r)
  \/ Save(r) \/ SaveConflict(r) \/ NothingToSave(r)
  \/ \E a \in Accounts :
       TakeJob(r, a) \/ Collect(r, a) \/ UseToken(r, a) \/ RememberProject(r, a) \/ ForgetProject(r, a)

\* The steps in which a refresh gets an answer.
Asks(r, a) ==
  \/ TokenFails(r, a) \/ LoadProject(r, a) \/ LoadFails(r, a)
  \/ Summarize(r, a) \/ SummaryFails(r, a)

-----------------------------------------------------------------------------
(* Answers *)

\* An answer tells what Google says now, or the request failed.
LEMMA Asking ==
  ASSUME QuotaInv, NEW r \in Refreshes, NEW a \in Accounts, Asks(r, a)
  PROVE  \E kind \in Kinds, at \in Word, next \in {"summary", "answered", "result"} :
           /\ At(r, a, "token") \/ At(r, a, "project") \/ At(r, a, "summary")
           /\ Answered(r, a, kind, at, next)
           /\ \/ at = moment
              \/ kind \in {"credentials", "network"} /\ at = Never
              \/ kind = "assumed" /\ at = answer[r][a].at /\ stage[r][a] = "summary"
           /\ next = "summary" => kind = "none"
<1>1. moment \in Word /\ Never \in Word /\ answer[r][a].at \in Word
  BY Parameters DEF QuotaInv, TypeOK, Word, Moments, Answer
<1>2. CASE TokenFails(r, a)
  BY <1>1, <1>2, Zenon DEF TokenFails, Kinds
<1>3. CASE LoadProject(r, a)
  BY <1>1, <1>3, Zenon DEF LoadProject, Kinds
<1>4. CASE LoadFails(r, a)
  BY <1>1, <1>4, Zenon DEF LoadFails, Kinds
<1>5. CASE Summarize(r, a)
  BY <1>1, <1>5, Zenon DEF Summarize, Kinds
<1>6. CASE SummaryFails(r, a)
  BY <1>1, <1>6, Zenon DEF SummaryFails, Kinds
<1> QED
  BY <1>2, <1>3, <1>4, <1>5, <1>6 DEF Asks

\* No answer breaks the invariant.
LEMMA AskingKeeps ==
  ASSUME QuotaInv, NEW r \in Refreshes, NEW a \in Accounts, Asks(r, a)
  PROVE  QuotaInv'
<1>1. PICK kind \in Kinds, at \in Word, next \in {"summary", "answered", "result"} :
           /\ At(r, a, "token") \/ At(r, a, "project") \/ At(r, a, "summary")
           /\ Answered(r, a, kind, at, next)
           /\ \/ at = moment
              \/ kind \in {"credentials", "network"} /\ at = Never
              \/ kind = "assumed" /\ at = answer[r][a].at /\ stage[r][a] = "summary"
           /\ next = "summary" => kind = "none"
  BY Asking
<1>2. TypeOK'
  <2>1. [kind |-> kind, at |-> at] \in Answer
    BY DEF Answer
  <2>2. answer' \in [Refreshes -> [Accounts -> Answer]]
    BY <1>1, <2>1 DEF QuotaInv, TypeOK
  <2>3. stage' \in [Refreshes -> [Accounts -> Stages]]
    BY <1>1 DEF QuotaInv, TypeOK, Stages
  <2> QED
    BY <1>1, <2>2, <2>3 DEF QuotaInv, TypeOK
<1>3. \A q \in Refreshes, b \in Accounts : q # r \/ b # a =>
        answer'[q][b] = answer[q][b] /\ stage'[q][b] = stage[q][b]
  BY <1>1 DEF QuotaInv, TypeOK
<1>4. /\ answer'[r][a].kind = kind /\ answer'[r][a].at = at /\ stage'[r][a] = next
      /\ UNCHANGED <<plan, google, moment, doc, revision, projects, pc, loaded, remembered, workers>>
  BY <1>1 DEF QuotaInv, TypeOK
<1>5. at <= moment
  BY <1>1, Parameters DEF QuotaInv, TypeOK, InTime, Moments, Never
<1>6. InTime'
  BY <1>3, <1>4, <1>5 DEF QuotaInv, InTime
<1>7. NoAnswerYet'
  BY <1>1, <1>3, <1>4 DEF QuotaInv, NoAnswerYet
<1>8. HoldsAnswers'
  <2> SUFFICES ASSUME NEW q \in Refreshes, Current(q), NEW b \in Accounts
               PROVE  (loaded[q].doc[b] =
                 IF b \in plan[q].due /\ stage[q][b] = "handled"
                   THEN Updated(doc[b], answer[q][b]) ELSE doc[b])'
    BY <1>4 DEF HoldsAnswers, Current
  <2>1. CASE q # r \/ b # a
    BY <1>3, <1>4, <2>1 DEF QuotaInv, HoldsAnswers
  <2>2. CASE q = r /\ b = a
    BY <1>1, <1>4, <2>2 DEF QuotaInv, HoldsAnswers
  <2> QED
    BY <2>1, <2>2
<1>9. HeardSince'
  <2> SUFFICES ASSUME NEW q \in Refreshes, NEW b \in Accounts, Current(q), Heard(q, b)'
               PROVE  doc[b].verdictAt <= answer'[q][b].at /\ doc[b].quotaAt <= answer'[q][b].at
    BY <1>4 DEF HeardSince, Current
  <2>1. CASE q # r \/ b # a
    BY <1>3, <1>4, <2>1 DEF QuotaInv, HeardSince, Heard
  <2>2. CASE q = r /\ b = a
    <3>1. CASE at = moment
      BY <1>4, <2>2, <3>1 DEF QuotaInv, InTime
    <3>2. CASE kind \in {"credentials", "network"}
      BY <1>4, <2>2, <3>2 DEF Heard
    <3>3. CASE kind = "assumed" /\ at = answer[r][a].at /\ stage[r][a] = "summary"
      BY <1>4, <2>2, <3>3 DEF QuotaInv, HeardSince, Heard, NoAnswerYet
    <3> QED
      BY <1>1, <3>1, <3>2, <3>3
  <2> QED
    BY <2>1, <2>2
<1>10. WorkersLeft'
  <2> SUFFICES ASSUME NEW q \in Refreshes, pc[q] = "read"
               PROVE  /\ Cardinality(Busy(q)') <= workers[q]
                      /\ workers[q] = 0 => In(q, "waiting")' = {}
    BY <1>4 DEF WorkersLeft
  <2>1. Busy(q)' \subseteq Busy(q) /\ In(q, "waiting")' \subseteq In(q, "waiting")
    BY <1>1, <1>3, <1>4, Plan DEF QuotaInv, Busy
  <2>2. Cardinality(Busy(q)') <= Cardinality(Busy(q)) /\ Cardinality(Busy(q)') \in Nat
    BY <2>1, Work, FS_Subset, FS_CardinalityType DEF QuotaInv
  <2> QED
    BY <2>1, <2>2, Work DEF QuotaInv, TypeOK, WorkersLeft
<1>11. AllAnswersTaken'
  BY <1>1, <1>3, <1>4, Plan DEF QuotaInv, AllAnswersTaken
<1> QED
  BY <1>2, <1>6, <1>7, <1>8, <1>9, <1>10, <1>11 DEF QuotaInv

-----------------------------------------------------------------------------
(* The other steps of a refresh *)

\* Every step of a refresh keeps the types.
LEMMA TypeOKStays ==
  ASSUME QuotaInv, NEW r \in Refreshes, Works(r)
  PROVE  TypeOK'
<1>1. CASE Begin(r)
  BY <1>1, Parameters, Plan DEF Begin, QuotaInv, TypeOK, Record, Word,
     Moments, Never, Answer, Kinds, Stages, Final, Unknown, NoAnswer,
     NotLoaded, NotRead
<1>2. CASE BeginNothing(r)
  BY <1>2, Parameters, Plan DEF BeginNothing, QuotaInv, TypeOK, Record, Word,
     Moments, Never, Answer, Kinds, Stages, Final, Unknown, NoAnswer,
     NotLoaded, NotRead
<1>3. CASE WorkerExits(r)
  <2>1. workers[r] > 0
    BY <1>3, Work DEF WorkerExits, QuotaInv, TypeOK
  <2> QED
    BY <1>3, <2>1, Parameters DEF WorkerExits, QuotaInv, TypeOK
<1>4. CASE ResultsEnd(r)
  BY <1>4, Parameters, Plan DEF ResultsEnd, QuotaInv, TypeOK, Record, Word,
     Moments, Never, Answer, Kinds, Stages, Final, Unknown, NoAnswer,
     NotLoaded, NotRead
<1>5. CASE Save(r)
  BY <1>5, Parameters, Plan DEF Save, QuotaInv, TypeOK, Record, Word, Moments,
     Never, Answer, Kinds, Stages, Final, Unknown, NoAnswer, NotLoaded,
     NotRead
<1>6. CASE SaveConflict(r)
  BY <1>6, Parameters, Plan DEF SaveConflict, QuotaInv, TypeOK, Record, Word,
     Moments, Never, Answer, Kinds, Stages, Final, Unknown, NoAnswer,
     NotLoaded, NotRead
<1>7. CASE NothingToSave(r)
  BY <1>7, Parameters, Plan DEF NothingToSave, QuotaInv, TypeOK, Record, Word,
     Moments, Never, Answer, Kinds, Stages, Final, Unknown, NoAnswer,
     NotLoaded, NotRead
<1>8. ASSUME NEW a \in Accounts, TakeJob(r, a) PROVE TypeOK'
  BY <1>8, Parameters, Plan DEF TakeJob, QuotaInv, TypeOK, Record, Word,
     Moments, Never, Answer, Kinds, Stages, Final, Unknown, NoAnswer,
     NotLoaded, NotRead
<1>9. ASSUME NEW a \in Accounts, Collect(r, a) PROVE TypeOK'
  <2>1. loaded[r].doc \in [Accounts -> Record] /\ answer[r][a] \in Answer
    BY DEF QuotaInv, TypeOK
  <2>2. Updated(loaded[r].doc[a], answer[r][a]) \in Record
    BY <2>1 DEF Updated, LastWord, Record, Answer
  <2>4. loaded' \in [Refreshes -> [doc: [Accounts -> Record], revision: Nat, changed: BOOLEAN]]
    BY <1>9, <2>1, <2>2 DEF Collect, QuotaInv, TypeOK
  <2> QED
    BY <1>9, <2>4 DEF Collect, QuotaInv, TypeOK, Stages
<1>10. ASSUME NEW a \in Accounts, UseToken(r, a) PROVE TypeOK'
  <2>1. projects[plan[r].program][a] \in Word
    BY Plan DEF QuotaInv, TypeOK
  <2>2. \A x \in Answer : [x EXCEPT !.at = projects[plan[r].program][a]] \in Answer
    BY <2>1 DEF Answer
  <2>3. answer' \in [Refreshes -> [Accounts -> Answer]]
    BY <1>10, <2>2 DEF UseToken, QuotaInv, TypeOK
  <2> QED
    BY <1>10, <2>3 DEF UseToken, QuotaInv, TypeOK, Stages
<1>11. ASSUME NEW a \in Accounts, RememberProject(r, a) PROVE TypeOK'
  BY <1>11, Parameters, Plan DEF RememberProject, QuotaInv, TypeOK, Record,
     Word, Moments, Never, Answer, Kinds, Stages, Final, Unknown, NoAnswer,
     NotLoaded, NotRead
<1>12. ASSUME NEW a \in Accounts, ForgetProject(r, a) PROVE TypeOK'
  BY <1>12, Parameters, Plan DEF ForgetProject, QuotaInv, TypeOK, Record,
     Word, Moments, Never, Answer, Kinds, Stages, Final, Unknown, NoAnswer,
     NotLoaded, NotRead
<1> QED
  BY <1>1, <1>2, <1>3, <1>4, <1>5, <1>6, <1>7, <1>8, <1>9, <1>10, <1>11, <1>12
     DEF Works

\* Every step of a refresh leaves words that are not from the future.
LEMMA InTimeStays ==
  ASSUME QuotaInv, NEW r \in Refreshes, Works(r)
  PROVE  InTime'
<1>1. CASE Begin(r)
  BY <1>1, Parameters, Plan DEF Begin, QuotaInv, TypeOK, InTime, Word,
     Moments, Never, Record, Answer, NoAnswer, NotLoaded, NotRead
<1>2. CASE BeginNothing(r)
  BY <1>2, Parameters, Plan DEF BeginNothing, QuotaInv, TypeOK, InTime, Word,
     Moments, Never, Record, Answer, NoAnswer, NotLoaded, NotRead
<1>3. CASE WorkerExits(r)
  BY <1>3, Parameters, Plan DEF WorkerExits, QuotaInv, TypeOK, InTime, Word,
     Moments, Never, Record, Answer, NoAnswer, NotLoaded, NotRead
<1>4. CASE ResultsEnd(r)
  BY <1>4, Parameters, Plan DEF ResultsEnd, QuotaInv, TypeOK, InTime, Word,
     Moments, Never, Record, Answer, NoAnswer, NotLoaded, NotRead
<1>5. CASE Save(r)
  <2>1. doc' = loaded[r].doc /\ UNCHANGED <<moment, projects>> /\ revision' = revision + 1
    BY <1>5 DEF Save
  <2>2. \A a \in Accounts : doc'[a].verdictAt <= moment /\ doc'[a].quotaAt <= moment
    <3> SUFFICES ASSUME NEW a \in Accounts
                 PROVE  loaded[r].doc[a].verdictAt <= moment /\ loaded[r].doc[a].quotaAt <= moment
      BY <2>1
    <3>1. loaded[r].doc[a] = doc[a] \/ loaded[r].doc[a] = Updated(doc[a], answer[r][a])
      BY <1>5 DEF Save, QuotaInv, HoldsAnswers, Current
    <3>2. /\ Updated(doc[a], answer[r][a]).verdictAt \in {doc[a].verdictAt, answer[r][a].at}
          /\ Updated(doc[a], answer[r][a]).quotaAt \in {doc[a].quotaAt, answer[r][a].at}
      BY DEF Updated, LastWord
    <3> QED
      BY <3>1, <3>2 DEF QuotaInv, InTime
  <2>3. /\ \A q \in Refreshes : loaded'[q].revision <= revision'
        /\ \A q \in Refreshes, a \in Accounts : answer'[q][a].at <= moment
    BY <1>5, <2>1, Parameters DEF Save, QuotaInv, TypeOK, InTime, NotLoaded, NotRead, NoAnswer,
       Never, Moments
  <2> QED
    BY <2>1, <2>2, <2>3 DEF QuotaInv, InTime
<1>6. CASE SaveConflict(r)
  <2>1. UNCHANGED <<doc, moment, projects, revision>>
    BY <1>6 DEF SaveConflict
  <2>2. \A q \in Refreshes : loaded'[q].revision <= revision
    BY <1>6 DEF SaveConflict, QuotaInv, TypeOK, InTime, NotLoaded
  <2>3. \A q \in Refreshes, a \in Accounts : answer'[q][a].at <= moment
    BY <1>6 DEF SaveConflict, QuotaInv, TypeOK, InTime, NotRead, NoAnswer, Never, Moments
  <2> QED
    BY <2>1, <2>2, <2>3 DEF QuotaInv, InTime
<1>7. CASE NothingToSave(r)
  <2>1. UNCHANGED <<doc, moment, projects, revision>>
    BY <1>7 DEF NothingToSave
  <2>2. \A q \in Refreshes : loaded'[q].revision <= revision
    BY <1>7 DEF NothingToSave, QuotaInv, TypeOK, InTime, NotLoaded
  <2>3. \A q \in Refreshes, a \in Accounts : answer'[q][a].at <= moment
    BY <1>7 DEF NothingToSave, QuotaInv, TypeOK, InTime, NotRead, NoAnswer, Never, Moments
  <2> QED
    BY <2>1, <2>2, <2>3 DEF QuotaInv, InTime
<1>8. ASSUME NEW a \in Accounts, TakeJob(r, a) PROVE InTime'
  BY <1>8, Parameters, Plan DEF TakeJob, QuotaInv, TypeOK, InTime, Word,
     Moments, Never, Record, Answer, NoAnswer, NotLoaded, NotRead
<1>9. ASSUME NEW a \in Accounts, Collect(r, a) PROVE InTime'
  BY <1>9, Parameters, Plan DEF Collect, QuotaInv, TypeOK, InTime, Word,
     Moments, Never, Record, Answer, NoAnswer, NotLoaded, NotRead
<1>10. ASSUME NEW a \in Accounts, UseToken(r, a) PROVE InTime'
  BY <1>10, Parameters, Plan DEF UseToken, QuotaInv, TypeOK, InTime, Word,
     Moments, Never, Record, Answer, NoAnswer, NotLoaded, NotRead
<1>11. ASSUME NEW a \in Accounts, RememberProject(r, a) PROVE InTime'
  BY <1>11, Parameters, Plan DEF RememberProject, QuotaInv, TypeOK, InTime,
     Word, Moments, Never, Record, Answer, NoAnswer, NotLoaded, NotRead
<1>12. ASSUME NEW a \in Accounts, ForgetProject(r, a) PROVE InTime'
  BY <1>12, Parameters, Plan DEF ForgetProject, QuotaInv, TypeOK, InTime,
     Word, Moments, Never, Record, Answer, NoAnswer, NotLoaded, NotRead
<1> QED
  BY <1>1, <1>2, <1>3, <1>4, <1>5, <1>6, <1>7, <1>8, <1>9, <1>10, <1>11, <1>12
     DEF Works

\* No read has an answer before its time.
LEMMA NoAnswerYetStays ==
  ASSUME QuotaInv, NEW r \in Refreshes, Works(r)
  PROVE  NoAnswerYet'
<1>1. CASE Begin(r)
  BY <1>1 DEF Begin, QuotaInv, TypeOK, NoAnswerYet, Final, NoAnswer, NotRead
<1>2. CASE BeginNothing(r)
  BY <1>2 DEF BeginNothing, QuotaInv, TypeOK, NoAnswerYet, Final, NoAnswer,
     NotRead
<1>3. CASE WorkerExits(r)
  BY <1>3 DEF WorkerExits, QuotaInv, TypeOK, NoAnswerYet, Final, NoAnswer,
     NotRead
<1>4. CASE ResultsEnd(r)
  BY <1>4 DEF ResultsEnd, QuotaInv, TypeOK, NoAnswerYet, Final, NoAnswer,
     NotRead
<1>5. CASE Save(r)
  BY <1>5 DEF Save, QuotaInv, TypeOK, NoAnswerYet, Final, NoAnswer, NotRead
<1>6. CASE SaveConflict(r)
  BY <1>6 DEF SaveConflict, QuotaInv, TypeOK, NoAnswerYet, Final, NoAnswer,
     NotRead
<1>7. CASE NothingToSave(r)
  BY <1>7 DEF NothingToSave, QuotaInv, TypeOK, NoAnswerYet, Final, NoAnswer,
     NotRead
<1>8. ASSUME NEW a \in Accounts, TakeJob(r, a) PROVE NoAnswerYet'
  BY <1>8 DEF TakeJob, QuotaInv, TypeOK, NoAnswerYet, Final, NoAnswer, NotRead
<1>9. ASSUME NEW a \in Accounts, Collect(r, a) PROVE NoAnswerYet'
  BY <1>9 DEF Collect, QuotaInv, TypeOK, NoAnswerYet, Final, NoAnswer, NotRead
<1>10. ASSUME NEW a \in Accounts, UseToken(r, a) PROVE NoAnswerYet'
  BY <1>10 DEF UseToken, QuotaInv, TypeOK, NoAnswerYet, Final, NoAnswer,
     NotRead
<1>11. ASSUME NEW a \in Accounts, RememberProject(r, a) PROVE NoAnswerYet'
  BY <1>11 DEF RememberProject, QuotaInv, TypeOK, NoAnswerYet, Final,
     NoAnswer, NotRead
<1>12. ASSUME NEW a \in Accounts, ForgetProject(r, a) PROVE NoAnswerYet'
  BY <1>12 DEF ForgetProject, QuotaInv, TypeOK, NoAnswerYet, Final, NoAnswer,
     NotRead
<1> QED
  BY <1>1, <1>2, <1>3, <1>4, <1>5, <1>6, <1>7, <1>8, <1>9, <1>10, <1>11, <1>12
     DEF Works

\* Every refresh still holds accounts.json and its answers, or is out of date.
LEMMA HoldsAnswersStays ==
  ASSUME QuotaInv, NEW r \in Refreshes, Works(r)
  PROVE  HoldsAnswers'
<1>1. CASE Begin(r)
  BY <1>1, Plan DEF Begin, QuotaInv, TypeOK, InTime, NoAnswerYet,
     HoldsAnswers, Current, Final
<1>2. CASE BeginNothing(r)
  BY <1>2, Plan DEF BeginNothing, QuotaInv, TypeOK, InTime, NoAnswerYet,
     HoldsAnswers, Current, Final
<1>3. CASE WorkerExits(r)
  BY <1>3, Plan DEF WorkerExits, QuotaInv, TypeOK, InTime, NoAnswerYet,
     HoldsAnswers, Current, Final
<1>4. CASE ResultsEnd(r)
  BY <1>4, Plan DEF ResultsEnd, QuotaInv, TypeOK, InTime, NoAnswerYet,
     HoldsAnswers, Current, Final
<1>5. CASE Save(r)
  BY <1>5, Plan DEF Save, QuotaInv, TypeOK, InTime, NoAnswerYet, HoldsAnswers,
     Current, Final
<1>6. CASE SaveConflict(r)
  BY <1>6, Plan DEF SaveConflict, QuotaInv, TypeOK, InTime, NoAnswerYet,
     HoldsAnswers, Current, Final
<1>7. CASE NothingToSave(r)
  BY <1>7, Plan DEF NothingToSave, QuotaInv, TypeOK, InTime, NoAnswerYet,
     HoldsAnswers, Current, Final
<1>8. ASSUME NEW a \in Accounts, TakeJob(r, a) PROVE HoldsAnswers'
  BY <1>8, Plan DEF TakeJob, QuotaInv, TypeOK, InTime, NoAnswerYet,
     HoldsAnswers, Current, Final
<1>9. ASSUME NEW a \in Accounts, Collect(r, a) PROVE HoldsAnswers'
  BY <1>9, Plan DEF Collect, QuotaInv, TypeOK, InTime, NoAnswerYet,
     HoldsAnswers, Current, Final
<1>10. ASSUME NEW a \in Accounts, UseToken(r, a) PROVE HoldsAnswers'
  BY <1>10, Plan DEF UseToken, QuotaInv, TypeOK, InTime, NoAnswerYet,
     HoldsAnswers, Current, Final
<1>11. ASSUME NEW a \in Accounts, RememberProject(r, a) PROVE HoldsAnswers'
  BY <1>11, Plan DEF RememberProject, QuotaInv, TypeOK, InTime, NoAnswerYet,
     HoldsAnswers, Current, Final
<1>12. ASSUME NEW a \in Accounts, ForgetProject(r, a) PROVE HoldsAnswers'
  BY <1>12, Plan DEF ForgetProject, QuotaInv, TypeOK, InTime, NoAnswerYet,
     HoldsAnswers, Current, Final
<1> QED
  BY <1>1, <1>2, <1>3, <1>4, <1>5, <1>6, <1>7, <1>8, <1>9, <1>10, <1>11, <1>12
     DEF Works

\* What a read has heard is still no older than accounts.json.
LEMMA HeardSinceStays ==
  ASSUME QuotaInv, NEW r \in Refreshes, Works(r)
  PROVE  HeardSince'
<1>1. CASE Begin(r)
  BY <1>1, Parameters, Plan DEF Begin, QuotaInv, TypeOK, InTime, NoAnswerYet,
     HeardSince, Heard, Current, Final, Record, Word, Never, Moments
<1>2. CASE BeginNothing(r)
  BY <1>2, Parameters, Plan DEF BeginNothing, QuotaInv, TypeOK, InTime,
     NoAnswerYet, HeardSince, Heard, Current, Final, Record, Word, Never,
     Moments
<1>3. CASE WorkerExits(r)
  <2>1. UNCHANGED <<doc, revision, answer, remembered>> /\ \A q \in Refreshes : Current(q)' => Current(q)
    BY <1>3 DEF WorkerExits, Current, QuotaInv, TypeOK
  <2>2. \A q \in Refreshes, b \in Accounts : Heard(q, b)' => Heard(q, b)
    BY <1>3, <2>1 DEF WorkerExits, Heard, QuotaInv, TypeOK
  <2> QED
    BY <2>1, <2>2 DEF QuotaInv, HeardSince
<1>4. CASE ResultsEnd(r)
  <2>1. UNCHANGED <<doc, revision, answer, remembered>> /\ \A q \in Refreshes : Current(q)' => Current(q)
    BY <1>4 DEF ResultsEnd, Current, QuotaInv, TypeOK
  <2>2. \A q \in Refreshes, b \in Accounts : Heard(q, b)' => Heard(q, b)
    BY <1>4, <2>1 DEF ResultsEnd, Heard, QuotaInv, TypeOK
  <2> QED
    BY <2>1, <2>2 DEF QuotaInv, HeardSince
<1>5. CASE Save(r)
  <2>1. \A q \in Refreshes : Current(q)' => q # r /\ Current(q) /\ UNCHANGED doc
    BY <1>5 DEF Save, QuotaInv, TypeOK, InTime, Current, Final
  <2>2. \A q \in Refreshes : q # r =>
          UNCHANGED <<stage[q], answer[q], remembered[q]>>
    BY <1>5 DEF Save, QuotaInv, TypeOK
  <2> QED
    BY <2>1, <2>2 DEF QuotaInv, HeardSince, Heard
<1>6. CASE SaveConflict(r)
  <2>1. \A q \in Refreshes : Current(q)' => q # r /\ Current(q) /\ UNCHANGED doc
    BY <1>6 DEF SaveConflict, QuotaInv, TypeOK, InTime, Current, Final
  <2>2. \A q \in Refreshes : q # r =>
          UNCHANGED <<stage[q], answer[q], remembered[q]>>
    BY <1>6 DEF SaveConflict, QuotaInv, TypeOK
  <2> QED
    BY <2>1, <2>2 DEF QuotaInv, HeardSince, Heard
<1>7. CASE NothingToSave(r)
  <2>1. \A q \in Refreshes : Current(q)' => q # r /\ Current(q) /\ UNCHANGED doc
    BY <1>7 DEF NothingToSave, QuotaInv, TypeOK, InTime, Current, Final
  <2>2. \A q \in Refreshes : q # r =>
          UNCHANGED <<stage[q], answer[q], remembered[q]>>
    BY <1>7 DEF NothingToSave, QuotaInv, TypeOK
  <2> QED
    BY <2>1, <2>2 DEF QuotaInv, HeardSince, Heard
<1>8. ASSUME NEW a \in Accounts, TakeJob(r, a) PROVE HeardSince'
  <2>1. UNCHANGED <<doc, revision, answer, remembered>> /\ \A q \in Refreshes : Current(q)' => Current(q)
    BY <1>8 DEF TakeJob, Current, QuotaInv, TypeOK
  <2>2. \A q \in Refreshes, b \in Accounts : Heard(q, b)' => Heard(q, b)
    BY <1>8, <2>1 DEF TakeJob, Heard, QuotaInv, TypeOK
  <2> QED
    BY <2>1, <2>2 DEF QuotaInv, HeardSince
<1>9. ASSUME NEW a \in Accounts, Collect(r, a) PROVE HeardSince'
  <2>1. UNCHANGED <<doc, revision, answer, remembered>> /\ \A q \in Refreshes : Current(q)' => Current(q)
    BY <1>9 DEF Collect, Current, QuotaInv, TypeOK
  <2>2. \A q \in Refreshes, b \in Accounts : Heard(q, b)' => Heard(q, b)
    BY <1>9, <2>1 DEF Collect, Heard, QuotaInv, TypeOK
  <2> QED
    BY <2>1, <2>2 DEF QuotaInv, HeardSince
<1>10. ASSUME NEW a \in Accounts, UseToken(r, a) PROVE HeardSince'
  <2>1. \A q \in Refreshes, b \in Accounts :
          /\ answer'[q][b].kind = answer[q][b].kind
          /\ q # r \/ b # a => UNCHANGED <<stage[q][b], answer[q][b], remembered[q][b]>>
    BY <1>10 DEF UseToken, QuotaInv, TypeOK
  <2>2. answer[r][a].kind = "none"
    BY <1>10 DEF UseToken, QuotaInv, NoAnswerYet
  <2>3. stage'[r][a] = "project" \/ (stage'[r][a] = "summary" /\ remembered'[r][a])
    <3>1. CASE projects[plan[r].program][a] = Never
      <4>1. stage' = [stage EXCEPT ![r][a] = "project"]
        BY <1>10, <3>1 DEF UseToken
      <4>2. stage'[r][a] = "project"
        BY <4>1 DEF QuotaInv, TypeOK
      <4> QED
        BY <4>2
    <3>2. CASE projects[plan[r].program][a] # Never
      <4>1. remembered' = [remembered EXCEPT ![r][a] = TRUE]
        BY <1>10, <3>2 DEF UseToken
      <4> QED
        BY <1>10, <3>2, <4>1 DEF UseToken, QuotaInv, TypeOK
    <3> QED
      BY <3>1, <3>2
  <2>4. ~Heard(r, a)'
    BY <2>1, <2>2, <2>3 DEF Heard
  <2>5. UNCHANGED <<pc, loaded, revision, doc>>
    BY <1>10 DEF UseToken
  <2>6. \A q \in Refreshes, b \in Accounts :
          q # r \/ b # a => (Heard(q, b)' <=> Heard(q, b))
    BY <2>1 DEF Heard
  <2> QED
    BY <2>1, <2>4, <2>5, <2>6 DEF QuotaInv, HeardSince, Current
<1>11. ASSUME NEW a \in Accounts, RememberProject(r, a) PROVE HeardSince'
  <2>1. UNCHANGED <<doc, revision, answer, remembered>> /\ \A q \in Refreshes : Current(q)' => Current(q)
    BY <1>11 DEF RememberProject, Current, QuotaInv, TypeOK
  <2>2. \A q \in Refreshes, b \in Accounts : Heard(q, b)' => Heard(q, b)
    BY <1>11, <2>1 DEF RememberProject, Heard, QuotaInv, TypeOK
  <2> QED
    BY <2>1, <2>2 DEF QuotaInv, HeardSince
<1>12. ASSUME NEW a \in Accounts, ForgetProject(r, a) PROVE HeardSince'
  <2>1. UNCHANGED <<doc, revision, answer, remembered>> /\ \A q \in Refreshes : Current(q)' => Current(q)
    BY <1>12 DEF ForgetProject, Current, QuotaInv, TypeOK
  <2>2. \A q \in Refreshes, b \in Accounts : Heard(q, b)' => Heard(q, b)
    BY <1>12, <2>1 DEF ForgetProject, Heard, QuotaInv, TypeOK
  <2> QED
    BY <2>1, <2>2 DEF QuotaInv, HeardSince
<1> QED
  BY <1>1, <1>2, <1>3, <1>4, <1>5, <1>6, <1>7, <1>8, <1>9, <1>10, <1>11, <1>12
     DEF Works

\* Nothing is saved before all answers are taken.
LEMMA AllAnswersTakenStays ==
  ASSUME QuotaInv, NEW r \in Refreshes, Works(r)
  PROVE  AllAnswersTaken'
<1>1. CASE Begin(r)
  BY <1>1, Plan DEF Begin, QuotaInv, TypeOK, AllAnswersTaken, Final
<1>2. CASE BeginNothing(r)
  BY <1>2, Plan DEF BeginNothing, QuotaInv, TypeOK, AllAnswersTaken, Final
<1>3. CASE WorkerExits(r)
  BY <1>3, Plan DEF WorkerExits, QuotaInv, TypeOK, AllAnswersTaken, Final
<1>4. CASE ResultsEnd(r)
  <2>1. Busy(r) = {} /\ In(r, "waiting") = {}
    BY <1>4, Work, FS_EmptySet DEF ResultsEnd, QuotaInv, WorkersLeft
  <2>2. \A a \in plan[r].due : stage[r][a] = "handled"
    BY <1>4, <2>1, Plan DEF ResultsEnd, Busy, QuotaInv, TypeOK, Stages
  <2> QED
    BY <1>4, <2>2 DEF ResultsEnd, QuotaInv, TypeOK, AllAnswersTaken
<1>5. CASE Save(r)
  BY <1>5, Plan DEF Save, QuotaInv, TypeOK, AllAnswersTaken, Final
<1>6. CASE SaveConflict(r)
  BY <1>6, Plan DEF SaveConflict, QuotaInv, TypeOK, AllAnswersTaken, Final
<1>7. CASE NothingToSave(r)
  BY <1>7, Plan DEF NothingToSave, QuotaInv, TypeOK, AllAnswersTaken, Final
<1>8. ASSUME NEW a \in Accounts, TakeJob(r, a) PROVE AllAnswersTaken'
  BY <1>8, Plan DEF TakeJob, QuotaInv, TypeOK, AllAnswersTaken, Final
<1>9. ASSUME NEW a \in Accounts, Collect(r, a) PROVE AllAnswersTaken'
  BY <1>9, Plan DEF Collect, QuotaInv, TypeOK, AllAnswersTaken, Final
<1>10. ASSUME NEW a \in Accounts, UseToken(r, a) PROVE AllAnswersTaken'
  BY <1>10, Plan DEF UseToken, QuotaInv, TypeOK, AllAnswersTaken, Final
<1>11. ASSUME NEW a \in Accounts, RememberProject(r, a) PROVE AllAnswersTaken'
  BY <1>11, Plan DEF RememberProject, QuotaInv, TypeOK, AllAnswersTaken, Final
<1>12. ASSUME NEW a \in Accounts, ForgetProject(r, a) PROVE AllAnswersTaken'
  BY <1>12, Plan DEF ForgetProject, QuotaInv, TypeOK, AllAnswersTaken, Final
<1> QED
  BY <1>1, <1>2, <1>3, <1>4, <1>5, <1>6, <1>7, <1>8, <1>9, <1>10, <1>11, <1>12
     DEF Works

\* Whoever waits or is asked about has a worker.
LEMMA WorkersLeftStays ==
  ASSUME QuotaInv, NEW r \in Refreshes, Works(r)
  PROVE  WorkersLeft'
<1>1. CASE Begin(r)
  <2>1. ASSUME NEW q \in Refreshes, q # r, (pc[q] = "read")'
        PROVE  /\ Cardinality(Busy(q)') <= workers'[q]
               /\ workers'[q] = 0 => In(q, "waiting")' = {}
    <3>1. pc[q] = "read" /\ UNCHANGED <<plan, stage[q], workers[q]>>
      BY <1>1, <2>1 DEF Begin, QuotaInv, TypeOK
    <3>2. Busy(q)' = Busy(q) /\ In(q, "waiting")' = In(q, "waiting")
      BY <3>1 DEF Busy
    <3> QED
      BY <3>1, <3>2 DEF QuotaInv, WorkersLeft
  <2>2. (Busy(r) = {})'
    BY <1>1, Plan DEF Begin, Busy, QuotaInv, TypeOK, NoAnswerYet
  <2>3. workers'[r] \in Nat \ {0}
    BY <1>1, Plan, FS_EmptySet, Parameters DEF Begin, QuotaInv, TypeOK
  <2> QED
    BY <2>1, <2>2, <2>3, FS_EmptySet DEF WorkersLeft
<1>2. CASE BeginNothing(r)
  BY <1>2, Plan DEF BeginNothing, QuotaInv, TypeOK, WorkersLeft, Busy, Final
<1>3. CASE WorkerExits(r)
  <2>1. ASSUME NEW q \in Refreshes, q # r, (pc[q] = "read")'
        PROVE  /\ Cardinality(Busy(q)') <= workers'[q]
               /\ workers'[q] = 0 => In(q, "waiting")' = {}
    <3>1. pc[q] = "read" /\ UNCHANGED <<plan, stage[q], workers[q]>>
      BY <1>3, <2>1 DEF WorkerExits, QuotaInv, TypeOK
    <3>2. Busy(q)' = Busy(q) /\ In(q, "waiting")' = In(q, "waiting")
      BY <3>1 DEF Busy
    <3> QED
      BY <3>1, <3>2 DEF QuotaInv, WorkersLeft
  <2>2. (Busy(r))' = Busy(r) /\ In(r, "waiting")' = {}
    BY <1>3 DEF WorkerExits, Busy
  <2>3. workers'[r] = workers[r] - 1 /\ Cardinality(Busy(r)) < workers[r]
    BY <1>3 DEF WorkerExits, QuotaInv, TypeOK
  <2>4. Cardinality(Busy(r)) <= workers'[r]
    BY <2>3, Work DEF QuotaInv, TypeOK
  <2> QED
    BY <2>1, <2>2, <2>4 DEF WorkersLeft
<1>4. CASE ResultsEnd(r)
  BY <1>4, Plan DEF ResultsEnd, QuotaInv, TypeOK, WorkersLeft, Busy, Final
<1>5. CASE Save(r)
  BY <1>5, Plan DEF Save, QuotaInv, TypeOK, WorkersLeft, Busy, Final
<1>6. CASE SaveConflict(r)
  BY <1>6, Plan DEF SaveConflict, QuotaInv, TypeOK, WorkersLeft, Busy, Final
<1>7. CASE NothingToSave(r)
  BY <1>7, Plan DEF NothingToSave, QuotaInv, TypeOK, WorkersLeft, Busy, Final
<1>8. ASSUME NEW a \in Accounts, TakeJob(r, a) PROVE WorkersLeft'
  <2>1. ASSUME NEW q \in Refreshes, q # r, (pc[q] = "read")'
        PROVE  /\ Cardinality(Busy(q)') <= workers'[q]
               /\ workers'[q] = 0 => In(q, "waiting")' = {}
    <3>1. pc[q] = "read" /\ UNCHANGED <<plan, stage[q], workers[q]>>
      BY <1>8, <2>1 DEF TakeJob, QuotaInv, TypeOK
    <3>2. Busy(q)' = Busy(q) /\ In(q, "waiting")' = In(q, "waiting")
      BY <3>1 DEF Busy
    <3> QED
      BY <3>1, <3>2 DEF QuotaInv, WorkersLeft
  <2>2. Busy(r)' = Busy(r) \cup {a} /\ a \notin Busy(r)
    BY <1>8, Plan DEF TakeJob, Busy, QuotaInv, TypeOK
  <2>3. Cardinality(Busy(r)') = Cardinality(Busy(r)) + 1
    BY <2>2, Work, FS_AddElement DEF QuotaInv
  <2>4. workers'[r] = workers[r] /\ Cardinality(Busy(r)) < workers[r]
    BY <1>8 DEF TakeJob
  <2>5. Cardinality(Busy(r)') <= workers'[r] /\ workers'[r] # 0
    BY <2>3, <2>4, Work DEF QuotaInv, TypeOK
  <2> QED
    BY <2>1, <2>5 DEF WorkersLeft
<1>9. ASSUME NEW a \in Accounts, Collect(r, a) PROVE WorkersLeft'
  <2>1. ASSUME NEW q \in Refreshes, q # r, (pc[q] = "read")'
        PROVE  /\ Cardinality(Busy(q)') <= workers'[q]
               /\ workers'[q] = 0 => In(q, "waiting")' = {}
    <3>1. pc[q] = "read" /\ UNCHANGED <<plan, stage[q], workers[q]>>
      BY <1>9, <2>1 DEF Collect, QuotaInv, TypeOK
    <3>2. Busy(q)' = Busy(q) /\ In(q, "waiting")' = In(q, "waiting")
      BY <3>1 DEF Busy
    <3> QED
      BY <3>1, <3>2 DEF QuotaInv, WorkersLeft
  <2>2. Busy(r)' \subseteq Busy(r) /\ In(r, "waiting")' \subseteq In(r, "waiting")
    BY <1>9, Plan DEF Collect, Busy, QuotaInv, TypeOK
  <2>3. Cardinality(Busy(r)') <= Cardinality(Busy(r)) /\ Cardinality(Busy(r)') \in Nat
    BY <2>2, Work, FS_Subset, FS_CardinalityType DEF QuotaInv
  <2>4. pc[r] = "read" /\ workers'[r] = workers[r]
    BY <1>9 DEF Collect
  <2>5. /\ Cardinality(Busy(r)') <= workers'[r]
        /\ workers'[r] = 0 => In(r, "waiting")' = {}
    BY <2>2, <2>3, <2>4, Work DEF QuotaInv, TypeOK, WorkersLeft
  <2> QED
    BY <2>1, <2>5 DEF WorkersLeft
<1>10. ASSUME NEW a \in Accounts, UseToken(r, a) PROVE WorkersLeft'
  <2>1. ASSUME NEW q \in Refreshes, q # r, (pc[q] = "read")'
        PROVE  /\ Cardinality(Busy(q)') <= workers'[q]
               /\ workers'[q] = 0 => In(q, "waiting")' = {}
    <3>1. pc[q] = "read" /\ UNCHANGED <<plan, stage[q], workers[q]>>
      BY <1>10, <2>1 DEF UseToken, QuotaInv, TypeOK
    <3>2. Busy(q)' = Busy(q) /\ In(q, "waiting")' = In(q, "waiting")
      BY <3>1 DEF Busy
    <3> QED
      BY <3>1, <3>2 DEF QuotaInv, WorkersLeft
  <2>2. Busy(r)' \subseteq Busy(r) /\ In(r, "waiting")' \subseteq In(r, "waiting")
    BY <1>10, Plan DEF UseToken, Busy, QuotaInv, TypeOK
  <2>3. Cardinality(Busy(r)') <= Cardinality(Busy(r)) /\ Cardinality(Busy(r)') \in Nat
    BY <2>2, Work, FS_Subset, FS_CardinalityType DEF QuotaInv
  <2>4. pc[r] = "read" /\ workers'[r] = workers[r]
    BY <1>10 DEF UseToken
  <2>5. /\ Cardinality(Busy(r)') <= workers'[r]
        /\ workers'[r] = 0 => In(r, "waiting")' = {}
    BY <2>2, <2>3, <2>4, Work DEF QuotaInv, TypeOK, WorkersLeft
  <2> QED
    BY <2>1, <2>5 DEF WorkersLeft
<1>11. ASSUME NEW a \in Accounts, RememberProject(r, a) PROVE WorkersLeft'
  <2>1. ASSUME NEW q \in Refreshes, q # r, (pc[q] = "read")'
        PROVE  /\ Cardinality(Busy(q)') <= workers'[q]
               /\ workers'[q] = 0 => In(q, "waiting")' = {}
    <3>1. pc[q] = "read" /\ UNCHANGED <<plan, stage[q], workers[q]>>
      BY <1>11, <2>1 DEF RememberProject, QuotaInv, TypeOK
    <3>2. Busy(q)' = Busy(q) /\ In(q, "waiting")' = In(q, "waiting")
      BY <3>1 DEF Busy
    <3> QED
      BY <3>1, <3>2 DEF QuotaInv, WorkersLeft
  <2>2. Busy(r)' \subseteq Busy(r) /\ In(r, "waiting")' \subseteq In(r, "waiting")
    BY <1>11, Plan DEF RememberProject, Busy, QuotaInv, TypeOK
  <2>3. Cardinality(Busy(r)') <= Cardinality(Busy(r)) /\ Cardinality(Busy(r)') \in Nat
    BY <2>2, Work, FS_Subset, FS_CardinalityType DEF QuotaInv
  <2>4. pc[r] = "read" /\ workers'[r] = workers[r]
    BY <1>11 DEF RememberProject
  <2>5. /\ Cardinality(Busy(r)') <= workers'[r]
        /\ workers'[r] = 0 => In(r, "waiting")' = {}
    BY <2>2, <2>3, <2>4, Work DEF QuotaInv, TypeOK, WorkersLeft
  <2> QED
    BY <2>1, <2>5 DEF WorkersLeft
<1>12. ASSUME NEW a \in Accounts, ForgetProject(r, a) PROVE WorkersLeft'
  <2>1. ASSUME NEW q \in Refreshes, q # r, (pc[q] = "read")'
        PROVE  /\ Cardinality(Busy(q)') <= workers'[q]
               /\ workers'[q] = 0 => In(q, "waiting")' = {}
    <3>1. pc[q] = "read" /\ UNCHANGED <<plan, stage[q], workers[q]>>
      BY <1>12, <2>1 DEF ForgetProject, QuotaInv, TypeOK
    <3>2. Busy(q)' = Busy(q) /\ In(q, "waiting")' = In(q, "waiting")
      BY <3>1 DEF Busy
    <3> QED
      BY <3>1, <3>2 DEF QuotaInv, WorkersLeft
  <2>2. Busy(r)' \subseteq Busy(r) /\ In(r, "waiting")' \subseteq In(r, "waiting")
    BY <1>12, Plan DEF ForgetProject, Busy, QuotaInv, TypeOK
  <2>3. Cardinality(Busy(r)') <= Cardinality(Busy(r)) /\ Cardinality(Busy(r)') \in Nat
    BY <2>2, Work, FS_Subset, FS_CardinalityType DEF QuotaInv
  <2>4. pc[r] = "read" /\ workers'[r] = workers[r]
    BY <1>12 DEF ForgetProject
  <2>5. /\ Cardinality(Busy(r)') <= workers'[r]
        /\ workers'[r] = 0 => In(r, "waiting")' = {}
    BY <2>2, <2>3, <2>4, Work DEF QuotaInv, TypeOK, WorkersLeft
  <2> QED
    BY <2>1, <2>5 DEF WorkersLeft
<1> QED
  BY <1>1, <1>2, <1>3, <1>4, <1>5, <1>6, <1>7, <1>8, <1>9, <1>10, <1>11, <1>12
     DEF Works

-----------------------------------------------------------------------------
(* All steps *)

LEMMA InitQuotaInv == Init => QuotaInv
<1> SUFFICES ASSUME Init PROVE QuotaInv
  OBVIOUS
<1>1. TypeOK
  BY Parameters DEF Init, TypeOK, Record, Word, Moments, Never, Answer, Kinds, Stages, Final,
     Unknown, NoAnswer, NotLoaded, NotRead
<1>2. InTime
  <2>1. \A r \in Refreshes, a \in Accounts : answer[r][a] = NoAnswer /\ loaded[r].revision = 0
    BY DEF Init, NotRead, NotLoaded
  <2>2. \A p \in Programs, a \in Accounts : projects[p][a] \in {Never, 1}
    BY DEF Init
  <2>3. \A a \in Accounts : doc[a].verdictAt = 1 /\ doc[a].quotaAt = Never
    BY DEF Init
  <2>4. moment = 1 /\ revision = 0 /\ Never = 0 /\ NoAnswer.at = 0
    BY DEF Init, Never, NoAnswer
  <2>5. \A a \in Accounts : doc[a].verdictAt <= moment /\ doc[a].quotaAt <= moment
    BY <2>3, <2>4
  <2>6. \A p \in Programs, a \in Accounts : projects[p][a] <= moment
    BY <2>2, <2>4
  <2>7. \A r \in Refreshes, a \in Accounts :
          answer[r][a].at <= moment /\ loaded[r].revision <= revision
    BY <2>1, <2>4
  <2>8. \A r \in Refreshes : loaded[r].revision <= revision
    BY <2>4 DEF Init, NotLoaded
  <2> QED
    BY <2>5, <2>6, <2>7, <2>8 DEF InTime
<1>3. NoAnswerYet
  BY DEF Init, NoAnswerYet, NotRead, NoAnswer
<1>4. HoldsAnswers /\ HeardSince /\ WorkersLeft /\ AllAnswersTaken
  BY DEF Init, HoldsAnswers, HeardSince, Current, WorkersLeft, AllAnswersTaken
<1> QED
  BY <1>1, <1>2, <1>3, <1>4 DEF QuotaInv

\* What happens outside a refresh.
LEMMA OutsideKeeps ==
  ASSUME QuotaInv,
         \/ \E p \in Programs, a \in Accounts : ProjectExpires(p, a)
         \/ \E a \in Accounts : GoogleChanges(a)
  PROVE  QuotaInv'
<1>1. UNCHANGED <<plan, doc, revision, pc, loaded, stage, remembered, answer, workers>>
  BY DEF ProjectExpires, GoogleChanges
<1>2. moment \in Moments /\ projects \in [Programs -> [Accounts -> Word]] /\ Moments \subseteq Nat
  BY DEF QuotaInv, TypeOK, Moments
<1>3. /\ moment' \in Moments /\ moment' >= moment
      /\ projects' \in [Programs -> [Accounts -> Word]]
      /\ \A p \in Programs, a \in Accounts : projects'[p][a] \in {projects[p][a], Never}
      /\ google' \in [Accounts -> BOOLEAN]
  <2>1. ASSUME NEW q \in Programs, NEW b \in Accounts, ProjectExpires(q, b)
        PROVE  /\ moment' \in Moments /\ moment' >= moment
               /\ projects' \in [Programs -> [Accounts -> Word]]
               /\ \A p \in Programs, a \in Accounts : projects'[p][a] \in {projects[p][a], Never}
               /\ google' \in [Accounts -> BOOLEAN]
    BY <2>1, <1>2, Parameters DEF ProjectExpires, QuotaInv, TypeOK, Word, Moments
  <2>2. ASSUME NEW b \in Accounts, GoogleChanges(b)
        PROVE  /\ moment' \in Moments /\ moment' >= moment
               /\ projects' \in [Programs -> [Accounts -> Word]]
               /\ \A p \in Programs, a \in Accounts : projects'[p][a] \in {projects[p][a], Never}
               /\ google' \in [Accounts -> BOOLEAN]
    BY <2>2, <1>2, Parameters DEF GoogleChanges, QuotaInv, TypeOK, Moments
  <2> QED
    BY <2>1, <2>2
<1>4. TypeOK'
  BY <1>1, <1>3 DEF QuotaInv, TypeOK
<1>5. InTime'
  <2>1. \A a \in Accounts : doc[a].verdictAt \in Word /\ doc[a].quotaAt \in Word
    BY DEF QuotaInv, TypeOK, Record
  <2>2. \A r \in Refreshes, a \in Accounts : answer[r][a].at \in Word
    BY DEF QuotaInv, TypeOK, Answer
  <2>3. Word \subseteq Nat /\ Never = 0
    BY <1>2 DEF Word, Never
  <2>4. moment \in Nat /\ moment' \in Nat /\ moment' >= moment
    BY <1>2, <1>3
  <2>5. ASSUME NEW n \in Nat, n <= moment PROVE n <= moment'
    BY <2>4, <2>5
  <2>6. (\A a \in Accounts : doc[a].verdictAt <= moment /\ doc[a].quotaAt <= moment)'
    BY <1>1, <2>1, <2>3, <2>5 DEF QuotaInv, InTime
  <2>7. ASSUME NEW p \in Programs, NEW a \in Accounts PROVE projects'[p][a] <= moment'
    <3>1. projects[p][a] \in Nat /\ projects[p][a] <= moment
      BY <1>2, <2>3 DEF QuotaInv, InTime
    <3>2. projects'[p][a] \in {projects[p][a], 0}
      BY <1>3, <2>3
    <3> QED
      BY <2>4, <3>1, <3>2
  <2>8. (\A r \in Refreshes : loaded[r].revision <= revision)'
    BY <1>1 DEF QuotaInv, InTime
  <2>9. (\A r \in Refreshes, a \in Accounts : answer[r][a].at <= moment)'
    BY <1>1, <2>2, <2>3, <2>5 DEF QuotaInv, InTime
  <2> QED
    BY <2>6, <2>7, <2>8, <2>9 DEF InTime
<1>6. (NoAnswerYet /\ HoldsAnswers /\ HeardSince /\ WorkersLeft /\ AllAnswersTaken)'
  BY <1>1 DEF QuotaInv, NoAnswerYet, HoldsAnswers, HeardSince, Heard, Current, Updated, LastWord, Clears,
     WorkersLeft, Busy, AllAnswersTaken
<1> QED
  BY <1>4, <1>5, <1>6 DEF QuotaInv

LEMMA NextQuotaInv == QuotaInv /\ [Next]_vars => QuotaInv'
<1> SUFFICES ASSUME QuotaInv, [Next]_vars PROVE QuotaInv'
  OBVIOUS
<1>1. ASSUME NEW r \in Refreshes, Works(r) PROVE QuotaInv'
  BY <1>1, TypeOKStays, InTimeStays, NoAnswerYetStays, HoldsAnswersStays, HeardSinceStays,
     WorkersLeftStays, AllAnswersTakenStays DEF QuotaInv
<1>2. ASSUME NEW r \in Refreshes, NEW a \in Accounts, Asks(r, a) PROVE QuotaInv'
  BY <1>2, AskingKeeps
<1>3. ASSUME NEW r \in Refreshes, Step(r) PROVE Works(r) \/ \E a \in Accounts : Asks(r, a)
  BY <1>3 DEF Step, Works, Asks
<1>4. CASE UNCHANGED vars
  <2>1. UNCHANGED <<plan, google, moment, doc, revision, projects, pc, loaded, stage, remembered,
                    answer, workers>>
    BY <1>4 DEF vars
  <2>2. TypeOK'
    BY <2>1 DEF QuotaInv, TypeOK
  <2>3. (InTime /\ NoAnswerYet /\ HoldsAnswers /\ HeardSince)'
    BY <2>1 DEF QuotaInv, InTime, NoAnswerYet, HoldsAnswers, HeardSince, Heard, Current,
       Updated, LastWord, Clears
  <2>4. (WorkersLeft /\ AllAnswersTaken)'
    BY <2>1 DEF QuotaInv, WorkersLeft, Busy, AllAnswersTaken
  <2> QED
    BY <2>2, <2>3, <2>4 DEF QuotaInv
<1> QED
  BY <1>1, <1>2, <1>3, <1>4, OutsideKeeps DEF Next, AllEnded

\* The invariant of the refreshes, for any number of them.
THEOREM Invariant == Spec => []QuotaInv
  BY InitQuotaInv, NextQuotaInv, PTL DEF Spec

\* A refresh saves only when every account it set out to read has been answered
\* and its answer taken (refreshWhere, closing of the results).
THEOREM AnswersTaken == Spec => []AllAnswersTaken
<1>1. QuotaInv => AllAnswersTaken
  BY DEF QuotaInv
<1> QED
  BY <1>1, Invariant, PTL

\* What a save does to an account.
LEMMA Saving ==
  ASSUME QuotaInv, [Next]_vars, NEW a \in Accounts, doc'[a] # doc[a]
  PROVE  \E r \in Refreshes :
           /\ Saves(r)
           /\ a \in plan[r].due /\ stage[r][a] = "handled"
           /\ Current(r) /\ doc'[a] = Updated(doc[a], answer[r][a])
<1>1. PICK r \in Refreshes : Save(r)
  <2>1. ASSUME NEW r \in Refreshes, Works(r), ~Save(r) PROVE UNCHANGED doc
    BY <2>1 DEF Works, Begin, BeginNothing, WorkerExits, ResultsEnd, SaveConflict,
       NothingToSave, TakeJob, Collect, UseToken, RememberProject, ForgetProject
  <2>2. ASSUME NEW r \in Refreshes, NEW b \in Accounts, Asks(r, b) PROVE UNCHANGED doc
    BY <2>2, Asking
  <2>3. ASSUME NEW r \in Refreshes, Step(r) PROVE Works(r) \/ \E b \in Accounts : Asks(r, b)
    BY <2>3 DEF Step, Works, Asks
  <2>4. ASSUME NEW b \in Accounts, GoogleChanges(b) \/ \E p \in Programs : ProjectExpires(p, b)
        PROVE  UNCHANGED doc
    BY <2>4 DEF GoogleChanges, ProjectExpires
  <2>5. CASE UNCHANGED vars
    BY <2>5 DEF vars
  <2> QED
    BY <2>1, <2>2, <2>3, <2>4, <2>5 DEF Next, AllEnded
<1>2. Saves(r) /\ Current(r) /\ doc' = loaded[r].doc
  BY <1>1 DEF Save, Saves, Current, QuotaInv, TypeOK
<1> QED
  BY <1>1, <1>2 DEF QuotaInv, HoldsAnswers

\* A saved quota is never replaced by an older one (quota.go, refreshWhere).
THEOREM QuotasStayInOrder == Spec => QuotasInOrder
<1>1. ASSUME QuotaInv, [Next]_vars, NEW a \in Accounts
      PROVE  doc'[a].quotaAt >= doc[a].quotaAt
  <2>1. doc[a].quotaAt \in Nat
    BY <1>1, Parameters DEF QuotaInv, TypeOK, Record, Word, Never, Moments
  <2>2. CASE doc'[a] # doc[a]
    <3>1. PICK r \in Refreshes : /\ stage[r][a] = "handled" /\ Current(r)
                                 /\ doc'[a] = Updated(doc[a], answer[r][a])
      BY <1>1, <2>2, Saving
    <3>2. answer[r][a].kind = "ok" => answer[r][a].at >= doc[a].quotaAt
      BY <1>1, <3>1 DEF QuotaInv, HeardSince, Heard
    <3> QED
      BY <2>1, <3>1, <3>2 DEF Updated, LastWord
  <2> QED
    BY <2>1, <2>2
<1>2. QuotaInv /\ [Next]_vars => [\A a \in Accounts : doc'[a].quotaAt >= doc[a].quotaAt]_vars
  BY <1>1
<1> QED
  BY <1>2, Invariant, PTL DEF Spec, QuotasInOrder

\* A refusal that is saved is cleared only by a read that heard something from
\* Google after the refusal, that used a remembered project, or that found no usable
\* credentials (eligibility.go, shouldClearEligibility).
THEOREM RefusalsStay == Spec => RefusalStays
<1> DEFINE Cleared(a) == doc[a].verify /\ ~doc'[a].verify
           Reason(a) == \E r \in Refreshes : Saves(r) /\
                          \/ answer[r][a].at >= doc[a].verdictAt
                          \/ remembered[r][a] /\ answer[r][a].kind = "assumed"
                          \/ answer[r][a].kind = "credentials"
<1>1. ASSUME QuotaInv, [Next]_vars, NEW a \in Accounts, Cleared(a)
      PROVE  Reason(a)
  <2>1. PICK r \in Refreshes : /\ Saves(r) /\ stage[r][a] = "handled" /\ Current(r)
                               /\ doc'[a] = Updated(doc[a], answer[r][a])
    BY <1>1, Saving
  <2>2. Clears(answer[r][a].kind)
    <3>1. Updated(doc[a], answer[r][a]).verify =
            (answer[r][a].kind = "ineligible" \/ (doc[a].verify /\ ~Clears(answer[r][a].kind)))
      BY DEF Updated, LastWord
    <3> QED
      BY <1>1, <2>1, <3>1, Zenon
  <2>3. CASE Heard(r, a)
    <3>1. doc[a].verdictAt <= answer[r][a].at
      BY <1>1, <2>1, <2>3 DEF QuotaInv, HeardSince
    <3> QED
      BY <2>1, <3>1
  <2>4. CASE ~Heard(r, a)
    BY <2>1, <2>2, <2>4 DEF Heard, Clears
  <2> QED
    BY <2>3, <2>4
<1>2. QuotaInv /\ [Next]_vars => [\A a \in Accounts : Cleared(a) => Reason(a)]_vars
  BY <1>1
<1> QED
  BY <1>2, Invariant, PTL DEF Spec, RefusalStays
=============================================================================
