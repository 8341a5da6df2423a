---------------------------- MODULE QuotaRefresh ----------------------------
(***************************************************************************)
(* Reading the quotas of the accounts (src/internal/app/quota.go and       *)
(* eligibility.go).  A refresh loads accounts.json, has a few workers ask  *)
(* Google about one account each, puts the answers into the accounts it    *)
(* loaded and saves them at the end, if nobody has saved in between.       *)
(*                                                                         *)
(* Several refreshes may go on at a time, in one program (the UI) or in    *)
(* several.  The refreshes of a program share its memory of projects: an   *)
(* account whose project is remembered is not asked whether it may use     *)
(* Antigravity, which Google may decide anew at any time.                  *)
(*                                                                         *)
(* Tokens are the subject of AccountSecret and left out.                   *)
(***************************************************************************)
EXTENDS Naturals, FiniteSets

CONSTANTS
  Programs,
  Refreshes,
  Accounts,     \* numbered in the order of accounts.json
  Plans,        \* whose refreshes they are and which accounts they find due
  MaxWorkers,   \* of a refresh (8 in the code)
  MaxMoment     \* bound: Google changes its mind MaxMoment - 1 times

ASSUME Parameters ==
  /\ Accounts \subseteq Nat /\ IsFiniteSet(Accounts)
  /\ Plans \subseteq [Refreshes -> [program: Programs, due: SUBSET Accounts]]
  /\ MaxWorkers \in Nat \ {0}
  /\ MaxMoment \in Nat \ {0}

VARIABLES
  plan,         \* one of Plans; does not change
  google,       \* whether Google lets the account use Antigravity
  moment,       \* a new one begins when Google changes its mind
  doc,          \* accounts.json: what is known of each account
  revision,     \* of accounts.json
  projects,     \* the accounts whose project a program remembers
  pc,
  loaded,       \* the accounts a refresh works on, their revision, and whether they changed
  stage,        \* how far it is with each of them
  remembered,   \* whether the project was remembered when its turn came
  answer,       \* what its read of an account has come to
  workers       \* how many of its workers have not exited

world == <<plan, google, moment>>
disk == <<doc, revision>>
reads == <<stage, remembered, answer>>
vars == <<world, disk, projects, pc, loaded, reads, workers>>

\* The moment of Google's last word on an account.
Never == 0
Moments == 1..MaxMoment
Word == {Never} \cup Moments

\* What accounts.json keeps of an account: whether it must be verified, the
\* word that tells so or otherwise, and the word its quota is from.
Record == [verify: BOOLEAN, verdictAt: Word, quotaAt: Word]

Unknown == [verify |-> FALSE, verdictAt |-> Never, quotaAt |-> Never]

\* "ineligible": Google wants the account verified.  "passed": Google's answer
\* cannot be used, but the account is all right.  "assumed": no answer, but the
\* account was all right before.  "auth": Google does not take the credentials.
\* "credentials": there are none that it could be asked with.
Kinds == {"none", "ok", "passed", "assumed", "ineligible", "auth", "credentials", "network"}
Answer == [kind: Kinds, at: Word]
NoAnswer == [kind |-> "none", at |-> Never]

Stages == {"waiting", "token", "project", "summary", "answered", "result", "handled"}
Final == {"saved", "conflict", "unchanged"}

Reads(p, a) == \E r \in Refreshes : plan[r].program = p /\ a \in plan[r].due

\* What a refresh holds before and after.
NotLoaded == [doc |-> [a \in Accounts |-> Unknown], revision |-> 0, changed |-> FALSE]
NotRead == [stage |-> [a \in Accounts |-> "waiting"],
            remembered |-> [a \in Accounts |-> FALSE],
            answer |-> [a \in Accounts |-> NoAnswer]]

Init ==
  /\ plan \in Plans
  /\ google \in [Accounts -> BOOLEAN]
  /\ moment = 1
  /\ doc \in [Accounts -> {[verify |-> v, verdictAt |-> 1, quotaAt |-> Never] : v \in BOOLEAN}]
  \* Of the accounts nobody reads, nothing matters.
  /\ \A a \in Accounts : (\A p \in Programs : ~Reads(p, a)) => google[a] /\ ~doc[a].verify
  /\ revision = 0
  \* A program may have read before.
  /\ projects \in [Programs -> [Accounts -> {Never, 1}]]
  /\ \A p \in Programs, a \in Accounts : projects[p][a] # Never => Reads(p, a)
  /\ pc = [r \in Refreshes |-> "begin"]
  /\ loaded = [r \in Refreshes |-> NotLoaded]
  /\ stage = [r \in Refreshes |-> NotRead.stage]
  /\ remembered = [r \in Refreshes |-> NotRead.remembered]
  /\ answer = [r \in Refreshes |-> NotRead.answer]
  /\ workers = [r \in Refreshes |-> 0]

At(r, a, s) == pc[r] = "read" /\ a \in plan[r].due /\ stage[r][a] = s
Goto(r, a, s) == stage' = [stage EXCEPT ![r][a] = s]

In(r, s) == {a \in plan[r].due : stage[r][a] = s}
Busy(r) == In(r, "token") \cup In(r, "project") \cup In(r, "summary") \cup In(r, "answered")

-----------------------------------------------------------------------------
(* refreshWhere *)

Begin(r) ==
  /\ pc[r] = "begin"
  /\ plan[r].due # {}
  /\ loaded' = [loaded EXCEPT ![r] = [doc |-> doc, revision |-> revision, changed |-> FALSE]]
  /\ workers' = [workers EXCEPT ![r] =
       IF Cardinality(plan[r].due) < MaxWorkers THEN Cardinality(plan[r].due) ELSE MaxWorkers]
  /\ pc' = [pc EXCEPT ![r] = "read"]
  /\ UNCHANGED <<world, disk, projects, reads>>

BeginNothing(r) ==
  /\ pc[r] = "begin"
  /\ plan[r].due = {}
  /\ pc' = [pc EXCEPT ![r] = "unchanged"]
  /\ UNCHANGED <<world, disk, projects, loaded, reads, workers>>

\* A worker without work gets the next account.
TakeJob(r, a) ==
  /\ At(r, a, "waiting")
  /\ \A b \in In(r, "waiting") : a <= b
  /\ Cardinality(Busy(r)) < workers[r]
  /\ Goto(r, a, "token")
  /\ UNCHANGED <<world, disk, projects, pc, loaded, remembered, answer, workers>>

\* A worker without work exits once all accounts are given out.
WorkerExits(r) ==
  /\ pc[r] = "read"
  /\ In(r, "waiting") = {}
  /\ Cardinality(Busy(r)) < workers[r]
  /\ workers' = [workers EXCEPT ![r] = @ - 1]
  /\ UNCHANGED <<world, disk, projects, pc, loaded, reads>>

\* Faulty: every error but Google's refusal clears a record.
ClearsAll(kind) == kind # "ineligible"

\* shouldClearEligibility
Clears(kind) == kind \in {"ok", "passed", "assumed", "auth", "credentials"}

\* The last word on an account, which errors without any word of Google leave.
LastWord(record, new) ==
  IF new.kind \in {"credentials", "network"} THEN record.verdictAt ELSE new.at

\* Faulty: a read that failed leaves no quota.
UpdatedWithoutQuota(record, new) ==
  [verify    |-> new.kind = "ineligible" \/ (record.verify /\ ~Clears(new.kind)),
   verdictAt |-> LastWord(record, new),
   quotaAt   |-> IF new.kind = "ok" THEN new.at ELSE Never]

\* What is known of an account after the answer.
Updated(record, new) ==
  [verify    |-> new.kind = "ineligible" \/ (record.verify /\ ~Clears(new.kind)),
   verdictAt |-> LastWord(record, new),
   quotaAt   |-> IF new.kind = "ok" THEN new.at ELSE record.quotaAt]

\* The results are taken in the order they come.
Collect(r, a) ==
  /\ At(r, a, "result")
  /\ LET old == loaded[r].doc[a]
         kind == answer[r][a].kind
     IN loaded' = [loaded EXCEPT ![r] =
          [doc      |-> [@.doc EXCEPT ![a] = Updated(old, answer[r][a])],
           revision |-> @.revision,
           changed  |-> @.changed \/ kind \in {"ok", "ineligible"} \/ (Clears(kind) /\ old.verify)]]
  /\ Goto(r, a, "handled")
  /\ UNCHANGED <<world, disk, projects, pc, remembered, answer, workers>>

\* The loop over the results is over.
EndReading(r, next) ==
  /\ pc[r] = "read"
  /\ pc' = [pc EXCEPT ![r] = next]
  /\ UNCHANGED <<world, disk, projects, loaded, reads, workers>>

\* Faulty: the results end when all accounts are given out.
ResultsEndEarly(r) ==
  /\ In(r, "waiting") = {}
  /\ In(r, "result") = {}
  /\ EndReading(r, "save")

\* The results end when the last worker has exited.
ResultsEnd(r) ==
  /\ workers[r] = 0
  /\ In(r, "result") = {}
  /\ EndReading(r, "save")

\* What the refresh held is gone when it returns.
EndSaving(r, next) ==
  /\ pc[r] = "save"
  /\ pc' = [pc EXCEPT ![r] = next]
  /\ loaded' = [loaded EXCEPT ![r] = NotLoaded]
  /\ stage' = [stage EXCEPT ![r] = NotRead.stage]
  /\ remembered' = [remembered EXCEPT ![r] = NotRead.remembered]
  /\ answer' = [answer EXCEPT ![r] = NotRead.answer]
  /\ UNCHANGED <<world, projects, workers>>

\* Faulty: the save does not show in the revision.
SaveUnseen(r) ==
  /\ loaded[r].changed
  /\ revision = loaded[r].revision
  /\ doc' = loaded[r].doc
  /\ UNCHANGED revision
  /\ EndSaving(r, "saved")

\* Store.Save: one step, as AtomicStore promises.
Save(r) ==
  /\ loaded[r].changed
  /\ revision = loaded[r].revision
  /\ doc' = loaded[r].doc
  /\ revision' = revision + 1
  /\ EndSaving(r, "saved")

SaveConflict(r) ==
  /\ loaded[r].changed
  /\ revision # loaded[r].revision
  /\ UNCHANGED disk
  /\ EndSaving(r, "conflict")

NothingToSave(r) ==
  /\ ~loaded[r].changed
  /\ UNCHANGED disk
  /\ EndSaving(r, "unchanged")

-----------------------------------------------------------------------------
(* Fetch: a worker asks Google about an account *)

\* The read has come to something; next is what the worker does about it.
Answered(r, a, kind, at, next) ==
  /\ answer' = [answer EXCEPT ![r][a] = [kind |-> kind, at |-> at]]
  /\ Goto(r, a, next)
  /\ UNCHANGED <<world, disk, projects, pc, loaded, remembered, workers>>

\* The saved token is used or refreshed, and the project looked up.
UseToken(r, a) ==
  /\ At(r, a, "token")
  /\ LET at == projects[plan[r].program][a] IN
       /\ remembered' = [remembered EXCEPT ![r][a] = at # Never]
       /\ answer' = [answer EXCEPT ![r][a].at = at]
       /\ Goto(r, a, IF at # Never THEN "summary" ELSE "project")
  /\ UNCHANGED <<world, disk, projects, pc, loaded, workers>>

\* There is no token, or it is not the account's; Google refuses to refresh it; or
\* Google cannot be reached.
TokenFails(r, a) ==
  /\ At(r, a, "token")
  /\ \/ Answered(r, a, "credentials", Never, "result")
     \/ Answered(r, a, "auth", moment, "result")
     \/ Answered(r, a, "network", Never, "result")

\* loadCodeAssist and onboardUser.
LoadProject(r, a) ==
  /\ At(r, a, "project")
  /\ IF google[a]
       THEN Answered(r, a, "none", moment, "summary")
       ELSE Answered(r, a, "ineligible", moment, "result")

LoadFails(r, a) ==
  /\ At(r, a, "project")
  /\ \/ Answered(r, a, "auth", moment, "result")
     \/ Answered(r, a, "network", Never, "result")

\* retrieveUserQuotaSummary.
Summarize(r, a) ==
  /\ At(r, a, "summary")
  /\ IF google[a]
       THEN \E kind \in {"ok", "passed"} : Answered(r, a, kind, moment, "answered")
       ELSE Answered(r, a, "ineligible", moment, "answered")

\* The code takes it that Google has confirmed the account before.
SummaryFails(r, a) ==
  /\ At(r, a, "summary")
  /\ Answered(r, a, "assumed", answer[r][a].at, "answered")

\* The memory of projects, once the answer is there.
NoteProject(r, a, at) ==
  /\ At(r, a, "answered")
  /\ projects' = [projects EXCEPT ![plan[r].program][a] = at]
  /\ Goto(r, a, "result")
  /\ UNCHANGED <<world, disk, pc, loaded, remembered, answer, workers>>

\* An answer without model groups, too, fails the read after this.
RememberProject(r, a) ==
  /\ answer[r][a].kind \in {"ok", "passed"}
  /\ NoteProject(r, a, IF remembered[r][a] THEN projects[plan[r].program][a] ELSE answer[r][a].at)

\* No answer, or one without a tier or that makes no sense.
ForgetProject(r, a) ==
  /\ answer[r][a].kind \in {"passed", "assumed", "ineligible"}
  /\ NoteProject(r, a, Never)

-----------------------------------------------------------------------------

\* A project is remembered for 15 minutes.
ProjectExpires(p, a) ==
  /\ projects[p][a] # Never
  /\ projects' = [projects EXCEPT ![p][a] = Never]
  /\ UNCHANGED <<world, disk, pc, loaded, reads, workers>>

GoogleChanges(a) ==
  /\ \E p \in Programs : Reads(p, a)
  /\ moment < MaxMoment
  /\ moment' = moment + 1
  /\ google' = [google EXCEPT ![a] = ~@]
  /\ UNCHANGED <<plan, disk, projects, pc, loaded, reads, workers>>

Step(r) ==
  \/ Begin(r) \/ BeginNothing(r) \/ WorkerExits(r) \/ ResultsEnd(r)
  \/ Save(r) \/ SaveConflict(r) \/ NothingToSave(r)
  \/ \E a \in Accounts :
       \/ TakeJob(r, a) \/ Collect(r, a)
       \/ UseToken(r, a) \/ TokenFails(r, a) \/ LoadProject(r, a) \/ LoadFails(r, a)
       \/ Summarize(r, a) \/ SummaryFails(r, a)
       \/ RememberProject(r, a) \/ ForgetProject(r, a)

AllEnded == (\A r \in Refreshes : pc[r] \in Final) /\ UNCHANGED vars

Next ==
  \/ \E r \in Refreshes : Step(r)
  \/ \E p \in Programs, a \in Accounts : ProjectExpires(p, a)
  \/ \E a \in Accounts : GoogleChanges(a)
  \/ AllEnded

Spec == Init /\ [][Next]_vars

-----------------------------------------------------------------------------
(* Properties *)

TypeOK ==
  /\ plan \in Plans
  /\ google \in [Accounts -> BOOLEAN] /\ moment \in Moments
  /\ doc \in [Accounts -> Record] /\ revision \in Nat
  /\ projects \in [Programs -> [Accounts -> Word]]
  /\ pc \in [Refreshes -> {"begin", "read", "save"} \cup Final]
  /\ loaded \in [Refreshes -> [doc: [Accounts -> Record], revision: Nat, changed: BOOLEAN]]
  /\ stage \in [Refreshes -> [Accounts -> Stages]]
  /\ remembered \in [Refreshes -> [Accounts -> BOOLEAN]]
  /\ answer \in [Refreshes -> [Accounts -> Answer]]
  /\ workers \in [Refreshes -> 0..MaxWorkers]

\* A saved quota is never replaced by an older one, however long a refresh has
\* gone on while others saved (quota.go, refreshWhere saving what it loaded).
QuotasInOrder == [][\A a \in Accounts : doc'[a].quotaAt >= doc[a].quotaAt]_vars

\* Whose save this step is.
Saves(r) == pc[r] = "save" /\ pc'[r] = "saved"

\* A refusal that is saved is cleared only by a read that heard something from
\* Google after the refusal, and two kinds that did not: one that used a remembered
\* project, and one that found the account without usable credentials, whose own
\* error the user sees instead (eligibility.go, shouldClearEligibility).  No time-out,
\* no outage and no older answer clears it.
RefusalStays ==
  [][\A a \in Accounts : doc[a].verify /\ ~doc'[a].verify =>
       \E r \in Refreshes : Saves(r) /\
         \/ answer[r][a].at >= doc[a].verdictAt
         \/ remembered[r][a] /\ answer[r][a].kind = "assumed"
         \/ answer[r][a].kind = "credentials"]_vars

\* A refresh saves only when every account it set out to read has been answered
\* and its answer taken (refreshWhere, closing of the results).
AllAnswersTaken ==
  \A r \in Refreshes : pc[r] = "save" =>
    \A a \in plan[r].due : stage[r][a] = "handled"

-----------------------------------------------------------------------------
(* The invariant QuotasInOrder, RefusalStays and AllAnswersTaken are proved  *)
(* from                                                                      *)

\* No word is from the future.
InTime ==
  /\ \A a \in Accounts : doc[a].verdictAt <= moment /\ doc[a].quotaAt <= moment
  /\ \A p \in Programs, a \in Accounts : projects[p][a] <= moment
  /\ \A r \in Refreshes : loaded[r].revision <= revision
  /\ \A r \in Refreshes, a \in Accounts : answer[r][a].at <= moment

\* Nobody has saved since the refresh loaded the accounts.
Current(r) == pc[r] \in {"read", "save"} /\ loaded[r].revision = revision

\* What a refresh holds is accounts.json and the answers it has taken.
HoldsAnswers ==
  \A r \in Refreshes : Current(r) => \A a \in Accounts :
    loaded[r].doc[a] =
      IF a \in plan[r].due /\ stage[r][a] = "handled"
        THEN Updated(doc[a], answer[r][a]) ELSE doc[a]

\* The read has heard of Google since the refresh began.
Heard(r, a) ==
  \/ answer[r][a].kind \in {"ok", "passed", "ineligible", "auth"}
  \/ /\ stage[r][a] \in {"summary", "answered", "result", "handled"}
     /\ answer[r][a].kind \in {"none", "assumed"}
     /\ ~remembered[r][a]

\* What it has heard is no older than what accounts.json has.
HeardSince ==
  \A r \in Refreshes : Current(r) => \A a \in Accounts : Heard(r, a) =>
    doc[a].verdictAt <= answer[r][a].at /\ doc[a].quotaAt <= answer[r][a].at

\* A read that has not reached its answer has none.
NoAnswerYet ==
  \A r \in Refreshes, a \in Accounts :
    /\ pc[r] = "begin" => stage[r][a] = "waiting"
    /\ stage[r][a] \in {"waiting", "token", "project", "summary"} =>
         answer[r][a].kind = "none"

\* Every account that is asked about has a worker, and some worker is left
\* while any account waits.
WorkersLeft ==
  \A r \in Refreshes : pc[r] = "read" =>
    /\ Cardinality(Busy(r)) <= workers[r]
    /\ workers[r] = 0 => In(r, "waiting") = {}

QuotaInv ==
  TypeOK /\ InTime /\ NoAnswerYet /\ HoldsAnswers /\ HeardSince /\ WorkersLeft /\ AllAnswersTaken
=============================================================================
