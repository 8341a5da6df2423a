---------------------------- MODULE AccountChoice ----------------------------
(***************************************************************************)
(* The commands that choose an account and act on it: next, recommend,     *)
(* run now, switch, limit set, remove, list (cli.go, extended.go, run.go), *)
(* and the ranking they choose with (display.go, pools.go).  Each command  *)
(* loads accounts.json, may read the quota of every account and save it,   *)
(* may ask the user, and then acts on the copy it has.                     *)
(***************************************************************************)
EXTENDS Integers, Sequences, SequencesExt, FiniteSetsExt

\* What the commands find: records with the saved accounts "order" and "info",
\* the "session", whether its token "names" its account, the settings "policy",
\* "prefer" (the preferred family), "reserve", "allow", "profile", "aliases", and
\* "commands", one per process.
CONSTANT ChoicePlans

VARIABLES
  choicePlan,
  saved,      \* accounts.json: [order, info, revision]
  active,     \* the account of the session
  choosers    \* the command of every process

choiceVars == <<choicePlan, saved, active, choosers>>

NoAccount == "no account"
NoFamily == ""

CommandOf(p) == choicePlan.commands[p]

\* quotaGroupHealths takes a fraction below zero for zero, and one above one for one.
ArePercentages(pools) == \A pool \in DOMAIN pools : pools[pool] \in Seq(0..100)

\* Every account is listed once, and only a command about one account names a target.
IsAccount(account) ==
  /\ account = [pools |-> account.pools, now |-> account.now, age |-> account.age,
                verify |-> account.verify, limits |-> account.limits, hashed |-> account.hashed]
  /\ ArePercentages(account.pools) /\ ArePercentages(account.now)

Listed(order) ==
  order \in Seq(ToSet(order)) /\ \A i, j \in DOMAIN order : order[i] = order[j] => i = j

TargetKinds == {"switch", "limit", "remove"}

ASSUME ChoiceParameters ==
  \A plan \in ChoicePlans :
    /\ plan.policy \in {"sticky", "balanced", "round-robin"}
    /\ Listed(plan.order)
    /\ plan.info = [e \in ToSet(plan.order) |-> plan.info[e]]
    /\ \A e \in ToSet(plan.order) : IsAccount(plan.info[e])
    /\ \A p \in DOMAIN plan.commands :
         LET command == plan.commands[p]
         IN /\ command.kind \in {"next", "recommend", "run", "list"} \cup TargetKinds
            /\ command.kind = "run" => command.mode \in {"recommend", "auto", "prompt"}
            /\ "target" \in DOMAIN command => command.kind \in TargetKinds

-----------------------------------------------------------------------------
\* familyPools: no family means the two shared pools; an account without an
\* Argon pool of its own spends Gemini on it.
FamilyPools(account, family) ==
  CASE family = NoFamily -> {"gemini", "third_party"}
    [] family \in {"claude", "gpt", "third_party"} -> {"third_party"}
    [] family = "argon" /\ "argon" \notin DOMAIN account.pools -> {"gemini"}
    [] OTHER -> {family}

FamiliesOverlap(account, limit, family) ==
  FamilyPools(account, limit) \cap FamilyPools(account, family) # {}

\* The windows (weekly, five hours) of the pools the family draws from: the
\* fractions Google reported, in percent.
WindowsOf(account, family) ==
  UNION {ToSet(account.pools[pool]) : pool \in FamilyPools(account, family) \cap DOMAIN account.pools}

\* accountRemaining: the tightest of them.
Remaining(account, family) == Min(WindowsOf(account, family))

\* accountCooldown: a window that is used up, or a limit of a log or of the user
\* for a family that shares a pool; a limit of no family holds for all.
CoolingDown(account, family) ==
  \/ 0 \in WindowsOf(account, family)
  \/ \E limit \in account.limits : limit = NoFamily \/ FamiliesOverlap(account, limit, family)

Ready(account, family) ==
  /\ ~account.verify
  /\ WindowsOf(account, family) # {} /\ account.age = "fresh"
  /\ ~CoolingDown(account, family)
  /\ Remaining(account, family) > 0
  /\ Remaining(account, family) >= choicePlan.reserve

\* rankAccounts: the family, the policy, the preferred account and the candidates
\* of a ranking. A profile with reserves has no other candidates than its own.
Ranking(copy, profiled, family, policy, current) ==
  LET profile == choicePlan.profile
  IN [order |-> copy.order, info |-> copy.info,
      family |-> IF family # NoFamily THEN family
                 ELSE IF profiled /\ profile.family # NoFamily THEN profile.family ELSE choicePlan.prefer,
      policy |-> IF profiled /\ profile.policy # "" THEN profile.policy ELSE policy,
      preferred |-> IF profiled THEN profile.account ELSE current,
      reserves |-> IF profiled THEN profile.reserves ELSE {},
      candidates |-> IF profiled /\ profile.reserves # {}
                       THEN ToSet(copy.order) \cap ({profile.account} \cup profile.reserves)
                       ELSE ToSet(copy.order),
      current |-> current]

Position(order, email) ==
  IF email \in ToSet(order) THEN CHOOSE i \in DOMAIN order : order[i] = email ELSE 0

\* How many steps the rotation takes from the active account to this one.
StepsAfter(r, email) ==
  (Position(r.order, email) - Position(r.order, r.current) - 1 + Len(r.order)) % Len(r.order)

\* An account of which nothing is known has nothing left, and one that Google wants
\* to verify is worth less than any other.
Score(r, email) ==
  LET known == IF WindowsOf(r.info[email], r.family) = {} THEN 0 ELSE Remaining(r.info[email], r.family)
      left == IF r.info[email].verify THEN known - 1000 ELSE known
  IN CASE r.policy = "round-robin" -> Len(r.order) - StepsAfter(r, email)
       [] r.policy = "sticky" -> left + (IF email = r.preferred THEN 200 ELSE 0)
       [] r.policy = "balanced" -> left

IsReady(r, email) == Ready(r.info[email], r.family)

Before(r, a, b) ==
  LET key(e) == <<IF IsReady(r, e) THEN 0 ELSE 1, IF e \in r.reserves THEN 1 ELSE 0,
                  -Score(r, e), Position(r.order, e)>>
      first == CHOOSE i \in 1..4 : key(a)[i] # key(b)[i] /\ \A j \in 1..(i - 1) : key(a)[j] = key(b)[j]
  IN key(a)[first] < key(b)[first]

Foremost(r, emails) == CHOOSE e \in emails : \A other \in emails \ {e} : Before(r, e, other)

\* The first recommendation: recommend reports it, ready or not.
Reported(r) == IF r.candidates = {} THEN NoAccount ELSE Foremost(r, r.candidates)

\* The first recommendation, if it may be used.
Recommended(r) ==
  IF r.candidates = {} \/ ~IsReady(r, Foremost(r, r.candidates)) THEN NoAccount
  ELSE Foremost(r, r.candidates)

\* Faulty: next takes the first recommendation, which may be the active account.
FirstReady(r) == Recommended(r)

\* nextEligible: away from the active account while another one is ready.
NextEligible(r) ==
  LET others == {e \in r.candidates \ {r.current} : IsReady(r, e)}
  IN IF others # {} THEN Foremost(r, others) ELSE Recommended(r)

\* next goes on even where the policy would stay.
NextChoice(copy, current, family) ==
  NextEligible(Ranking(copy, FALSE, family,
    IF choicePlan.policy = "sticky" THEN "round-robin" ELSE choicePlan.policy, current))

-----------------------------------------------------------------------------
\* resolveConfiguredTarget: aliases and profiles first, eight hops at most, then
\* the number, the address, or the one address that contains the text.
Hop(hops, n) ==
  IF hops.done THEN hops
  ELSE IF hops.target \in DOMAIN choicePlan.aliases
    THEN IF hops.target \in hops.seen THEN [hops EXCEPT !.target = NoAccount, !.done = TRUE]
         ELSE [hops EXCEPT !.target = choicePlan.aliases[hops.target], !.seen = @ \cup {hops.target}]
  ELSE IF hops.target = choicePlan.profile.name THEN [hops EXCEPT !.target = choicePlan.profile.account]
  ELSE [hops EXCEPT !.done = TRUE]

Configured(target) ==
  FoldLeft(Hop, [target |-> target, seen |-> {}, done |-> FALSE], [n \in 1..8 |-> n]).target

Numbers == <<"1", "2", "3", "4">>

ResolveTarget(target, order) ==
  LET text == Configured(target)
      holders == {e \in ToSet(order) : <<text, e>> \in choicePlan.contains}
  IN IF text \in ToSet(Numbers)
       THEN IF Position(Numbers, text) <= Len(order) THEN order[Position(Numbers, text)] ELSE NoAccount
     ELSE IF text \in ToSet(order) THEN text
     ELSE IF Cardinality(holders) = 1 THEN CHOOSE e \in holders : TRUE
     ELSE NoAccount

-----------------------------------------------------------------------------
Processes == DOMAIN choicePlan.commands

ChoiceInit ==
  /\ choicePlan \in ChoicePlans
  /\ saved = [order |-> choicePlan.order, info |-> choicePlan.info, revision |-> 1]
  /\ active = choicePlan.session
  /\ choosers = [p \in Processes |->
       [at |-> "start", copy |-> saved, failed |-> {}, offered |-> NoAccount, choice |-> NoAccount]]

\* One command goes on to its next step.
GoOn(p, step) == choosers' = [choosers EXCEPT ![p] = step]

\* A save goes through only over the revision that was loaded.
SavesOver(copy) == copy.revision = saved.revision

Written(copy) == [copy EXCEPT !.revision = saved.revision + 1]

\* Which step follows the load: the resolved target, or a reading of the quotas.
AfterLoad(p, copy) ==
  LET command == CommandOf(p)
      target == IF "target" \in DOMAIN command THEN ResolveTarget(command.target, copy.order) ELSE NoAccount
      at == CASE copy.order = <<>> -> "failed"
              [] command.kind \in {"next", "run"} -> "reading"
              [] command.kind \in {"recommend", "list"} ->
                   IF command.reads /\ choosers[p].at = "start" THEN "reading" ELSE "choosing"
              [] target = NoAccount -> "failed"
              [] command.kind = "remove" -> "asking"
              [] command.kind = "limit" -> "saving"
              [] command.kind = "switch" -> "applying"
  IN [choosers[p] EXCEPT !.at = at, !.copy = copy, !.choice = target]

\* limits reads the quotas of its copy and then lists what is saved by now.
LoadAccounts(p) ==
  /\ choosers[p].at \in {"start", "again"}
  /\ GoOn(p, AfterLoad(p, saved))
  /\ UNCHANGED <<choicePlan, saved, active>>

\* Faulty: what could not be read stays in the copy.
ForgetsNothing(kind) == FALSE

\* recommend and run now forget the quotas that could not be read; next does not.
ForgetsFailures(kind) == kind \in {"recommend", "run"}

Forgotten(copy, emails) ==
  [copy EXCEPT !.info = [e \in DOMAIN @ |->
     IF e \in emails THEN [@[e] EXCEPT !.pools = <<>>, !.age = "none"] ELSE @[e]]]

Reading(account, outcome) ==
  CASE outcome = "read" -> [account EXCEPT !.pools = account.now, !.age = "fresh", !.verify = FALSE]
    [] outcome = "refused" -> [account EXCEPT !.verify = TRUE]
    [] outcome = "failed" -> account

\* The Google answers of all accounts, saved in one go unless nothing changed.
ReadQuotas(p) ==
  LET c == choosers[p]
      kind == CommandOf(p).kind
      next == IF kind = "list" THEN "again" ELSE "choosing"
  IN /\ c.at = "reading"
     /\ \E outcome \in [ToSet(c.copy.order) -> {"read", "failed", "refused"}] :
          LET info == [e \in DOMAIN outcome |-> Reading(c.copy.info[e], outcome[e])]
              failed == {e \in DOMAIN outcome : outcome[e] # "read"}
              changed == \E e \in DOMAIN outcome : outcome[e] # "failed"
              copy == IF changed THEN Written([c.copy EXCEPT !.info = info]) ELSE c.copy
              kept == IF ForgetsFailures(kind) THEN Forgotten(copy, failed) ELSE copy
          IN IF changed /\ ~SavesOver(c.copy)
               THEN /\ GoOn(p, [c EXCEPT !.at = IF kind = "list" THEN next ELSE "failed", !.copy.info = info])
                    /\ UNCHANGED saved
               ELSE /\ GoOn(p, [c EXCEPT !.at = next, !.failed = failed, !.copy = kept])
                    /\ saved' = IF changed THEN copy ELSE saved
  /\ UNCHANGED <<choicePlan, active>>

\* activeEmail: a session whose token does not name its account is recognized by
\* the saved token, and the account's missing hash is saved with the whole copy;
\* a save that fails is not reported.
Recognized(copy) == IF active \in ToSet(copy.order) THEN active ELSE NoAccount

Backfills(copy) ==
  /\ Recognized(copy) # NoAccount /\ ~choicePlan.names
  /\ ~copy.info[active].hashed

Hashed(copy) == [copy EXCEPT !.info[active].hashed = TRUE]

Choice(p, copy, current) ==
  LET command == CommandOf(p)
  IN CASE command.kind = "next" -> NextChoice(copy, current, command.family)
       [] command.kind = "recommend" ->
            LET r == Ranking(copy, command.profiled, command.family, choicePlan.policy, current)
            IN IF command.apply THEN Recommended(r) ELSE Reported(r)
       [] command.kind = "run" ->
            Recommended(Ranking(copy, TRUE, NoFamily, choicePlan.policy, current))
       [] OTHER -> NoAccount

AfterChoice(p, choice) ==
  LET command == CommandOf(p)
  IN CASE command.kind = "list" -> "done"
       [] choice = NoAccount -> "failed"
       [] command.kind = "next" -> "applying"
       [] command.kind = "recommend" ->
            IF ~command.apply THEN "done" ELSE IF choicePlan.allow THEN "applying" ELSE "failed"
       [] command.mode = "recommend" -> "done"
       [] command.mode = "auto" -> IF choicePlan.allow THEN "reloading" ELSE "failed"
       [] command.mode = "prompt" -> "asking"

ChooseAccount(p) ==
  LET c == choosers[p]
      copy == IF Backfills(c.copy)
                THEN IF SavesOver(c.copy) THEN Written(Hashed(c.copy)) ELSE Hashed(c.copy)
                ELSE c.copy
      choice == Choice(p, copy, Recognized(copy))
  IN /\ c.at = "choosing"
     /\ GoOn(p, [c EXCEPT !.at = AfterChoice(p, choice), !.copy = copy,
                          !.offered = choice, !.choice = choice])
     /\ saved' = IF Backfills(c.copy) /\ SavesOver(c.copy) THEN copy ELSE saved
     /\ UNCHANGED <<choicePlan, active>>

\* "No" to a run starts the target on the account that is active.
AnswerPrompt(p) ==
  /\ choosers[p].at = "asking"
  /\ \E yes \in BOOLEAN :
       GoOn(p, [choosers[p] EXCEPT !.at =
         IF ~yes THEN "done" ELSE IF CommandOf(p).kind = "run" THEN "reloading" ELSE "saving"])
  /\ UNCHANGED <<choicePlan, saved, active>>

\* prepareRunAccount: the accounts are loaded again and the address resolved anew.
ReloadAccounts(p) ==
  /\ choosers[p].at = "reloading"
  /\ LET found == ResolveTarget(choosers[p].choice, saved.order)
     IN GoOn(p, [choosers[p] EXCEPT !.copy = saved, !.choice = found,
                   !.at = IF found = NoAccount THEN "failed" ELSE "applying"])
  /\ UNCHANGED <<choicePlan, saved, active>>

\* The token of the command's copy becomes the session's, also when the account was
\* removed meanwhile; its entry in the vault may be gone, or the session not writable.
ApplyChoice(p) ==
  /\ choosers[p].at = "applying"
  /\ \E applied \in BOOLEAN :
        /\ active' = IF applied THEN choosers[p].choice ELSE active
        /\ GoOn(p, [choosers[p] EXCEPT !.at = IF applied THEN "applied" ELSE "failed"])
  /\ UNCHANGED <<choicePlan, saved>>

Removed(copy, email) ==
  [copy EXCEPT !.order = RemoveAt(@, Position(@, email)),
               !.info = [e \in DOMAIN @ \ {email} |-> @[e]]]

\* limit set and remove change their copy and save it.
SaveAccounts(p) ==
  LET c == choosers[p]
      family == CommandOf(p).family
      copy == IF CommandOf(p).kind = "remove" THEN Removed(c.copy, c.choice)
              ELSE [c.copy EXCEPT !.info[c.choice].limits =
                      IF CommandOf(p).clear THEN @ \ {family} ELSE @ \cup {family}]
  IN /\ c.at = "saving"
     /\ saved' = IF SavesOver(c.copy) THEN Written(copy) ELSE saved
     /\ GoOn(p, [c EXCEPT !.at = IF SavesOver(c.copy) THEN "done" ELSE "failed"])
     /\ UNCHANGED <<choicePlan, active>>

ChoiceNext ==
  \E p \in Processes :
    LoadAccounts(p) \/ ReadQuotas(p) \/ ChooseAccount(p) \/ AnswerPrompt(p)
      \/ ReloadAccounts(p) \/ ApplyChoice(p) \/ SaveAccounts(p)

ChoiceSpec == ChoiceInit /\ [][ChoiceNext]_choiceVars

-----------------------------------------------------------------------------
Chooses(p, kinds) ==
  /\ CommandOf(p).kind \in kinds
  /\ choosers[p].at = "choosing" /\ choosers'[p].choice # NoAccount

\* recommend only reports its choice, without --apply.
Acts(p) == CommandOf(p).kind = "recommend" => CommandOf(p).apply

\* "Failed refreshes cannot authorize a switch" (README.md:345): recommend --apply and
\* run now never choose an account whose quota they could not read just now
\* (extended.go:1139-1151, run.go:160-167).  A recommend that only reports may name
\* one, when nobody is ready.
FailedReadsNeverChosen ==
  [][\A p \in Processes : Chooses(p, {"recommend", "run"}) /\ Acts(p) =>
       choosers'[p].choice \notin choosers[p].failed]_choiceVars

\* The same is said of next.
NextNeedsReading ==
  [][\A p \in Processes : Chooses(p, {"next"}) =>
       choosers'[p].choice \notin choosers[p].failed]_choiceVars

\* The accounts that next comes to from this one, time after time.
Tour(copy, email, times) ==
  LET at[n \in 0..times] == IF n = 0 THEN email ELSE NextChoice(copy, at[n - 1], NoFamily)
  IN [n \in 1..times |-> at[n]]

\* Repeating next leaves the active account whenever another one is ready, and
\* unless the policy is balanced it comes to every ready account before it comes
\* to one again (cli.go:1225, README.md:347).
NextGoesOn ==
  LET ready == {e \in ToSet(saved.order) : Ready(saved.info[e], choicePlan.prefer)}
  IN \A e \in ToSet(saved.order) \cup {NoAccount} :
       /\ ready \ {e} # {} => NextChoice(saved, e, NoFamily) \in ready \ {e}
       /\ ready # {} /\ choicePlan.policy # "balanced" =>
            ToSet(Tour(saved, e, Cardinality(ready))) = ready
=============================================================================
