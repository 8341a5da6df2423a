------------------------------- MODULE MCChoices -------------------------------
\* The terminal interface, its views, the settings and the commands that choose an
\* account, each on its own: "machine" names the one that runs.
EXTENDS Terminal, Settings, AccountChoice, Views

VARIABLE machine

-----------------------------------------------------------------------------
(* The terminal: what is saved, the keys pressed, what other programs do *)

Session(accounts, pressed, presses, others, changes) ==
  [saved |-> accounts, bare |-> {}, keys |-> pressed, presses |-> presses, foreign |-> others, changes |-> changes]

NoTerminal == Session({}, {}, 0, {}, 0)

MCTerminalPlans ==
  {Session({1, 2}, {"delete"}, 2, {"accounts"}, 1),
   Session({1}, {"tier", "refresh"}, 1, {"accounts"}, 1),
   Session({1}, {"import"}, 1, {"accounts"}, 1),
   Session({1}, {"doctor"}, 2, {}, 0),
   Session({1, 2}, {"switch", "select"}, 2, {"session"}, 2),
   Session({1}, {"add", "quit"}, 2, {}, 0),
   [Session({1, 2}, {"delete", "switch"}, 2, {"accounts"}, 1) EXCEPT !.bare = {2}],
   [Session({2}, {"add", "refresh"}, 2, {"accounts"}, 1) EXCEPT !.bare = {2}]}

-----------------------------------------------------------------------------
(* The settings: what each process edits, and the file before *)

Put(key, value) == [kind |-> "put", values |-> [k \in {key} |-> value]]
Form(key, value) == [kind |-> "form", values |-> [k \in {key} |-> value]]
Bind(path, name) == [kind |-> "bind set", path |-> path, profile |-> name]
Unbind(path) == [kind |-> "bind remove", path |-> path]
SetProfile(name, policy) == [kind |-> "profile set", name |-> name, policy |-> policy, known |-> TRUE]
Name(kind, value, known) == [kind |-> kind, value |-> value, known |-> known]
RemoveProfile(name) == [kind |-> "profile remove", name |-> name]
ConfigReset == [kind |-> "reset"]
DashboardReset == [kind |-> "dashboard reset"]

\* Files of an earlier version, with a policy nobody knows, and with alerts on.
OldFile == [Defaults EXCEPT !.threshold = 0, !.cooldown = 0, !.profiles["work"] = "", !.split = 99]
WrongFile == [Defaults EXCEPT !.policy = "fast"]
LoudFile == [Defaults EXCEPT !.enabled = TRUE, !.cooldown = 0, !.profiles["work"] = "balanced"]

Edits(edits, file) == [edits |-> edits, file |-> file, exists |-> file # Defaults]

NoEdits == Edits(<<>>, Defaults)

MCSettingsPlans ==
  {Edits(<<Bind(<<1>>, "work"), RemoveProfile("work"), Bind(<<1, 2>>, "work")>>, OldFile),
   Edits(<<Bind(<<1, 2>>, "work"), Bind(<<1>>, "work"), Unbind(<<1, 2>>), Bind(<<1>>, "home")>>, LoudFile),
   Edits(<<Name("alias", "a", TRUE), Put("enabled", FALSE), Form("policy", "balanced"), Put("threshold", 0)>>, LoudFile),
   Edits(<<Put("policy", "fast"), SetProfile("home", ""), SetProfile("work", "fast"), Put("split", 4),
           ConfigReset>>, Defaults),
   Edits(<<Name("tag", "t", TRUE), Name("tag", "u", FALSE), Name("target", "x", TRUE)>>, Defaults),
   Edits(<<DashboardReset, ConfigReset, SetProfile("home", "fast"), Form("enabled", TRUE)>>, WrongFile),
   Edits(<<Put("threshold", 0), Put("cooldown", 0), Put("split", 4)>>, Defaults),
   NoEdits}

-----------------------------------------------------------------------------
(* The commands: three accounts, of which one address contains another *)

Pools(gemini, thirdParty) == [gemini |-> gemini, third_party |-> thirdParty]
ArgonPools(gemini, thirdParty, argon) == [gemini |-> gemini, third_party |-> thirdParty, argon |-> argon]
Quota(pools, now, limits) ==
  [pools |-> pools, now |-> now, age |-> "fresh", verify |-> FALSE, limits |-> limits, hashed |-> FALSE]

High == Pools(<<80, 100>>, <<60>>)
Low == Pools(<<30, 90>>, <<5>>)
UsedUp == Pools(<<90, 0>>, <<50>>)

MCInfo ==
  [ann |-> Quota(High, ArgonPools(<<70>>, <<40>>, <<0>>), {}),
   joann |-> Quota(High, UsedUp, {"argon"}),
   bob |-> Quota(Low, High, {})]

NoWork == [name |-> "none", account |-> "bob", reserves |-> {}, family |-> "", policy |-> ""]
Work == [name |-> "work", account |-> "ann", reserves |-> {"joann"}, family |-> "claude", policy |-> "sticky"]

Commands(policy, profile, commands, names, current) ==
  [order |-> <<"ann", "joann", "bob">>, info |-> MCInfo, session |-> current, names |-> names,
   policy |-> policy, prefer |-> "", reserve |-> 10, allow |-> TRUE, profile |-> profile,
   aliases |-> [me |-> "you", you |-> "me", x |-> "work"],
   contains |-> {<<"ann", "ann">>, <<"ann", "joann">>, <<"jo", "joann">>, <<"bob", "bob">>},
   commands |-> commands]

NextFor(family) == [kind |-> "next", family |-> family]
Recommend(family, profiled, apply) ==
  [kind |-> "recommend", family |-> family, profiled |-> profiled, reads |-> TRUE, apply |-> apply]
RunNow(mode) == [kind |-> "run", mode |-> mode]
SwitchTo(target) == [kind |-> "switch", target |-> target]
RemoveAccount(target) == [kind |-> "remove", target |-> target, family |-> ""]
Limit(target, family, clear) == [kind |-> "limit", target |-> target, family |-> family, clear |-> clear]
List(fresh) == [kind |-> "list", reads |-> fresh]

NoCommands ==
  [Commands("sticky", NoWork, <<>>, TRUE, NoAccount) EXCEPT !.order = <<>>, !.info = <<>>]

MCChoicePlans ==
  {Commands("sticky", NoWork, <<NextFor(""), Limit("bob", "argon", FALSE)>>, TRUE, "bob"),
   Commands("balanced", NoWork, <<NextFor("argon"), Limit("joann", "argon", TRUE)>>, FALSE, "ann"),
   Commands("sticky", Work, <<RunNow("prompt"), RemoveAccount("2")>>, TRUE, "bob"),
   Commands("balanced", Work, <<RunNow("auto"), SwitchTo("x")>>, FALSE, "other"),
   Commands("balanced", Work, <<RunNow("recommend"), SwitchTo("me"), SwitchTo("jo")>>, TRUE, "other"),
   [Commands("round-robin", NoWork, <<Recommend("", FALSE, TRUE), List(FALSE)>>, FALSE, "joann")
      EXCEPT !.prefer = "argon"],
   Commands("sticky", Work, <<Recommend("", TRUE, TRUE), List(TRUE)>>, TRUE, "joann"),
   Commands("balanced", Work, <<Recommend("", TRUE, FALSE), RemoveAccount("3")>>, FALSE, "ann"),
   NoCommands}

-----------------------------------------------------------------------------
(* The views: three accounts in a list with fewer rows, and what the user presses *)

Layout(lines, height) == [lines |-> lines, height |-> height]

Pressed(keyed) == {Event(k, Typed) : k \in keyed}

Screens(inputs, presses, others, changes) ==
  [order |-> <<"ann", "bob", "cid">>, found |-> {"bob", "cid"}, active |-> "ann", layouts |-> {Layout(1, 2)},
   names |-> {"home", "work"}, everyName |-> <<"home", "new", "work">>, typedName |-> "new", events |-> 2,
   readable |-> TRUE, sought |-> {"settings-reset", "profile-remove"},
   palette |-> <<"dashboard", "settings", "profile-remove", "alias", "settings-reset", "quit">>,
   inputs |-> inputs, presses |-> presses, others |-> others, changes |-> changes]

NoScreens == Screens({}, 0, {}, 0)

MCViewPlans ==
  {Screens(Pressed({"p", "d", "left", "enter"}), 4, {"files"}, 1),
   Screens(Pressed({"p", "d", "end", "y"}), 4, {"files"}, 1),
   Screens(Pressed({"h", "c", "end", "down", "y"}), 4, {"files"}, 1),
   Screens(Pressed({"s", "ctrl-k", "up", "enter", "y"}), 5, {}, 0),
   Screens(Pressed({"p", "c", "e", "letter", "up", "enter"}), 5, {}, 0),
   [Screens(Pressed({"p", "c", "letter", "up", "enter"}), 5, {}, 0) EXCEPT !.readable = FALSE],
   Screens(Pressed({"slash", "letter", "backspace", "enter", "esc"}), 4, {"accounts"}, 1),
   Screens(Pressed({"down", "end", "page-up", "2"}) \cup {Event("wheel-down", 0), Event("wheel-up", Beside)},
           2, {"accounts"}, 2),
   [Screens(Pressed({"up", "down"}) \cup {Event("wheel-down", 0)}, 2, {"accounts"}, 1)
      EXCEPT !.layouts = {Layout(1, 2), Layout(2, 3), Layout(2, 1), Layout(2, 0)}],
   Screens(Pressed({"d", "help", "ctrl-k"}) \cup {Event("click", 1), Event("click", Beside), Event("hover", 0)},
           3, {}, 0),
   Screens(Pressed({"ctrl-k", "letter", "backspace", "page-down", "enter", "esc"}), 4, {}, 0),
   Screens(Pressed({"b", "x", "i", "v", "o", "up", "enter"}), 4, {}, 0),
   Screens(Pressed({"s", "a", "t", "b", "backspace", "enter", "u", "esc"}), 4, {}, 0),
   Screens(Pressed({"h", "g", "x", "home", "page-down", "enter", "1", "n"}), 4, {}, 0),
   NoScreens}

-----------------------------------------------------------------------------
\* A terminal where nobody signs in does not need every first session.
TerminalOn == TerminalInit /\ (session # 0 \/ terminal.saved = {} \/ "session" \in terminal.foreign)
\* The terminal has been left.
TerminalOff ==
  /\ terminal = NoTerminal /\ disk = {} /\ unseen = FALSE /\ session = 0 /\ named = Nobody
  /\ tui = [accounts |-> {}, selected |-> Nobody, active |-> Nobody, current |-> 0, resolving |-> 0,
            mode |-> "left", dialog |-> NoDialog, refreshing |-> FALSE, job |-> "none"]
  /\ reads = {} /\ resolvers = {} /\ jobs = {} /\ worker = "check" /\ removed = {}
  /\ keys = 0 /\ foreign = 0
SettingsOff == SettingsInit /\ settingsPlan = NoEdits
ChoiceOff == ChoiceInit /\ choicePlan = NoCommands
ViewsOff == ViewsInit /\ viewPlan = NoScreens

MCInit ==
  \/ machine = "terminal" /\ TerminalOn /\ SettingsOff /\ ChoiceOff /\ ViewsOff
  \/ machine = "settings" /\ TerminalOff /\ SettingsInit /\ ChoiceOff /\ ViewsOff
  \/ machine = "commands" /\ TerminalOff /\ SettingsOff /\ ChoiceInit /\ ViewsOff
  \/ machine = "views" /\ TerminalOff /\ SettingsOff /\ ChoiceOff /\ ViewsInit

MCNext ==
  \/ machine = "terminal" /\ TerminalNext /\ UNCHANGED <<machine, settingsVars, choiceVars, viewVars>>
  \/ machine = "settings" /\ SettingsNext /\ UNCHANGED <<machine, tuiVars, choiceVars, viewVars>>
  \/ machine = "commands" /\ ChoiceNext /\ UNCHANGED <<machine, tuiVars, settingsVars, viewVars>>
  \/ machine = "views" /\ ViewsNext /\ UNCHANGED <<machine, tuiVars, settingsVars, choiceVars>>

mcVars == <<machine, tuiVars, settingsVars, choiceVars, viewVars>>

\* Goroutines run, timers tick, agy writes its files in the end; a person need
\* not press a key, and other programs need not change anything.
Refreshing == Sync \/ LoadRead \/ SaveRead \/ TakeRead
Settling == NameSession \/ NoticeSession \/ WorkOnJob \/ TakeJob \/ ApplySwitch \/ EndSwitch \/ InputIdle \/ Resume

MCFairness ==
  /\ WF_tuiVars(machine = "terminal" /\ Refreshing)
  /\ WF_tuiVars(machine = "terminal" /\ Settling)
  /\ WF_tuiVars(machine = "terminal" /\ TakeAnswer)
  /\ WF_tuiVars(machine = "terminal" /\ Keyboard)

MCSpec == MCInit /\ [][MCNext]_mcVars /\ MCFairness
=============================================================================
