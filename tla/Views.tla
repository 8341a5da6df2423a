--------------------------------- MODULE Views ---------------------------------
(***************************************************************************)
(* Finding one's way in the terminal interface: its views, the search, the *)
(* action palette, the dialogs, the forms, the pointer and the list that   *)
(* scrolls (tui.go, tui_views.go, tui_model.go, tui_dialog.go,             *)
(* tui_pointer.go, tui_scroll.go under src/internal/app).                  *)
(*                                                                         *)
(* Keys, clicks and pointer moves wait in one queue; a click on a button   *)
(* only chooses the button and adds an Enter at the end of that queue.     *)
(* What is typed is counted, not spelled: one letter of a search finds     *)
(* some accounts, more find none.  What a confirmed switch or update does  *)
(* is in Terminal and Updater, and what a form saves is in Settings.       *)
(***************************************************************************)
EXTENDS Integers, Sequences, SequencesExt, FiniteSetsExt

CONSTANTS
  ViewPlans,   \* what is saved, what the user presses, what others do, and how often
  QueueRoom    \* how many events wait (32 in the code)

\* Lists are lists, and the interface opens with an account to show.  "layouts" says
\* how an account may be drawn, in one row or two, and how many rows the list may
\* have: none in a wide terminal of 12 rows (tui_body.go:123-126).
ASSUME ViewParameters ==
  /\ QueueRoom \in Nat \ {0}
  /\ \A plan \in ViewPlans :
       /\ plan.order \in Seq(ToSet(plan.order)) /\ plan.order # <<>> /\ "" \notin ToSet(plan.order)
       /\ plan.everyName \in Seq(ToSet(plan.everyName))
       /\ plan.palette \in Seq(ToSet(plan.palette))
       /\ plan.events \in Nat
       /\ plan.layouts \subseteq [lines: {1, 2}, height: Nat] /\ plan.layouts # {}

VARIABLES
  viewPlan,
  queue,       \* the events nobody has handled yet
  ui,          \* what is on the screen ("origin" is for SearchRestores: where a search began)
  savedNames,  \* the profiles in config.json
  savedEvents, \* how many events the history has
  typed, outside

viewVars == <<viewPlan, queue, ui, savedNames, savedEvents, typed, outside>>

None == ""
NoForm == [kind |-> None, field |-> 0, previous |-> "dashboard", name |-> None]
ClosedDialog == [kind |-> None, subject |-> None, index |-> 0]

\* Where an event comes from: the keyboard, a place beside every target, or the
\* dialog button or palette row (from 0) that was clicked.
Typed == -1
Beside == -2
Event(key, at) == [key |-> key, at |-> at]

-----------------------------------------------------------------------------
(* The list of accounts *)

\* What of a list is in a set, in the order of the list.
Kept(list, S) ==
  LET kept[i \in 0..Len(list)] ==
        IF i = 0 THEN <<>>
        ELSE IF list[i] \in S THEN Append(kept[i - 1], list[i]) ELSE kept[i - 1]
  IN kept[Len(list)]

\* partitionedEmails: the accounts the search finds, those to look after last.
FoundBy(letters, emails) ==
  CASE letters = 0 -> emails
    [] letters = 1 -> emails \cap viewPlan.found
    [] OTHER -> {}

InOrder(u) == Kept(u.order, FoundBy(u.search, ToSet(u.order)) \ u.attention)
ToLookAfter(u) == Kept(u.order, FoundBy(u.search, ToSet(u.order)) \cap u.attention)
VisibleEmails(u) == InOrder(u) \o ToLookAfter(u)

IndexIn(seq, item) == IF item \in ToSet(seq) THEN SelectInSeq(seq, LAMBDA x : x = item) ELSE 0

\* clampSelection
ClampSelection(u) ==
  LET emails == VisibleEmails(u)
  IN IF u.chosen \in ToSet(emails) THEN u
     ELSE [u EXCEPT !.chosen = IF emails = <<>> THEN None ELSE emails[1]]

\* Going round: the index (from 0) after delta steps among n.
Around(index, delta, n) == (index + delta) % n

\* move: from the first account if none is selected.
MoveSelection(u, delta) ==
  LET emails == VisibleEmails(u)
      index == Max({IndexIn(emails, u.chosen) - 1, 0})
  IN IF emails = <<>> THEN u
     ELSE [u EXCEPT !.chosen = emails[Around(index, delta, Len(emails)) + 1]]

MoveInView(u, delta) ==
  CASE u.view = "profiles" ->
         IF u.names = <<>> THEN u ELSE [u EXCEPT !.nameIndex = Around(@, delta, Len(u.names))]
    [] u.view = "history" ->
         IF u.events = 0 THEN u ELSE [u EXCEPT !.eventIndex = Around(@, delta, u.events)]
    [] OTHER -> MoveSelection(u, delta)

ToBoundary(u, last) ==
  LET emails == VisibleEmails(u)
  IN CASE u.view = "profiles" -> [u EXCEPT !.nameIndex = IF last THEN Max({0, Len(u.names) - 1}) ELSE 0]
       [] u.view = "history" -> [u EXCEPT !.eventIndex = IF last THEN Max({0, u.events - 1}) ELSE 0]
       [] emails = <<>> -> u
       [] OTHER -> [u EXCEPT !.chosen = IF last THEN Last(emails) ELSE emails[1]]

-----------------------------------------------------------------------------
(* Scrolling *)

\* Every account of a list, in as many rows as the layout gives it.
Blocks(list, lines) == [i \in 1..(lines * Len(list)) |-> list[(i - 1) \div lines + 1]]

\* tuiListAllRows: a block per account, and a row above each group once there are two
\* kinds of accounts.  Blank rows are added only where all of it still fits.
ListRows(u) ==
  LET ready == Blocks(InOrder(u), u.lines)
      attention == Blocks(ToLookAfter(u), u.lines)
  IN IF ToLookAfter(u) = <<>> THEN ready
     ELSE (IF InOrder(u) = <<>> THEN <<>> ELSE <<None>> \o ready) \o <<None>> \o attention

\* Faulty: the row below the last one is taken for one that is seen.
JustBelow(offset, end, height) == end > offset + height + 1

OutBelow(offset, end, height) == end > offset + height

\* scrollTo, when a frame is drawn with a row for the list: the rows of the selected
\* account, top and up to end, come into view, unless the user has scrolled since it
\* was selected.
ScrollTo(u) ==
  LET rows == ListRows(u)
      top == IndexIn(rows, u.chosen) - 1
      end == top + u.lines
      sc == u.list
      moved == u.chosen # sc.follow
      wanted == IF (moved \/ ~sc.loose) /\ top >= 0
                  THEN IF top < sc.offset THEN top
                       ELSE IF OutBelow(sc.offset, end, u.height) THEN end - u.height
                       ELSE sc.offset
                  ELSE sc.offset
  IN IF u.view # "dashboard" \/ rows = <<>> \/ u.height = 0 THEN u
     ELSE [u EXCEPT !.list = [offset |-> Max({0, Min({wanted, Len(rows) - u.height})}),
                              total |-> Len(rows), height |-> u.height, follow |-> u.chosen,
                              loose |-> sc.loose /\ ~moved]]

\* scrollBy: three rows of the wheel, if some are out of sight.
CanScroll(u) == u.view = "dashboard" /\ u.list.total > u.list.height

ScrollBy(u, delta) ==
  [u EXCEPT !.list.offset = Max({0, Min({@ + delta, u.list.total - u.list.height})}),
            !.list.loose = TRUE]

-----------------------------------------------------------------------------
(* Views, dialogs, forms and the palette *)

Sorted(names) == Kept(viewPlan.everyName, names)

\* Faulty: the index stays where it was in a longer list.
KeptIndex(index, n) == index

ClampedIndex(index, n) == Min({index, Max({0, n - 1})})

\* beginTUIView: profiles and history are read anew. Settings that cannot be read
\* have no profiles; a history that cannot be read stays as shown.
BeginView(u, view, names, events) ==
  LET opened == [u EXCEPT !.view = view, !.mode = "browse", !.form = NoForm, !.query = 0]
      read == IF viewPlan.readable THEN Sorted(names) ELSE <<>>
  IN CASE view = "profiles" -> [opened EXCEPT !.names = read, !.nameIndex = ClampedIndex(@, Len(read))]
       [] view = "history" /\ viewPlan.readable ->
            [opened EXCEPT !.events = events, !.eventIndex = ClampedIndex(@, events)]
       [] OTHER -> opened

ShownName(u) == IF u.nameIndex < Len(u.names) THEN u.names[u.nameIndex + 1] ELSE None

Destructive == {"delete", "profile-remove", "history-clear", "settings-reset"}

\* openDialog: Cancel is chosen first when something would be destroyed.
OpenDialog(u, kind, subject) ==
  [u EXCEPT !.mode = "dialog", !.drawn = FALSE,
            !.dialog = [kind |-> kind, subject |-> subject,
                        index |-> IF kind \in Destructive THEN 1 ELSE 0]]

Buttons(dialog) == IF dialog.kind = "help" THEN <<"cancel">> ELSE <<"confirm", "cancel">>

\* The question an action or a key asks, if there is something to ask about.
AskAbout(u, kind) ==
  LET at == ClampSelection(u)
  IN CASE kind = "switch" -> IF at.chosen \in {None, viewPlan.active} THEN at ELSE OpenDialog(at, kind, at.chosen)
       [] kind = "delete" -> IF at.chosen = None THEN at ELSE OpenDialog(at, kind, at.chosen)
       [] kind = "profile-remove" -> IF u.names = <<>> THEN u ELSE OpenDialog(u, kind, ShownName(u))
       [] kind = "history-clear" -> IF u.events = 0 THEN u ELSE OpenDialog(u, kind, None)
       [] OTHER -> OpenDialog(u, kind, None)

Fields(kind) ==
  CASE kind = "settings" -> 13
    [] kind \in {"profile-create", "profile-edit"} -> 4
    [] kind \in {"binding", "backup-export", "backup-import"} -> 3
    [] kind \in {"alias", "target", "backup-verify"} -> 2
    [] kind \in {"tags", "history-export"} -> 1

\* beginTUIForm: tags need an account, and the name is that of the profile shown.
BeginForm(u, kind) ==
  LET at == IF kind = "tags" THEN ClampSelection(u) ELSE u
  IN IF \/ kind = "tags" /\ at.chosen = None
        \/ kind = "profile-edit" /\ u.names = <<>>
        \/ kind = "history-export" /\ u.events = 0
       THEN at
       ELSE [at EXCEPT !.mode = "form",
                       !.form = [kind |-> kind, field |-> 0, previous |-> u.view,
                                 name |-> IF kind = "profile-edit" THEN ShownName(u) ELSE None]]

\* tuiActions: what the palette lists, and what of it can be done in this view.
Items(u) ==
  IF u.query = 0 THEN viewPlan.palette
  ELSE Kept(viewPlan.palette, IF u.query = 1 THEN viewPlan.sought ELSE {})

Enabled(u, id) ==
  CASE id \in {"switch", "tags", "profile-create"} -> u.order # <<>>
    [] id \in {"profile-edit", "profile-remove"} -> u.view = "profiles" /\ u.names # <<>>
    [] id \in {"history-clear", "history-export"} -> u.view = "history" /\ u.events > 0
    [] id \in {"settings", "settings-reset", "alias", "binding", "target"} -> u.view = "settings"
    [] id \in {"backup-export", "backup-import", "backup-verify"} -> u.view = "backup"
    [] OTHER -> TRUE

\* movePalette: past what cannot be done.
MovePalette(u, delta) ==
  LET items == Items(u)
      step(k) == Around(u.item, delta + (IF delta >= 0 THEN k ELSE -k), Len(items))
      doable == {k \in 0..(Len(items) - 1) : Enabled(u, items[step(k) + 1])}
  IN IF doable = {} THEN u ELSE [u EXCEPT !.item = step(Min(doable))]

\* runAction: views, questions and forms; the rest (commands that take the
\* terminal over, refreshes, the layout) leaves the user in the same place.
Views == {"dashboard", "profiles", "history", "settings", "doctor", "backup"}
Questions == {"switch", "profile-remove", "history-clear", "settings-reset", "update", "help"}
Forms == {"tags", "profile-create", "profile-edit", "history-export", "alias", "binding",
          "target", "backup-export", "backup-import", "backup-verify"}

RunAction(u, id) ==
  CASE id \in Views -> BeginView(u, id, savedNames, savedEvents)
    [] id \in Questions -> AskAbout(u, id)
    [] id \in Forms -> BeginForm(u, id)
    [] id = "settings-edit" -> BeginForm(u, "settings")
    [] id = "quit" -> [u EXCEPT !.mode = "left"]
    [] OTHER -> u

-----------------------------------------------------------------------------
(* Keys *)

\* The keys of every view, and those of one view, with what they do.
KeyAction ==
  [g |-> "dashboard", p |-> "profiles", h |-> "history", s |-> "settings", o |-> "doctor",
   u |-> "update", help |-> "help"]

ViewAction ==
  [dashboard |-> [enter |-> "switch", b |-> "backup", e |-> "tags"],
   profiles |-> [enter |-> "profile-edit", e |-> "profile-edit", c |-> "profile-create",
                 d |-> "profile-remove", b |-> "dashboard"],
   history |-> [c |-> "history-clear", x |-> "history-export", b |-> "dashboard"],
   settings |-> [enter |-> "settings-edit", e |-> "settings-edit", a |-> "alias", b |-> "binding", t |-> "target"],
   doctor |-> [b |-> "dashboard"],
   backup |-> [v |-> "backup-verify", x |-> "backup-export", i |-> "backup-import", b |-> "dashboard"]]

\* Half a page of accounts, five profiles or events.
PageOf(u) == IF u.view \in {"profiles", "history"} THEN 5 ELSE Max({1, Len(VisibleEmails(u)) \div 2})

Digits == <<"1", "2", "3">>

\* The keys while nothing else is open. Up and down do nothing in the views without
\* a list; a page, a boundary and a digit go to the accounts there.
BrowseKey(u, key) ==
  LET listed == u.view \in {"dashboard", "profiles", "history"}
      digit == IndexIn(Digits, key)
  IN CASE key = "esc" -> [u EXCEPT !.mode = "left"]
       [] key = "ctrl-k" -> [u EXCEPT !.mode = "palette", !.drawn = FALSE, !.query = 0, !.item = 0]
       [] key = "slash" -> [u EXCEPT !.mode = "search", !.previous = u.search, !.before = u.chosen,
                                 !.origin = [search |-> u.search, chosen |-> u.chosen]]
       [] key = "up" /\ listed -> MoveInView(u, -1)
       [] key = "down" /\ listed -> MoveInView(u, 1)
       [] key = "page-up" -> MoveInView(u, -PageOf(u))
       [] key = "page-down" -> MoveInView(u, PageOf(u))
       [] key = "home" -> ToBoundary(u, FALSE)
       [] key = "end" -> ToBoundary(u, TRUE)
       [] key \in DOMAIN KeyAction -> RunAction(u, KeyAction[key])
       [] key \in DOMAIN ViewAction[u.view] -> RunAction(u, ViewAction[u.view][key])
       [] key = "d" /\ u.view = "dashboard" -> AskAbout(u, "delete")
       [] digit \in DOMAIN VisibleEmails(u) -> [u EXCEPT !.chosen = VisibleEmails(u)[digit]]
       [] OTHER -> u

\* Faulty: the selection is looked for in the accounts that were searched.
RestoredTooSoon(u) ==
  [ClampSelection([u EXCEPT !.chosen = IF u.before = None THEN @ ELSE u.before])
     EXCEPT !.search = u.previous, !.before = None, !.mode = "browse"]

\* cancelSearch: the filter and the selection are those of before.
RestoredSearch(u) ==
  ClampSelection([u EXCEPT !.search = u.previous, !.before = None, !.mode = "browse",
                           !.chosen = IF u.before = None THEN @ ELSE u.before])

SearchKey(u, key) ==
  CASE key = "esc" -> RestoredSearch(u)
    [] key = "enter" -> ClampSelection([u EXCEPT !.mode = "browse", !.before = None])
    [] key = "backspace" -> ClampSelection([u EXCEPT !.search = Max({0, @ - 1})])
    [] key = "letter" -> ClampSelection([u EXCEPT !.search = Min({2, @ + 1})])
    [] OTHER -> u

\* Enter does what can be done in this view; Escape closes.
PaletteKey(u, key) ==
  CASE key = "esc" -> [u EXCEPT !.mode = "browse"]
    [] key = "up" -> MovePalette(u, -1)
    [] key = "down" -> MovePalette(u, 1)
    [] key = "page-up" -> MovePalette(u, -5)
    [] key = "page-down" -> MovePalette(u, 5)
    [] key = "backspace" /\ u.query > 0 -> [u EXCEPT !.query = @ - 1, !.item = 0]
    [] key = "letter" -> [u EXCEPT !.query = Min({2, @ + 1}), !.item = 0]
    [] key = "enter" /\ u.item < Len(Items(u)) /\ Enabled(u, Items(u)[u.item + 1]) ->
         RunAction([u EXCEPT !.mode = "browse"], Items(u)[u.item + 1])
    [] OTHER -> u

\* Escape closes a form and goes back to where it was opened.
FormCanceled(u) == [u EXCEPT !.mode = "browse", !.view = u.form.previous, !.form = NoForm]

\* formKey: Enter goes to the next field, and submits after the last.
Submits(u, key) == key = "enter" /\ u.form.field = Fields(u.form.kind) - 1

FormKey(u, key) ==
  LET n == Fields(u.form.kind)
      naming == u.form.kind \in {"profile-create", "profile-edit"} /\ u.form.field = 0
  IN CASE key = "esc" -> FormCanceled(u)
       [] key \in {"down", "enter"} -> [u EXCEPT !.form.field = Around(@, 1, n)]
       [] key = "up" -> [u EXCEPT !.form.field = Around(@, -1, n)]
       [] key = "letter" /\ naming -> [u EXCEPT !.form.name = viewPlan.typedName]
       [] key = "backspace" /\ naming -> [u EXCEPT !.form.name = None]
       [] OTHER -> u

\* dialogKey: which button a key presses; "" is none.
PressedButton(u, key) ==
  CASE u.dialog.kind = "help" -> "cancel"
    [] key = "enter" -> Buttons(u.dialog)[u.dialog.index + 1]
    [] key \in {"esc", "n"} -> "cancel"
    [] key = "y" -> "confirm"
    [] OTHER -> None

MoveButton(u, key) ==
  CASE key \in {"left", "up"} -> [u EXCEPT !.dialog.index = Max({0, @ - 1})]
    [] key \in {"right", "down"} -> [u EXCEPT !.dialog.index = Min({Len(Buttons(u.dialog)) - 1, @ + 1})]
    [] OTHER -> u

DialogClosed(u) == [u EXCEPT !.mode = "browse", !.dialog = ClosedDialog]

-----------------------------------------------------------------------------
(* The loop *)

FirstScreen ==
  [view |-> "dashboard", mode |-> "browse", drawn |-> FALSE,
   order |-> viewPlan.order, attention |-> {}, chosen |-> Head(viewPlan.order),
   search |-> 0, previous |-> 0, before |-> None, origin |-> [search |-> 0, chosen |-> None],
   names |-> <<>>, nameIndex |-> 0, events |-> 0, eventIndex |-> 0,
   dialog |-> ClosedDialog, form |-> NoForm, query |-> 0, item |-> 0, lines |-> 1, height |-> 0,
   list |-> [offset |-> 0, total |-> 0, height |-> 0, follow |-> None, loose |-> FALSE]]

\* A frame: its layout follows from the size of the terminal, the divider the user
\* moves and what the gauges of the selected account need.
Frame(u, layout) == ScrollTo([u EXCEPT !.lines = layout.lines, !.height = layout.height])

ViewsInit ==
  /\ viewPlan \in ViewPlans
  /\ queue = <<>>
  /\ \E layout \in viewPlan.layouts : ui = Frame(FirstScreen, layout)
  /\ savedNames = viewPlan.names /\ savedEvents = viewPlan.events
  /\ typed = 0 /\ outside = 0

\* What is drawn after an event was handled.
Shows(next) == \E u \in {next} : \E layout \in viewPlan.layouts : ui' = Frame(u, layout)

Running == ui.mode # "left"

\* The keyboard goroutine: keys, wheel, clicks and moves of the pointer.
TypeEvent ==
  /\ Running /\ Len(queue) < QueueRoom /\ typed < viewPlan.presses
  /\ \E e \in viewPlan.inputs : queue' = Append(queue, e)
  /\ typed' = typed + 1
  /\ UNCHANGED <<viewPlan, ui, savedNames, savedEvents, outside>>

\* The first event, when it is one of these keys and the screen is in this mode.
Heads(keys) == Running /\ queue # <<>> /\ Head(queue).key \in keys
Wheel == {"wheel-up", "wheel-down"}
Pointer == {"click", "hover"}
KeyIn(mode) ==
  /\ Running /\ ui.mode = mode /\ queue # <<>>
  /\ Head(queue).key \notin Wheel \cup Pointer
  /\ queue' = Tail(queue)
TheKey == Head(queue).key

HandleBrowse ==
  /\ KeyIn("browse") /\ Shows(BrowseKey(ui, TheKey))
  /\ UNCHANGED <<viewPlan, savedNames, savedEvents, typed, outside>>

HandleSearch ==
  /\ KeyIn("search") /\ Shows(SearchKey(ui, TheKey))
  /\ UNCHANGED <<viewPlan, savedNames, savedEvents, typed, outside>>

HandlePalette ==
  /\ KeyIn("palette") /\ Shows(PaletteKey(ui, TheKey))
  /\ UNCHANGED <<viewPlan, savedNames, savedEvents, typed, outside>>

HandleForm ==
  /\ KeyIn("form") /\ ~Submits(ui, TheKey) /\ Shows(FormKey(ui, TheKey))
  /\ UNCHANGED <<viewPlan, savedNames, savedEvents, typed, outside>>

\* submitForm: a profile is saved if it has a name and its account is found; the
\* view the form was opened from is read anew, but for backups and exports.
SubmitForm ==
  /\ KeyIn("form") /\ Submits(ui, TheKey)
  /\ \E saves \in BOOLEAN :
       /\ saves => /\ ui.form.kind \in {"profile-create", "profile-edit"}
                   /\ ui.form.name # None /\ viewPlan.readable
       /\ savedNames' = IF saves THEN savedNames \cup {ui.form.name} ELSE savedNames
       /\ Shows(IF ui.form.kind \in {"backup-export", "backup-import", "backup-verify", "history-export"}
                  THEN [ui EXCEPT !.mode = "browse", !.form = NoForm]
                  ELSE BeginView(ui, ui.form.previous, savedNames', savedEvents))
  /\ UNCHANGED <<viewPlan, savedEvents, typed, outside>>

HandleDialog ==
  /\ KeyIn("dialog") /\ PressedButton(ui, TheKey) # "confirm"
  /\ Shows(IF PressedButton(ui, TheKey) = "cancel" THEN DialogClosed(ui) ELSE MoveButton(ui, TheKey))
  /\ UNCHANGED <<viewPlan, savedNames, savedEvents, typed, outside>>

\* A question is confirmed, and done unless the file cannot be read or written.
Confirm(kind) == KeyIn("dialog") /\ PressedButton(ui, TheKey) = "confirm" /\ ui.dialog.kind = kind

ConfirmFails ==
  /\ \E kind \in Destructive \cup {"switch", "update"} : Confirm(kind)
  /\ Shows(DialogClosed(ui))
  /\ UNCHANGED <<viewPlan, savedNames, savedEvents, typed, outside>>

RemoveShownProfile ==
  /\ Confirm("profile-remove") /\ viewPlan.readable
  /\ savedNames' = savedNames \ {ui.dialog.subject}
  /\ Shows(BeginView(DialogClosed(ui), "profiles", savedNames', savedEvents))
  /\ UNCHANGED <<viewPlan, savedEvents, typed, outside>>

ClearEvents ==
  /\ Confirm("history-clear")
  /\ savedEvents' = 0
  /\ Shows([DialogClosed(ui) EXCEPT !.events = 0, !.eventIndex = 0])
  /\ UNCHANGED <<viewPlan, savedNames, typed, outside>>

ResetToDefaults ==
  /\ Confirm("settings-reset")
  /\ savedNames' = {}
  /\ Shows(BeginView(DialogClosed(ui), "settings", {}, savedEvents))
  /\ UNCHANGED <<viewPlan, savedEvents, typed, outside>>

DeleteShownAccount ==
  /\ Confirm("delete")
  /\ Shows(ClampSelection([DialogClosed(ui) EXCEPT !.order = Kept(@, ToSet(@) \ {ui.dialog.subject})]))
  /\ UNCHANGED <<viewPlan, savedNames, savedEvents, typed, outside>>

-----------------------------------------------------------------------------
(* The pointer *)

\* The wheel scrolls the list that does not fit, whatever is open above it; else
\* it moves the selection.
HandleWheel ==
  /\ Heads(Wheel)
  /\ queue' = Tail(queue)
  /\ LET delta == IF TheKey = "wheel-up" THEN -1 ELSE 1
         overList == Head(queue).at = 0
     IN Shows(CASE overList /\ CanScroll(ui) -> ScrollBy(ui, 3 * delta)
                [] ui.mode = "palette" -> MovePalette(ui, delta)
                [] ui.mode = "browse" -> MoveInView(ui, delta)
                [] OTHER -> ui)
  /\ UNCHANGED <<viewPlan, savedNames, savedEvents, typed, outside>>

\* tuiPointer, hitAt: the button or row under the pointer, once the dialog or the
\* palette is drawn (tui_render.go:282); no other targets are clicked here.
PointedAt(u, at) ==
  IF u.drawn /\ at \in 0..((IF u.mode = "dialog" THEN Len(Buttons(u.dialog)) ELSE Len(Items(u))) - 1)
    THEN at ELSE Beside

Points(u, at) ==
  IF u.mode = "dialog" THEN [u EXCEPT !.dialog.index = at] ELSE [u EXCEPT !.item = at]

Modal(u) == u.mode \in {"dialog", "palette"}

\* The event a click adds is lost when the queue is full.
Add(events, e) == IF Len(events) < QueueRoom THEN Append(events, e) ELSE events

HandleClick ==
  /\ Heads({"click"})
  /\ LET at == PointedAt(ui, Head(queue).at)
     IN CASE ~Modal(ui) -> queue' = Tail(queue) /\ UNCHANGED ui
          [] Modal(ui) /\ at = Beside -> queue' = Add(Tail(queue), Event("esc", Beside)) /\ UNCHANGED ui
          [] OTHER -> queue' = Add(Tail(queue), Event("enter", at)) /\ ui' = Points(ui, at)
  /\ UNCHANGED <<viewPlan, savedNames, savedEvents, typed, outside>>

\* tuiHover: the choice follows the pointer.
HandleHover ==
  /\ Heads({"hover"})
  /\ queue' = Tail(queue)
  /\ LET at == PointedAt(ui, Head(queue).at)
     IN ui' = IF Modal(ui) /\ at # Beside THEN Points(ui, at) ELSE ui
  /\ UNCHANGED <<viewPlan, savedNames, savedEvents, typed, outside>>

\* The dialog or the palette is open; its buttons and rows can be clicked.
DrawModal ==
  /\ Modal(ui) /\ ~ui.drawn
  /\ ui' = [ui EXCEPT !.drawn = TRUE]
  /\ UNCHANGED <<viewPlan, queue, savedNames, savedEvents, typed, outside>>

-----------------------------------------------------------------------------
(* What others do *)

Disturbs(what) == what \in viewPlan.others /\ Running /\ outside < viewPlan.changes /\ outside' = outside + 1

\* setAccounts: an account goes, comes back, or needs attention.
TakeAccounts ==
  /\ Disturbs("accounts")
  /\ \E e \in ToSet(viewPlan.order) :
       LET gone == [ui EXCEPT !.order = Kept(viewPlan.order, ToSet(ui.order) \ {e})]
           back == [ui EXCEPT !.order = Kept(viewPlan.order, ToSet(ui.order) \cup {e})]
           marked == [ui EXCEPT !.attention = @ \cup {e}]
       IN \E u \in {gone, back, marked} : Shows(ClampSelection(u))
  /\ UNCHANGED <<viewPlan, queue, savedNames, savedEvents, typed>>

OthersSave ==
  /\ Disturbs("files")
  /\ \/ \E n \in ToSet(viewPlan.everyName) : savedNames' = savedNames \ {n} /\ UNCHANGED savedEvents
     \/ savedEvents' \in {0, savedEvents + 1} /\ UNCHANGED savedNames
  /\ UNCHANGED <<viewPlan, queue, ui, typed>>

\* The clock, an animation or a new size of the terminal.
Redraw ==
  /\ Running /\ Shows(ui)
  /\ UNCHANGED <<viewPlan, queue, savedNames, savedEvents, typed, outside>>

-----------------------------------------------------------------------------
HandleKey == HandleBrowse \/ HandleSearch \/ HandlePalette \/ HandleForm \/ SubmitForm \/ HandleDialog
HandleConfirm == ConfirmFails \/ RemoveShownProfile \/ ClearEvents \/ ResetToDefaults \/ DeleteShownAccount
HandlePointer == HandleWheel \/ HandleClick \/ HandleHover
HandleEvent == HandleKey \/ HandleConfirm \/ HandlePointer

ViewsNext ==
  \/ TypeEvent \/ HandleEvent \/ DrawModal
  \/ TakeAccounts \/ OthersSave \/ Redraw

ViewsSpec == ViewsInit /\ [][ViewsNext]_viewVars

-----------------------------------------------------------------------------
(* Properties *)

\* What is chosen on the screen is there: the selected account is found by the
\* search, the profile and the event are in their lists, the button is one of the
\* dialog's, whatever else was saved meanwhile.
ChosenIsShown ==
  /\ ui.chosen = (IF VisibleEmails(ui) = <<>> THEN None ELSE ClampSelection(ui).chosen)
  /\ ui.nameIndex = 0 \/ ui.nameIndex < Len(ui.names)
  /\ ui.eventIndex = 0 \/ ui.eventIndex < ui.events
  /\ ui.mode = "dialog" => ui.dialog.index < Len(Buttons(ui.dialog))
  /\ ui.mode = "palette" => ui.item = 0 \/ ui.item < Len(Items(ui))

\* When another account is selected, by a key, the wheel or a change of the
\* accounts, or the layout changes, all its rows are drawn, or nothing but rows of it
\* where the list has fewer; and they stay in sight until the user scrolls.  Where
\* the list has no row at all, nothing is (tui_rows.go:192).
SelectionInSight ==
  ui.view = "dashboard" /\ ui.chosen # None /\ Running /\ ui.height > 0 =>
    LET top == IndexIn(ListRows(ui), ui.chosen) - 1
        end == top + ui.lines
        offset == ui.list.offset
    IN \/ offset <= top /\ end <= offset + ui.height
       \/ ui.height < ui.lines /\ top <= offset /\ offset + ui.height <= end
       \/ ui.list.loose /\ ui.list.follow = ui.chosen

\* A search that is given up leaves the filter it began with, and selects what was
\* selected then unless that account is gone from the list meanwhile.
SearchRestores ==
  [][ui.mode = "search" /\ HandleSearch /\ Head(queue).key = "esc" =>
       /\ ui'.search = ui.origin.search
       /\ ui.origin.chosen \in ToSet(VisibleEmails(ui')) => ui'.chosen = ui.origin.chosen]_viewVars

\* A click on a dialog button chooses it, one on a palette row runs it, one beside
\* a dialog closes it (README.md:152): when the key the click has added is
\* handled, that dialog is open and that button is the chosen one.
ClickedIsChosen ==
  [][\A at \in {Beside} \cup 0..1 :
       HandleEvent /\ queue # <<>> /\ Head(queue) = Event("enter", at) =>
         Modal(ui) /\ PointedAt(ui, at) = at /\ Points(ui, at) = ui]_viewVars
================================================================================
