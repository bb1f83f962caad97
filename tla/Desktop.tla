------------------------------ MODULE Desktop ------------------------------
(***************************************************************************)
(* The native side of the contestants' overlay (desktop/src-tauri) and the   *)
(* copies its page keeps.  Whether the overlay shows is held in six places:  *)
(* AppState.visible (what `ctl status` reports), the window, the tray label, *)
(* Preferences in memory and on disk, and the page.  The tray menu (main     *)
(* thread) and the IPC thread change them step by step, each step under a    *)
(* mutex of its own or none; preferences also carry the tray's other choices.*)
(*                                                                         *)
(* An operation is a program: the sequence of its steps.  A thread runs one  *)
(* program at a time, as the main thread's event loop and the IPC accept     *)
(* loop do.  Where the window goes is module Placement.                      *)
(***************************************************************************)
EXTENDS Naturals, Sequences

CONSTANTS
    Corners,        \* config.rs Corner
    DefaultCorner,  \* resolve_default_position of the machine's config
    None,
    FirstFiles,     \* the preferences files an installation may start from
    MaxOps,         \* bound: operations of the tray menu, of IPC and second launches
    MaxRestarts     \* bound: crashes or exits of the app

(* Alarm, flash, colour and text size are persisted the way the corner is,   *)
(* without its event; `loud` stands for them.                                *)
Prefs == [hidden : BOOLEAN, corner : Corners, loud : BOOLEAN]
Kinds == {"none", "current", "older", "foreign"}   \* foreign: malformed, or newer

ASSUME DesktopAssumption ==
    /\ DefaultCorner \in Corners /\ MaxOps \in Nat /\ MaxRestarts \in Nat
    /\ FirstFiles \subseteq [kind : Kinds, prefs : Prefs]
    /\ None \notin Prefs \cup {"show", "hide", "toggle", "move", "setting"}

VARIABLES
    running,    \* the process is up
    ready,      \* setup has finished: the label listener is registered
    visible,    \* AppState.visible
    shown,      \* the overlay window is shown
    label,      \* what the tray's toggle item believes
    prefs,      \* ManagedBootstrap.prefs
    file,       \* the preferences file
    failed,     \* the last write of it failed (logged, not retried)
    th,         \* what each thread is doing
    page,       \* the page's copies
    bus,        \* events on their way to the page
    ops, restarts,
    alone       \* history: the last change of each copy met no other change

app == <<running, ready>>
window == <<visible, shown, label>>
stored == <<prefs, file, failed>>
vars == <<app, window, stored, th, page, bus, ops, restarts, alone>>

Copies == {"shown", "corner", "prefs"}
Threads == {"menu", "ipc"}

(* The steps of each operation, in the code's order. *)
Show == <<"write", "window", "emit", "label", "persist", "tell">>
Program == [show    |-> Show,
            hide    |-> Show,
            toggle  |-> <<"read">> \o Show,
            move    |-> <<"emit", "persist", "tell">>,
            setting |-> <<"persist", "tell">>]

Idle == [do |-> None, k |-> 0, to |-> None, was |-> None]
IsIdle(t) == th[t].do = None
At(t, step) == ~IsIdle(t) /\ Program[th[t].do][th[t].k] = step
Advanced(r) == IF r.k = Len(Program[r.do]) THEN Idle ELSE [r EXCEPT !.k = @ + 1]
Advance(t) == th' = [th EXCEPT ![t] = Advanced(@)]

(* bootstrap(): load_from_path, apply_default_corner.  A file that is there  *)
(* and parses is the user's word; any other leaves the defaults.             *)
DefaultPrefs == [hidden |-> FALSE, corner |-> DefaultCorner, loud |-> TRUE]
Loaded(f) == IF f.kind \in {"current", "older"} THEN f.prefs ELSE DefaultPrefs
Saved(p) == [kind |-> "current", prefs |-> p]
NoPage == [listening |-> FALSE, asked |-> FALSE, reply |-> None, loaded |-> FALSE,
           visible |-> TRUE, corner |-> None, prefs |-> None]

Init ==
    /\ file \in FirstFiles
    /\ running = FALSE /\ ready = FALSE /\ failed = FALSE
    /\ visible = FALSE /\ shown = FALSE /\ label = FALSE
    /\ prefs = DefaultPrefs
    /\ th = [t \in Threads |-> Idle] /\ page = NoPage /\ bus = <<>>
    /\ ops = 0 /\ restarts = 0 /\ alone = [c \in Copies |-> TRUE]

(* main(): bootstrap, and setup up to ipc_server::run.  A missing or an older *)
(* file is written; a malformed or a newer one is left as it is.              *)
Start ==
    /\ ~running
    /\ LET p == Loaded(file) IN
       /\ \/ file.kind \in {"none", "older"} /\ file' = Saved(p) /\ failed' = FALSE
          \/ file.kind \in {"none", "older"} /\ file' = file /\ failed' = TRUE
          \/ file.kind \in {"current", "foreign"} /\ file' = file /\ failed' = FALSE
       /\ prefs' = p
       /\ visible' = ~p.hidden /\ shown' = ~p.hidden /\ label' = ~p.hidden
    /\ running' = TRUE /\ ready' = FALSE
    /\ alone' = [c \in Copies |-> TRUE]
    /\ UNCHANGED <<th, page, bus, ops, restarts>>

(* build_tray and, last, the listener of "overlay:set-visible". *)
TrayReady ==
    /\ running /\ ~ready /\ ready' = TRUE
    /\ UNCHANGED <<running, window, stored, th, page, bus, ops, restarts, alone>>

(* Exit, crash or kill, between any two steps: only the file is left. *)
Stop ==
    /\ running /\ restarts < MaxRestarts
    /\ restarts' = restarts + 1
    /\ running' = FALSE /\ ready' = FALSE
    /\ th' = [t \in Threads |-> Idle] /\ page' = NoPage /\ bus' = <<>>
    /\ UNCHANGED <<window, stored, ops, alone>>

(* tauri_plugin_single_instance: a second launch shows the window, no more. *)
SecondLaunch ==
    /\ running /\ ops < MaxOps /\ IsIdle("menu")
    /\ ops' = ops + 1 /\ shown' = TRUE
    /\ alone' = [alone EXCEPT !["shown"] = FALSE]
    /\ UNCHANGED <<app, visible, label, stored, th, page, bus, restarts>>

----------------------------------------------------------------------------
(* Operations begin. *)
Touches(do) ==
    {"prefs"} \cup CASE do = "move" -> {"corner"}
                     [] do = "setting" -> {}
                     [] OTHER -> {"shown"}

PageReady == page.loaded /\ page.listening

Call(t, do, to) ==
    /\ running /\ IsIdle(t) /\ ops < MaxOps
    /\ ops' = ops + 1
    /\ th' = [th EXCEPT ![t] = [do |-> do, k |-> 1, to |-> to, was |-> None]]
    /\ LET quiet == ready /\ PageReady /\ \A u \in Threads : IsIdle(u)
       IN alone' = [c \in Copies |-> IF c \in Touches(do) THEN quiet ELSE alone[c]]
    /\ UNCHANGED <<app, window, stored, page, bus, restarts>>

TrayToggle == ready /\ Call("menu", "toggle", None)
TrayReposition == ready /\ \E c \in Corners : Call("menu", "move", c)
TraySetting == ready /\ Call("menu", "setting", ~prefs.loud)
IpcShow == Call("ipc", "show", TRUE)
IpcHide == Call("ipc", "hide", FALSE)
IpcToggle == Call("ipc", "toggle", None)

----------------------------------------------------------------------------
(* Steps of a visibility change: do_toggle, do_set_visible and its effect.   *)
(* do_toggle reads under one lock and do_set_visible writes under another.   *)
ReadVisible(t) ==
    /\ At(t, "read")
    /\ th' = [th EXCEPT ![t] = [Advanced(@) EXCEPT !.to = ~visible]]
    /\ UNCHANGED <<app, window, stored, page, bus, ops, restarts, alone>>

WriteVisible(t) ==
    /\ At(t, "write") /\ visible' = th[t].to /\ Advance(t)
    /\ UNCHANGED <<app, shown, label, stored, page, bus, ops, restarts, alone>>

(* apply_visibility.  Off the main thread tao queues the call for it, in the *)
(* caller's order; here it takes effect at once.                             *)
ApplyVisibility(t) ==
    /\ At(t, "window") /\ shown' = th[t].to /\ Advance(t)
    /\ UNCHANGED <<app, visible, label, stored, page, bus, ops, restarts, alone>>

(* app.emit: the page gets "overlay:set-visible" or "overlay:set-corner". *)
Emit(t) ==
    /\ At(t, "emit")
    /\ bus' = Append(bus, [topic |-> IF th[t].do = "move" THEN "corner" ELSE "visible",
                           value |-> th[t].to])
    /\ Advance(t)
    /\ UNCHANGED <<app, window, stored, page, ops, restarts, alone>>

(* ... and the Rust listener retitles the tray item, on the main thread.  It *)
(* is registered last, and an event before that is lost on it.               *)
SetLabel(t) ==
    /\ At(t, "label") /\ (t = "ipc" => IsIdle("menu"))
    /\ label' = IF ready THEN th[t].to ELSE label
    /\ Advance(t)
    /\ UNCHANGED <<app, visible, shown, stored, page, bus, ops, restarts, alone>>

----------------------------------------------------------------------------
(* persist_preferences: patch, normalize, write and snapshot under the       *)
(* bootstrap mutex; the event is emitted after it is released.               *)
Patch(p, op) ==
    CASE op.do = "move" -> [p EXCEPT !.corner = op.to]
      [] op.do = "setting" -> [p EXCEPT !.loud = ~@]
      [] OTHER -> [p EXCEPT !.hidden = ~op.to]

Persist(t) ==
    /\ At(t, "persist")
    /\ prefs' = Patch(prefs, th[t])
    /\ th' = [th EXCEPT ![t] = [Advanced(@) EXCEPT !.was = prefs']]
    /\ \E ok \in BOOLEAN : /\ file' = IF ok THEN Saved(prefs') ELSE file
                           /\ failed' = ~ok
    /\ UNCHANGED <<app, window, page, bus, ops, restarts, alone>>

(* Seeded fault: the snapshot is written once the mutex is released. *)
TellAndWrite(t) ==
    /\ At(t, "tell")
    /\ bus' = Append(bus, [topic |-> "prefs", value |-> th[t].was])
    /\ file' = Saved(th[t].was) /\ failed' = FALSE
    /\ Advance(t)
    /\ UNCHANGED <<app, window, prefs, page, ops, restarts, alone>>

Tell(t) ==
    /\ At(t, "tell")
    /\ bus' = Append(bus, [topic |-> "prefs", value |-> th[t].was])
    /\ Advance(t)
    /\ UNCHANGED <<app, window, stored, page, ops, restarts, alone>>

----------------------------------------------------------------------------
(* The page: its listeners are registered, and get_bootstrap answered, in    *)
(* either order.                                                             *)
PageListens ==
    /\ running /\ ~page.listening
    /\ page' = [page EXCEPT !.listening = TRUE]
    /\ UNCHANGED <<app, window, stored, th, bus, ops, restarts, alone>>

(* get_bootstrap runs on the main thread. *)
GetBootstrap ==
    /\ running /\ ~page.asked /\ IsIdle("menu")
    /\ page' = [page EXCEPT !.asked = TRUE, !.reply = prefs]
    /\ UNCHANGED <<app, window, stored, th, bus, ops, restarts, alone>>

BootstrapArrives ==
    /\ page.reply # None
    /\ LET p == page.reply IN
       page' = [page EXCEPT !.loaded = TRUE, !.reply = None, !.prefs = p,
                            !.visible = ~p.hidden, !.corner = p.corner]
    /\ UNCHANGED <<app, window, stored, th, bus, ops, restarts, alone>>

(* Seeded fault: a preferences event is taken for the initial ones only. *)
ReceivedOnce(pg, e) ==
    IF ~pg.listening THEN pg
    ELSE CASE e.topic = "visible" -> [pg EXCEPT !.visible = e.value]
           [] e.topic = "corner" -> [pg EXCEPT !.corner = e.value]
           [] OTHER -> pg

(* The page's four listeners of the events above. *)
Received(pg, e) ==
    IF ~pg.listening THEN pg
    ELSE CASE e.topic = "visible" -> [pg EXCEPT !.visible = e.value]
           [] e.topic = "corner" -> [pg EXCEPT !.corner = e.value]
           [] OTHER -> IF pg.loaded THEN [pg EXCEPT !.prefs = e.value] ELSE pg

EventArrives ==
    /\ bus # <<>>
    /\ page' = Received(page, Head(bus)) /\ bus' = Tail(bus)
    /\ UNCHANGED <<app, window, stored, th, ops, restarts, alone>>

----------------------------------------------------------------------------
Step(t) == \/ ReadVisible(t) \/ WriteVisible(t) \/ ApplyVisibility(t)
           \/ Emit(t) \/ SetLabel(t) \/ Persist(t) \/ Tell(t)
Page == PageListens \/ GetBootstrap \/ BootstrapArrives \/ EventArrives

Next ==
    \/ Start \/ TrayReady \/ Stop \/ SecondLaunch
    \/ TrayToggle \/ TrayReposition \/ TraySetting
    \/ IpcShow \/ IpcHide \/ IpcToggle
    \/ \E t \in Threads : Step(t)
    \/ Page

Spec == Init /\ [][Next]_vars

----------------------------------------------------------------------------
Settled == running /\ ready /\ \A t \in Threads : IsIdle(t)
Delivered == PageReady /\ bus = <<>>

(* Whatever mixed the copies up before (overlapping tray and IPC toggles, a  *)
(* second launch, an event before its listener), one change that runs alone  *)
(* to its end puts every copy of what it changes at one value again:         *)
(* AppState, the window, the tray label, the preferences and the page.       *)
(* AppState.do_set_visible and its effect, of which main.rs says "otherwise  *)
(* AppState.visible would drift away from the real window state".            *)
CopiesAgree ==
    Settled =>
        /\ alone["shown"] => /\ shown = visible /\ label = visible
                             /\ prefs.hidden = ~visible
                             /\ Delivered => page.visible = visible
        /\ alone["corner"] /\ Delivered => page.corner = prefs.corner
        /\ alone["prefs"] /\ Delivered => page.prefs = prefs

(* Unless the last write failed the file holds every choice both threads     *)
(* have made: no write is overtaken by an older one, and a restart finds the *)
(* latest.  persist_preferences writes before it releases the mutex.         *)
FileHoldsEveryChoice ==
    running /\ ~failed /\ file.kind = "current" => file.prefs = prefs
=============================================================================
