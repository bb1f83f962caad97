----------------------------- MODULE Placement -----------------------------
(***************************************************************************)
(* Where the overlay window stands (desktop/src-tauri/src/main.rs,           *)
(* display_watch.rs).  Three threads place it: the main thread, for the tray *)
(* and for ScaleFactorChanged; the display watcher, when a poll finds other  *)
(* monitors; and the startup thread, which repeats the placement three times.*)
(* They share CurrentCorner, the preferences and the last fingerprint, each  *)
(* under its mutex, and hold none of them while apply_corner asks for the    *)
(* monitor and moves the window: a placement may go by a corner, a text size *)
(* or a monitor that another thread has replaced, and overwrite a newer one. *)
(* Nothing repairs that; `stale' says that it is so.                         *)
(***************************************************************************)
EXTENDS PlacementState, Sequences

CONSTANTS
    Corners, Sizes,  \* config.rs Corner, preferences.rs TextSize
    Reassertions,    \* STARTUP_POSITION_REASSERT_DELAYS.len()
    MaxItems,        \* bound: tray items chosen and scale events
    MaxLayouts       \* bound: layouts of the monitors

ASSUME PlacementAssumption ==
    /\ Nothing \notin {"move", "size", "scale", "check", "reassert"}
    /\ {Reassertions, MaxItems, MaxLayouts} \subseteq Nat /\ MaxLayouts > 0

VARIABLES
    size,      \* prefs.display.text_size
    layout,    \* the monitors' layout (a version)
    seen,      \* DisplayWatcher.last_fingerprint; 0 before the first sample
    items

vars == <<corner, saved, size, at, layout, seen, doing, left, items, stale>>

(* The steps of each operation, in the code's order; "insets", "measure" and *)
(* "set" are apply_corner.                                                   *)
Program == [move     |-> <<"insets", "measure", "set", "pin", "save">>,
            size     |-> <<"resize", "corner", "insets", "measure", "set">>,
            scale    |-> <<"corner", "insets", "measure", "set",
                           "sample", "compare", "corner", "insets", "measure", "set">>,
            check    |-> <<"sample", "compare", "corner", "insets", "measure", "set">>,
            reassert |-> <<"corner", "insets", "measure", "set">>]
Threads == {"menu", "watch", "start"}

(* An operation under way: its step and its local variables.                 *)
Begun(do, to) == [do |-> do, k |-> 1, to |-> to, insets |-> Nothing, saw |-> 0]
Idle == Begun(Nothing, Nothing)
At(t, step) == ~IsFree(t) /\ Program[doing[t].do][doing[t].k] = step
Advanced(r) == IF r.k = Len(Program[r.do]) THEN Idle ELSE [r EXCEPT !.k = @ + 1]
Advance(t) == doing' = [doing EXCEPT ![t] = Advanced(@)]
(* What the operation has used up it forgets.                                *)
Used(r) == [Advanced(r) EXCEPT !.insets = Nothing, !.saw = 0]

Place(c, l, s) == [corner |-> c, layout |-> l, size |-> s]

(* Where thread t should put the window now: in the corner chosen, from when *)
(* the main thread has moved it there, with the present monitors and size.   *)
Wanted(t) ==
    Place(IF doing["menu"].do = "move" /\ (t = "menu" \/ At("menu", "pin"))
          THEN doing["menu"].to ELSE corner, layout, size)

(* main(): placed once, the threads just spawned. *)
Init ==
    /\ corner \in Corners /\ saved = corner /\ size \in Sizes
    /\ layout = 1 /\ seen = 0 /\ at = Place(corner, layout, size)
    /\ doing = [t \in Threads |-> Idle]
    /\ left = Reassertions /\ items = 0 /\ stale = FALSE

(* The main thread takes an event: a position item, a text size item, or     *)
(* WindowEvent::ScaleFactorChanged.                                          *)
Choose(do, to) ==
    /\ IsFree("menu") /\ items < MaxItems /\ items' = items + 1
    /\ doing' = [doing EXCEPT !["menu"] = Begun(do, to)]
    /\ UNCHANGED <<corner, saved, size, at, layout, seen, left, stale>>

Reposition == \E c \in Corners : Choose("move", c)
ChangeTextSize == \E s \in Sizes : Choose("size", s)
ScaleFactorChanged == Choose("scale", Nothing)
----------------------------------------------------------------------------
(* apply_corner *)

(* The text size is read under the preferences' mutex, which is released. *)
ReadInsets(t) ==
    /\ At(t, "insets")
    /\ doing' = [doing EXCEPT ![t] = [Advanced(@) EXCEPT !.insets = size]]
    /\ UNCHANGED <<corner, saved, size, at, layout, seen, left, items, stale>>

(* The monitor and the window's size are asked for. *)
Measure(t) ==
    /\ At(t, "measure")
    /\ doing' = [doing EXCEPT ![t] = [Advanced(@) EXCEPT !.saw = layout]]
    /\ UNCHANGED <<corner, saved, size, at, layout, seen, left, items, stale>>

(* There is no window, no monitor or no size: apply_corner returns. *)
GiveUp(t) ==
    /\ At(t, "measure")
    /\ stale' = (stale \/ at # Wanted(t))
    /\ doing' = [doing EXCEPT ![t] = Used(Advanced(@))]
    /\ UNCHANGED <<corner, saved, size, at, layout, seen, left, items>>

(* Seeded fault: a background thread keeps the corner the window is in. *)
SetPositionKeeps(t) ==
    LET r == doing[t] IN
    /\ At(t, "set")
    /\ at' = Place(IF t = "menu" THEN r.to ELSE at.corner, r.saw, r.insets)
    /\ stale' = (Place(r.to, r.saw, r.insets) # Wanted(t))
    /\ doing' = [doing EXCEPT ![t] = Used(@)]
    /\ UNCHANGED <<corner, saved, size, layout, seen, left, items>>

(* set_position, with what was read since. *)
SetPosition(t) ==
    LET r == doing[t] IN
    /\ At(t, "set")
    /\ at' = Place(r.to, r.saw, r.insets)
    /\ stale' = (at' # Wanted(t))
    /\ doing' = [doing EXCEPT ![t] = Used(@)]
    /\ UNCHANGED <<corner, saved, size, layout, seen, left, items>>
----------------------------------------------------------------------------
(* Only after the window has moved does the menu set CurrentCorner ... *)
Pin(t) ==
    /\ At(t, "pin") /\ corner' = doing[t].to /\ Advance(t)
    /\ UNCHANGED <<saved, size, at, layout, seen, left, items, stale>>

(* ... and then persist_preferences. *)
Save(t) ==
    /\ At(t, "save") /\ saved' = doing[t].to /\ Advance(t)
    /\ UNCHANGED <<corner, size, at, layout, seen, left, items, stale>>

Resize(t) ==
    /\ At(t, "resize") /\ size' = doing[t].to /\ Advance(t)
    /\ UNCHANGED <<corner, saved, at, layout, seen, left, items, stale>>

(* CurrentCorner is read under its mutex and applied after it is released. *)
ReadCorner(t) ==
    /\ At(t, "corner")
    /\ doing' = [doing EXCEPT ![t] = [Advanced(@) EXCEPT !.to = corner]]
    /\ UNCHANGED <<corner, saved, size, at, layout, seen, left, items, stale>>

(* DisplayWatcher.check, by the poll or by ScaleFactorChanged's trigger: the *)
(* monitors are sampled before the last fingerprint is locked.               *)
Sample(t) ==
    /\ At(t, "sample")
    /\ doing' = [doing EXCEPT ![t] = [Advanced(@) EXCEPT !.saw = layout]]
    /\ UNCHANGED <<corner, saved, size, at, layout, seen, left, items, stale>>

(* They cannot be listed: check returns. *)
NoSample(t) ==
    /\ At(t, "sample")
    /\ doing' = [doing EXCEPT ![t] = Idle]
    /\ UNCHANGED <<corner, saved, size, at, layout, seen, left, items, stale>>


(* The first sample is the baseline; after it any difference re-pins. *)
Compare(t) ==
    /\ At(t, "compare") /\ seen' = doing[t].saw
    /\ doing' = [doing EXCEPT ![t] = IF seen \notin {0, @.saw} THEN Used(@) ELSE Idle]
    /\ UNCHANGED <<corner, saved, size, at, layout, left, items, stale>>

(* The polling loop.  A poll that would find what it found last does nothing. *)
Poll ==
    /\ IsFree("watch") /\ seen # layout
    /\ doing' = [doing EXCEPT !["watch"] = Begun("check", Nothing)]
    /\ UNCHANGED <<corner, saved, size, at, layout, seen, left, items, stale>>

(* spawn_startup_position_reassertions.  The watcher samples as its thread   *)
(* starts, before the last of the delays, a second, is over.                 *)
Reassert ==
    /\ left > 0 /\ IsFree("start") /\ (left = 1 => seen > 0)
    /\ left' = left - 1
    /\ doing' = [doing EXCEPT !["start"] = Begun("reassert", Nothing)]
    /\ UNCHANGED <<corner, saved, size, at, layout, seen, items, stale>>

(* The monitors change.  External. *)
LayoutChanges ==
    /\ layout < MaxLayouts /\ layout' = layout + 1
    /\ UNCHANGED <<corner, saved, size, at, seen, doing, left, items, stale>>

(* GTK maps the window late and the window manager puts it elsewhere.        *)
(* External, and over before the last reassertion.                           *)
Elsewhere(c) ==
    /\ left > 0 /\ at' = Place(c, layout, size)
    /\ UNCHANGED <<corner, saved, size, layout, seen, doing, left, items, stale>>

Step(t) == \/ ReadInsets(t) \/ Measure(t) \/ GiveUp(t) \/ SetPosition(t)
           \/ Pin(t) \/ Save(t) \/ Resize(t)
           \/ ReadCorner(t) \/ Sample(t) \/ NoSample(t) \/ Compare(t)

Next ==
    \/ Reposition \/ ChangeTextSize \/ ScaleFactorChanged
    \/ \E t \in Threads : Step(t)
    \/ Poll \/ Reassert \/ LayoutChanges
    \/ \E c \in Corners : Elsewhere(c)

(* Every thread is scheduled, the polling loop never ends, and the monitors  *)
(* can be listed again and again.                                            *)
Fairness ==
    /\ WF_vars(Poll) /\ WF_vars(Reassert) /\ \A t \in Threads : WF_vars(Step(t))
    /\ SF_vars(Sample("watch"))

Spec == Init /\ [][Next]_vars /\ Fairness

----------------------------------------------------------------------------
=============================================================================
