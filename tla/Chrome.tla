------------------------------ MODULE Chrome ------------------------------
(***************************************************************************)
(* What the application draws around its phases and above them             *)
(* (app/app.go, ui/components/{statusbar,helpbar,settings}): the status    *)
(* and help bars, whose height the dashboard is told of by a message of    *)
(* its own; and the settings overlay, whose choices travel to the          *)
(* application's configuration, to its file and to every component's       *)
(* theme.  The dashboard keeps copies of configuration and theme, from     *)
(* which a live reload makes the next dashboard.                           *)
(*                                                                         *)
(* Commands deliver their messages in any order.  A theme is its place     *)
(* among the builtin ones, Custom is one of the user's own.                *)
(***************************************************************************)
EXTENDS Integers, Bags

CONSTANTS Builtins,             \* number of builtin themes
          CapMin, CapMax, CapStep,      \* of the log buffer's cap
          InitialCap,
          MaxActs,              \* bound on what user and world do
          MaxUnderWay           \* bound on messages and ticks under way when
                                \* they do it

ASSUME ManyThemes == Builtins \in Nat \ {0}
ASSUME CapRange ==
    /\ CapMin \in Nat /\ CapMax \in Nat /\ CapMin =< CapMax
    /\ CapStep \in Nat /\ InitialCap \in Nat
    /\ MaxActs \in Nat /\ MaxUnderWay \in Nat

VARIABLES phase,
          helpExpanded, keymap,         \* of the application and the help bar
          shown, ended,                 \* a message is on the status bar, and
                                        \* its time (msgEnd) is over
          own, old,                     \* the tick of that message is to come,
                                        \* and how many of earlier ones
          statusActive,                 \* what the application knows of it
          lastFrameHeight,              \* the height last sent
          bodyFrame,                    \* frameHeight of the dashboard
          cfg, theme,                   \* of the application
          file,                         \* the configuration on disk
          dashCfg, dashTheme,           \* the dashboard's copies
          showingSettings, choice,      \* the overlay: its theme and cap
          msgs,                         \* messages under way
          acts,                         \* done by user and world
          behind,                       \* (history) the dashboard was made
                                        \* under another height, or heights
                                        \* overtook each other
          loadOK, saveOK,               \* (history) how the last change went
          stale                         \* (history) the overlay was not made
                                        \* from cfg, or changes were under
                                        \* way together

bar == <<shown, ended, own, old>>
help == <<helpExpanded, keymap>>
frame == <<statusActive, lastFrameHeight>>
body == <<bodyFrame, dashCfg, dashTheme, showingSettings, choice>>
conf == <<cfg, theme, file>>
outcome == <<loadOK, saveOK>>
history == <<behind, outcome, stale>>
vars == <<phase, bar, help, frame, body, conf, msgs, acts, history>>

Custom == Builtins
Themes == 0..Builtins
NoKeymap == "none"

(* The longest column of each keymap's FullHelp.                           *)
HelpLines == [startup |-> 6, dashboard |-> 5, watching |-> 3]

DefaultFrame == 2               \* layout.FrameHeight

FrameHeight(h) == [kind |-> "FrameHeight", height |-> h]
Bindings(k) == [kind |-> "BindingsMsg", keymap |-> k]
Applied(c) == [kind |-> "SettingsApplied", cfg |-> c]
Changed(t) == [kind |-> "theme.Changed", theme |-> t]
Display(what) == [kind |-> "Display", what |-> what]
Hide == [kind |-> "SettingsVisibilityChanged"]
FileRemoved == [kind |-> "FileRemoved"]
ProjectLoaded == [kind |-> "ProjectLoaded"]

UnderWay(kinds) == {m \in DOMAIN msgs : m.kind \in kinds}
SettingsNews == {"SettingsApplied", "theme.Changed"}

Bigger(a, b) == IF a > b THEN a ELSE b
Smaller(a, b) == IF a < b THEN a ELSE b

Heights == {DefaultFrame} \cup {1 + HelpLines[k] : k \in DOMAIN HelpLines}
Caps == Smaller(CapMin, InitialCap)..Bigger(CapMax, InitialCap)
Configs == [theme : Themes, cap : Caps]

TypeOK ==
    /\ phase \in {"startup", "dashboard", "watching"}
    /\ helpExpanded \in BOOLEAN /\ keymap \in DOMAIN HelpLines \cup {NoKeymap}
    /\ shown \in BOOLEAN /\ ended \in BOOLEAN /\ own \in BOOLEAN /\ old \in Nat
    /\ statusActive \in BOOLEAN /\ lastFrameHeight \in Heights \cup {0} /\ bodyFrame \in Heights
    /\ cfg \in Configs /\ theme \in Themes /\ file \in Configs
    /\ dashCfg \in Configs /\ dashTheme \in Themes
    /\ showingSettings \in BOOLEAN /\ choice \in Configs
    /\ acts \in Nat
    /\ behind \in BOOLEAN /\ loadOK \in BOOLEAN /\ saveOK \in BOOLEAN /\ stale \in BOOLEAN

-----------------------------------------------------------------------------
Receive(r, S) == BagIn(r, msgs) /\ msgs' = (msgs (-) SetToBag({r})) (+) SetToBag(S)

(* User and world act, which sends S.                                      *)
Act(S) ==
    /\ acts < MaxActs /\ acts' = acts + 1
    /\ BagCardinality(msgs) + old < MaxUnderWay
    /\ msgs' = msgs (+) SetToBag(S)

HelpHeight(expanded, k) == IF expanded /\ k # NoKeymap THEN HelpLines[k] ELSE 1

(* What View draws around the body, from what the bars hold.               *)
Drawn == 1 + IF shown THEN 1 ELSE HelpHeight(helpExpanded, keymap)

(* computeFrameHeight, from what the application believes after the step.  *)
FrameNeeded == 1 + IF statusActive' THEN 1 ELSE HelpHeight(helpExpanded', keymap')

(* frameHeightCmd: a height is sent when it has changed.                   *)
Resized == IF FrameNeeded = lastFrameHeight THEN {} ELSE {FrameHeight(FrameNeeded)}
Remember ==
    /\ lastFrameHeight' = FrameNeeded
    /\ behind' = IF Resized = {} THEN behind ELSE UnderWay({"FrameHeight"}) # {}

(* The same where the bars stay as they are.                               *)
Dispatch(r, S) ==
    /\ UNCHANGED <<statusActive, helpExpanded, keymap, bar>>
    /\ Receive(r, S \cup Resized) /\ Remember

(* settings.New, from the configuration the dashboard is given.            *)
Overlay(c) == [theme |-> IF c.theme \in 0..(Builtins - 1) THEN c.theme ELSE 0, cap |-> c.cap]

(* dashboard.New                                                           *)
NewDashboard(c, t) ==
    /\ bodyFrame' = DefaultFrame
    /\ dashCfg' = c /\ dashTheme' = t
    /\ showingSettings' = FALSE /\ choice' = Overlay(c)
    /\ stale' = (stale \/ c # cfg \/ Overlay(c) # c \/ UnderWay(SettingsNews) # {})

-----------------------------------------------------------------------------
(* RunE and app.New: a theme that does not load leaves the default one.    *)
Init ==
    /\ phase \in {"startup", "dashboard"}
    /\ helpExpanded = FALSE /\ keymap = NoKeymap
    /\ shown = FALSE /\ ended = TRUE /\ own = FALSE /\ old = 0
    /\ statusActive = FALSE /\ lastFrameHeight = 0 /\ bodyFrame = DefaultFrame
    /\ file = [theme |-> 0, cap |-> InitialCap]
    /\ cfg \in [theme : Themes, cap : {InitialCap}]
    /\ theme \in {0, cfg.theme}
    /\ dashCfg = cfg /\ dashTheme = theme
    /\ showingSettings = FALSE /\ choice = Overlay(cfg)
    /\ msgs = SetToBag({Bindings(phase)}) /\ acts = 0
    /\ behind = FALSE /\ stale = (choice # cfg)
    /\ loadOK = (theme = cfg.theme) /\ saveOK = (file = cfg)

(* Something to show: of an action, of an error, of the profiler.          *)
Announce == Act({Display("notice")}) /\ UNCHANGED <<phase, bar, help, frame, body, conf, history>>

PickProject ==
    /\ phase # "dashboard"
    /\ Act({ProjectLoaded})
    /\ UNCHANGED <<phase, bar, help, frame, body, conf, history>>

FileGone ==
    /\ phase = "dashboard"
    /\ Act({FileRemoved})
    /\ UNCHANGED <<phase, bar, help, frame, body, conf, history>>

(* The file has changed: handleFileAvailabilityChanged of the dashboard    *)
(* makes the next one from its own copies.                                 *)
LiveReload ==
    /\ phase = "dashboard"
    /\ NewDashboard(dashCfg, dashTheme)
    /\ behind' = IF UnderWay({"FrameHeight"}) = {} THEN lastFrameHeight # DefaultFrame ELSE behind
    /\ Act({Bindings("dashboard")})
    /\ UNCHANGED <<phase, bar, help, frame, conf, outcome>>

(* Mutant: the toggle does not tell the dashboard.                         *)
ToggleHelpUntold ==
    /\ helpExpanded' = ~helpExpanded
    /\ UNCHANGED <<statusActive, keymap>>
    /\ Act({}) /\ UNCHANGED <<lastFrameHeight, behind>>
    /\ UNCHANGED <<phase, bar, body, conf, outcome, stale>>

(* Key "?"                                                                 *)
ToggleHelp ==
    /\ helpExpanded' = ~helpExpanded
    /\ UNCHANGED <<statusActive, keymap>>
    /\ Act(Resized) /\ Remember
    /\ UNCHANGED <<phase, bar, body, conf, outcome, stale>>

(* Key ","; esc, q or "," close the overlay by a message.                  *)
OpenSettings ==
    /\ phase = "dashboard" /\ ~showingSettings
    /\ showingSettings' = TRUE
    /\ Act({})
    /\ UNCHANGED <<phase, bar, help, frame, bodyFrame, dashCfg, dashTheme, choice, conf, history>>

CloseSettings ==
    /\ phase = "dashboard" /\ showingSettings
    /\ Act({Hide})
    /\ UNCHANGED <<phase, bar, help, frame, body, conf, history>>

(* Left and right: the theme goes round, the cap stays in its range.       *)
ThemeChoices == {(choice.theme + 1) % Builtins, (choice.theme - 1 + Builtins) % Builtins}
CapChoices == {Bigger(choice.cap - CapStep, CapMin), Smaller(choice.cap + CapStep, CapMax)}

Adjust ==
    /\ phase = "dashboard" /\ showingSettings
    /\ \/ \E t \in ThemeChoices : choice' = [choice EXCEPT !.theme = t]
       \/ \E n \in CapChoices : choice' = [choice EXCEPT !.cap = n]
    /\ Act({Applied(choice')})
    /\ stale' = (UnderWay(SettingsNews) # {})
    /\ UNCHANGED <<phase, bar, help, frame, conf, behind, outcome>>
    /\ UNCHANGED <<bodyFrame, dashCfg, dashTheme, showingSettings>>

-----------------------------------------------------------------------------
HandleFrameHeight(h) ==
    /\ Dispatch(FrameHeight(h), {})
    /\ bodyFrame' = IF phase = "dashboard" THEN h ELSE bodyFrame
    /\ UNCHANGED <<acts, phase, dashCfg, dashTheme, showingSettings, choice, conf, outcome, stale>>

HandleBindingsMsg(k) ==
    /\ keymap' = k
    /\ UNCHANGED <<statusActive, helpExpanded>>
    /\ Receive(Bindings(k), Resized) /\ Remember
    /\ UNCHANGED <<acts, phase, bar, body, conf, outcome, stale>>

(* DisplayError, DisplayStatus: the message takes the place of another,    *)
(* whose tick is still to come.                                            *)
HandleDisplay(m) ==
    /\ shown' = TRUE /\ ended' = FALSE /\ own' = TRUE
    /\ old' = IF own THEN old + 1 ELSE old
    /\ statusActive' = TRUE /\ UNCHANGED help
    /\ Receive(m, Resized) /\ Remember
    /\ UNCHANGED <<acts, phase, body, conf, outcome, stale>>

(* Three seconds pass.                                                     *)
TimeUp ==
    /\ ~ended /\ ended' = TRUE
    /\ UNCHANGED <<phase, shown, own, old, help, frame, body, conf, msgs, acts, history>>

(* Mutant: a tick clears the bar whoever is on it.                         *)
HandleClearStatusMsgAny ==
    /\ \/ own /\ ended /\ own' = FALSE /\ UNCHANGED old
       \/ old > 0 /\ old' = old - 1 /\ UNCHANGED own
    /\ shown' = FALSE /\ UNCHANGED ended
    /\ statusActive' = shown' /\ UNCHANGED help
    /\ msgs' = msgs (+) SetToBag(Resized) /\ Remember
    /\ UNCHANGED <<acts, phase, body, conf, outcome, stale>>

(* A tick clears the bar only if its message's time is over.               *)
HandleClearStatusMsg ==
    /\ \/ own /\ ended /\ own' = FALSE /\ UNCHANGED old
       \/ old > 0 /\ old' = old - 1 /\ UNCHANGED own
    /\ shown' = (shown /\ ~ended) /\ UNCHANGED ended
    /\ statusActive' = shown' /\ UNCHANGED help
    /\ msgs' = msgs (+) SetToBag(Resized) /\ Remember
    /\ UNCHANGED <<acts, phase, body, conf, outcome, stale>>

(* Mutant: the file is written before the configuration is changed.        *)
HandleSettingsAppliedLate(c) ==
    \E loaded, saved \in BOOLEAN :
       /\ cfg' = c
       /\ theme' = IF loaded THEN c.theme ELSE theme
       /\ file' = IF saved THEN cfg ELSE file
       /\ loadOK' = loaded /\ saveOK' = saved
       /\ Receive(Applied(c), {Changed(theme')})
       /\ UNCHANGED <<phase, bar, help, frame, body, acts, behind, stale>>

(* The theme and the file may fail; the change stands all the same.        *)
HandleSettingsApplied(c) ==
    \E loaded, saved \in BOOLEAN :
       /\ cfg' = c
       /\ theme' = IF loaded THEN c.theme ELSE theme
       /\ file' = IF saved THEN c ELSE file
       /\ loadOK' = loaded /\ saveOK' = saved
       /\ Receive(Applied(c), {Changed(theme')}
                              \cup (IF loaded THEN {} ELSE {Display("theme error")})
                              \cup (IF saved THEN {} ELSE {Display("save error")}))
       /\ UNCHANGED <<acts, phase, bar, help, frame, body, behind, stale>>

HandleThemeChanged(t) ==
    /\ Dispatch(Changed(t), {})
    /\ theme' = t
    /\ dashTheme' = IF phase = "dashboard" THEN t ELSE dashTheme
    /\ UNCHANGED <<acts, phase, bodyFrame, dashCfg, showingSettings, choice, cfg, file, outcome, stale>>

HandleSettingsVisibilityChanged ==
    /\ Dispatch(Hide, {})
    /\ showingSettings' = (showingSettings /\ phase # "dashboard")
    /\ UNCHANGED <<acts, phase, bodyFrame, dashCfg, dashTheme, choice, conf, outcome, stale>>

(* The status bar keeps its message, and the application forgets it.       *)
HandleFileRemoved ==
    /\ phase' = "watching"
    /\ statusActive' = FALSE /\ UNCHANGED help
    /\ Receive(FileRemoved, {Bindings("watching")} \cup Resized) /\ Remember
    /\ UNCHANGED <<acts, bar, body, conf, outcome, stale>>

HandleProjectLoaded ==
    /\ phase' = "dashboard"
    /\ NewDashboard(cfg, theme)
    /\ statusActive' = FALSE /\ UNCHANGED help
    /\ Receive(ProjectLoaded, {Bindings("dashboard")} \cup Resized)
    /\ lastFrameHeight' = FrameNeeded
    /\ behind' = IF UnderWay({"FrameHeight"}) = {}
                 THEN Resized = {} /\ FrameNeeded # DefaultFrame
                 ELSE behind \/ Resized # {}
    /\ UNCHANGED <<acts, bar, conf, outcome>>

Next ==
    \/ Announce \/ PickProject \/ FileGone \/ LiveReload
    \/ ToggleHelp \/ OpenSettings \/ CloseSettings \/ Adjust
    \/ \E h \in Heights : HandleFrameHeight(h)
    \/ \E k \in DOMAIN HelpLines : HandleBindingsMsg(k)
    \/ \E m \in UnderWay({"Display"}) : HandleDisplay(m)
    \/ TimeUp \/ HandleClearStatusMsg
    \/ \E c \in Configs : HandleSettingsApplied(c)
    \/ \E t \in Themes : HandleThemeChanged(t)
    \/ HandleSettingsVisibilityChanged
    \/ HandleFileRemoved \/ HandleProjectLoaded

Spec == Init /\ [][Next]_vars

-----------------------------------------------------------------------------
(* PROPERTIES                                                              *)

(* The dashboard leaves as many lines as the bars around it take, once the *)
(* application has heard of the message shown and has told the dashboard:  *)
(* a height is missed only by a dashboard made under another one, or when  *)
(* two of them overtake each other.                                        *)
BodyFits ==
    (/\ phase = "dashboard" /\ UnderWay({"FrameHeight"}) = {}
     /\ lastFrameHeight # 0 /\ statusActive = shown /\ ~behind)
    => bodyFrame = Drawn

(* Whoever is on the status bar has a tick to come that takes him down,    *)
(* and no tick of an earlier message does so before his time.              *)
BarTimed ==
    /\ [](shown => own)
    /\ [][shown /\ ~shown' => ended]_vars

(* Once the news of a change is spread, the overlay shows what is in force *)
(* and on disk, and everybody the same theme: as long as no change was     *)
(* made while another was on its way, and the overlay is not one of a      *)
(* dashboard made from an older configuration.                             *)
SettingsAgree ==
    (phase = "dashboard" /\ UnderWay(SettingsNews) = {} /\ ~stale)
    => /\ choice = cfg /\ dashTheme = theme
       /\ loadOK => theme = cfg.theme
       /\ saveOK => file = cfg
=============================================================================
