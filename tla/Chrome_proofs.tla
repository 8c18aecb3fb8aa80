---------------------------- MODULE Chrome_proofs ----------------------------
(***************************************************************************)
(* Proofs about Chrome, for any themes, caps and bounds: what bars,        *)
(* overlay and configuration hold stays in range, a status bar message     *)
(* has its time and a tick that takes it down, the dashboard's height is   *)
(* right unless heights overtook each other, and overlay, application and  *)
(* file agree once a change is spread.                                     *)
(***************************************************************************)
EXTENDS Chrome, TLAPS

BarOK ==
    /\ shown \in BOOLEAN /\ ended \in BOOLEAN /\ own \in BOOLEAN /\ old \in Nat
    /\ statusActive \in BOOLEAN

HelpOK == helpExpanded \in BOOLEAN /\ keymap \in DOMAIN HelpLines \cup {NoKeymap}

ScreenOK == phase \in {"startup", "dashboard", "watching"} /\ acts \in Nat

FrameOK == lastFrameHeight \in Heights \cup {0} /\ bodyFrame \in Heights

ConfOK ==
    /\ cfg \in Configs /\ theme \in Themes /\ file \in Configs
    /\ dashCfg \in Configs /\ dashTheme \in Themes /\ choice \in Configs

FlagsOK ==
    /\ showingSettings \in BOOLEAN
    /\ behind \in BOOLEAN /\ loadOK \in BOOLEAN /\ saveOK \in BOOLEAN /\ stale \in BOOLEAN

ChromeInv == BarOK /\ HelpOK /\ ScreenOK /\ FrameOK /\ ConfOK /\ FlagsOK

LEMMA Parts == ChromeInv <=> TypeOK
BY DEF ChromeInv, BarOK, HelpOK, ScreenOK, FrameOK, ConfOK, FlagsOK, TypeOK

(* The actions, as Next puts them together.                                *)
DisplayStep == \E m \in UnderWay({"Display"}) : HandleDisplay(m)
HeightStep == \E h \in Heights : HandleFrameHeight(h)
BindingsStep == \E k \in DOMAIN HelpLines : HandleBindingsMsg(k)
AppliedStep == \E c \in Configs : HandleSettingsApplied(c)
ChangedStep == \E t \in Themes : HandleThemeChanged(t)

LEMMA Steps ==
    ASSUME Next
    PROVE  \/ Announce \/ PickProject \/ FileGone \/ LiveReload
           \/ ToggleHelp \/ OpenSettings \/ CloseSettings \/ Adjust
           \/ HeightStep \/ BindingsStep \/ DisplayStep
           \/ TimeUp \/ HandleClearStatusMsg
           \/ AppliedStep \/ ChangedStep
           \/ HandleSettingsVisibilityChanged \/ HandleFileRemoved \/ HandleProjectLoaded
BY Zenon DEF Next, DisplayStep, HeightStep, BindingsStep, AppliedStep, ChangedStep

-----------------------------------------------------------------------------
(* THE STATUS BAR                                                          *)

(* Its message comes with Display and goes with a tick.                    *)
LEMMA BarNext == ASSUME BarOK, [Next]_vars PROVE BarOK'
<1>1. CASE DisplayStep
  <2>1. /\ shown' = TRUE /\ ended' = FALSE /\ own' = TRUE /\ statusActive' = TRUE
        /\ old' = old \/ old' = old + 1
    BY <1>1, Zenon DEF DisplayStep, HandleDisplay
  <2>2. old' \in Nat
    BY <2>1 DEF BarOK
  <2> QED
    BY <2>1, <2>2, Zenon DEF BarOK
<1>2. CASE TimeUp
  BY <1>2, Zenon DEF TimeUp, BarOK, frame
<1>3. CASE HandleClearStatusMsg
  <2>1. old' = old \/ (old > 0 /\ old' = old - 1)
    BY <1>3, Zenon DEF HandleClearStatusMsg
  <2>2. old' \in Nat
    BY <2>1 DEF BarOK
  <2>3. shown' \in BOOLEAN /\ ended' \in BOOLEAN /\ own' \in BOOLEAN /\ statusActive' \in BOOLEAN
    BY <1>3, Zenon DEF HandleClearStatusMsg, BarOK
  <2> QED
    BY <2>2, <2>3, Zenon DEF BarOK
<1>4. CASE HandleFileRemoved \/ HandleProjectLoaded
  BY <1>4, Zenon DEF HandleFileRemoved, HandleProjectLoaded, BarOK, bar
<1>5. CASE \/ Announce \/ PickProject \/ FileGone \/ LiveReload
           \/ ToggleHelp \/ OpenSettings \/ CloseSettings \/ Adjust
           \/ HeightStep \/ BindingsStep \/ AppliedStep \/ ChangedStep
           \/ HandleSettingsVisibilityChanged
  <2>1. UNCHANGED <<bar, statusActive>>
    BY <1>5, Zenon DEF Announce, PickProject, FileGone, LiveReload, ToggleHelp,
         OpenSettings, CloseSettings, Adjust, HeightStep, HandleFrameHeight, BindingsStep,
         HandleBindingsMsg, AppliedStep, HandleSettingsApplied, ChangedStep,
         HandleThemeChanged, HandleSettingsVisibilityChanged, Dispatch, frame
  <2> QED
    BY <2>1, Zenon DEF BarOK, bar
<1>6. CASE UNCHANGED vars
  BY <1>6, Zenon DEF vars, bar, frame, BarOK
<1> QED
  BY <1>1, <1>2, <1>3, <1>4, <1>5, <1>6, Steps

(* Who is shown has his own tick to come: it is lost only when it fires    *)
(* after its time, which takes him down.                                   *)
Timed == shown => own

LEMMA TimedNext ==
    ASSUME BarOK, Timed, [Next]_vars
    PROVE  Timed' /\ (shown /\ ~shown' => ended)
<1> USE DEF Timed
<1>1. CASE DisplayStep
  BY <1>1, Zenon DEF DisplayStep, HandleDisplay
<1>2. CASE TimeUp
  BY <1>2, Zenon DEF TimeUp
<1>3. CASE HandleClearStatusMsg
  <2>1. shown' = (shown /\ ~ended)
    BY <1>3, Zenon DEF HandleClearStatusMsg
  <2>2. shown /\ ~shown' => ended
    BY <2>1, Zenon DEF BarOK
  <2>3. (own /\ ended) \/ own' = own
    BY <1>3, Zenon DEF HandleClearStatusMsg
  <2>4. shown' => shown /\ ~ended
    BY <2>1, Zenon DEF BarOK
  <2> QED
    BY <2>2, <2>3, <2>4, Zenon
<1>4. CASE \/ Announce \/ PickProject \/ FileGone \/ LiveReload
           \/ ToggleHelp \/ OpenSettings \/ CloseSettings \/ Adjust
           \/ HeightStep \/ BindingsStep \/ AppliedStep \/ ChangedStep
           \/ HandleSettingsVisibilityChanged \/ HandleFileRemoved \/ HandleProjectLoaded
  <2>1. UNCHANGED bar
    BY <1>4, Zenon DEF Announce, PickProject, FileGone, LiveReload, ToggleHelp,
         OpenSettings, CloseSettings, Adjust, HeightStep, HandleFrameHeight, BindingsStep,
         HandleBindingsMsg, AppliedStep, HandleSettingsApplied, ChangedStep,
         HandleThemeChanged, HandleSettingsVisibilityChanged, Dispatch,
         HandleFileRemoved, HandleProjectLoaded
  <2> QED
    BY <2>1, Zenon DEF bar
<1>5. CASE UNCHANGED vars
  BY <1>5, Zenon DEF vars, bar
<1> QED
  BY <1>1, <1>2, <1>3, <1>4, <1>5, Steps

LEMMA BarInit == Init => BarOK /\ Timed
<1> SUFFICES ASSUME Init PROVE BarOK /\ Timed
  OBVIOUS
<1>1. old = 0
  BY Zenon DEF Init
<1>2. old \in Nat
  BY <1>1
<1> QED
  BY <1>2, Zenon DEF Init, BarOK, Timed

(* However many messages come and go, none stays on the status bar without *)
(* a tick that will clear it, and none is cleared by the tick of another   *)
(* before its three seconds are over.                                      *)
THEOREM TimedBar == Spec => BarTimed
<1>1. BarOK /\ Timed /\ [Next]_vars => (BarOK /\ Timed)'
  BY BarNext, TimedNext
<1>2. BarOK /\ Timed /\ [Next]_vars => [shown /\ ~shown' => ended]_vars
  BY TimedNext
<1>3. Timed <=> (shown => own)
  BY DEF Timed
<1> QED
  BY <1>1, <1>2, <1>3, BarInit, PTL DEF Spec, BarTimed

-----------------------------------------------------------------------------
(* HEIGHTS                                                                 *)

LEMMA HelpNext == ASSUME HelpOK, [Next]_vars PROVE HelpOK'
<1>1. CASE ToggleHelp
  BY <1>1, Zenon DEF ToggleHelp, HelpOK
<1>2. CASE BindingsStep
  BY <1>2, SMT DEF BindingsStep, HandleBindingsMsg, HelpOK
<1>3. CASE \/ Announce \/ PickProject \/ FileGone \/ LiveReload
           \/ OpenSettings \/ CloseSettings \/ Adjust
           \/ HeightStep \/ DisplayStep \/ TimeUp \/ HandleClearStatusMsg
           \/ AppliedStep \/ ChangedStep
           \/ HandleSettingsVisibilityChanged \/ HandleFileRemoved \/ HandleProjectLoaded
  <2>1. UNCHANGED help
    BY <1>3, Zenon DEF Announce, PickProject, FileGone, LiveReload, OpenSettings,
         CloseSettings, Adjust, HeightStep, HandleFrameHeight, DisplayStep, HandleDisplay,
         TimeUp, HandleClearStatusMsg, AppliedStep, HandleSettingsApplied, ChangedStep,
         HandleThemeChanged, HandleSettingsVisibilityChanged, Dispatch, HandleFileRemoved,
         HandleProjectLoaded, help
  <2> QED
    BY <2>1, Zenon DEF HelpOK, help
<1>4. CASE UNCHANGED vars
  BY <1>4, Zenon DEF vars, help, HelpOK
<1> QED
  BY <1>1, <1>2, <1>3, <1>4, Steps

(* The height the application computes is one the bars can take.           *)
LEMMA NeededTyped == ASSUME HelpOK' PROVE FrameNeeded \in Heights
<1>1. 2 \in Heights
  BY DEF Heights, DefaultFrame
<1>2. \A k \in DOMAIN HelpLines : 1 + HelpLines[k] \in Heights
  BY DEF Heights
<1> QED
  BY <1>1, <1>2 DEF FrameNeeded, HelpHeight, HelpOK

LEMMA FrameNext == ASSUME HelpOK, FrameOK, [Next]_vars PROVE FrameOK'
<1> USE DEF FrameOK
<1>1. FrameNeeded \in Heights
  BY HelpNext, NeededTyped
<1>2. DefaultFrame \in Heights
  BY DEF Heights
<1>3. CASE LiveReload
  BY <1>3, <1>2, Zenon DEF LiveReload, NewDashboard, frame
<1>4. CASE HandleProjectLoaded
  BY <1>4, <1>1, <1>2, Zenon DEF HandleProjectLoaded, NewDashboard
<1>5. CASE HeightStep
  BY <1>5, <1>1, Zenon DEF HeightStep, HandleFrameHeight, Dispatch, Remember
<1>6. CASE \/ ToggleHelp \/ BindingsStep \/ DisplayStep \/ HandleClearStatusMsg
           \/ ChangedStep \/ HandleSettingsVisibilityChanged \/ HandleFileRemoved
  <2>1. lastFrameHeight' = FrameNeeded /\ bodyFrame' = bodyFrame
    BY <1>6, Zenon DEF ToggleHelp, BindingsStep, HandleBindingsMsg, DisplayStep,
         HandleDisplay, HandleClearStatusMsg, ChangedStep, HandleThemeChanged,
         HandleSettingsVisibilityChanged, HandleFileRemoved, Dispatch, Remember, body
  <2> QED
    BY <2>1, <1>1, Zenon
<1>7. CASE \/ Announce \/ PickProject \/ FileGone
           \/ OpenSettings \/ CloseSettings \/ Adjust \/ TimeUp \/ AppliedStep
  <2>1. UNCHANGED <<lastFrameHeight, bodyFrame>>
    BY <1>7, Zenon DEF Announce, PickProject, FileGone, OpenSettings, CloseSettings,
         Adjust, TimeUp, AppliedStep, HandleSettingsApplied, frame, body
  <2> QED
    BY <2>1, Zenon
<1>8. CASE UNCHANGED vars
  BY <1>8, Zenon DEF vars, frame, body
<1> QED
  BY <1>3, <1>4, <1>5, <1>6, <1>7, <1>8, Steps

-----------------------------------------------------------------------------
(* CONFIGURATION AND FLAGS                                                 *)

LEMMA CapsInRange ==
    ASSUME NEW n \in Caps
    PROVE  /\ Bigger(n - CapStep, CapMin) \in Caps
           /\ Smaller(n + CapStep, CapMax) \in Caps
BY CapRange DEF Caps, Bigger, Smaller

LEMMA ThemesInRange ==
    ASSUME NEW t \in Themes
    PROVE  (t + 1) % Builtins \in Themes /\ (t - 1 + Builtins) % Builtins \in Themes
BY ManyThemes DEF Themes

LEMMA OverlayTyped == \A c \in Configs : Overlay(c) \in Configs
BY ManyThemes DEF Overlay, Configs, Themes

LEMMA ConfNext == ASSUME ConfOK, [Next]_vars PROVE ConfOK'
<1> USE DEF ConfOK
<1>1. CASE LiveReload
  BY <1>1, OverlayTyped, Zenon DEF LiveReload, NewDashboard, conf
<1>2. CASE HandleProjectLoaded
  BY <1>2, OverlayTyped, Zenon DEF HandleProjectLoaded, NewDashboard, conf
<1>3. CASE Adjust
  <2>1. PICK t \in ThemeChoices \cup {choice.theme}, n \in CapChoices \cup {choice.cap} :
           choice' = [choice EXCEPT !.theme = t] \/ choice' = [choice EXCEPT !.cap = n]
    BY <1>3, SMT DEF Adjust
  <2>2. choice.theme \in Themes /\ choice.cap \in Caps
    BY DEF Configs
  <2>3. t \in Themes /\ n \in Caps
    BY <2>2, CapsInRange, ThemesInRange, Zenon DEF ThemeChoices, CapChoices
  <2>4. choice' \in Configs
    BY <2>1, <2>3 DEF Configs
  <2>5. UNCHANGED <<cfg, theme, file, dashCfg, dashTheme>>
    BY <1>3, Zenon DEF Adjust, conf
  <2> QED
    BY <2>4, <2>5, Zenon
<1>4. CASE AppliedStep
  <2>1. PICK c \in Configs : HandleSettingsApplied(c)
    BY <1>4 DEF AppliedStep
  <2>2. /\ cfg' = c /\ theme' \in {c.theme, theme} /\ file' \in {c, file}
        /\ UNCHANGED <<dashCfg, dashTheme, choice>>
    BY <2>1, Zenon DEF HandleSettingsApplied, body
  <2>3. c.theme \in Themes
    BY DEF Configs
  <2> QED
    BY <2>2, <2>3, Zenon
<1>5. CASE ChangedStep
  BY <1>5, Zenon DEF ChangedStep, HandleThemeChanged
<1>6. CASE \/ Announce \/ PickProject \/ FileGone \/ ToggleHelp \/ OpenSettings
           \/ CloseSettings \/ HeightStep \/ BindingsStep \/ DisplayStep \/ TimeUp
           \/ HandleClearStatusMsg \/ HandleSettingsVisibilityChanged \/ HandleFileRemoved
  <2>1. UNCHANGED <<conf, dashCfg, dashTheme, choice>>
    BY <1>6, Zenon DEF Announce, PickProject, FileGone, ToggleHelp, OpenSettings,
         CloseSettings, HeightStep, HandleFrameHeight, BindingsStep, HandleBindingsMsg,
         DisplayStep, HandleDisplay, TimeUp, HandleClearStatusMsg,
         HandleSettingsVisibilityChanged, HandleFileRemoved, body, conf
  <2> QED
    BY <2>1, Zenon DEF conf
<1>7. CASE UNCHANGED vars
  BY <1>7, Zenon DEF vars, conf, body
<1> QED
  BY <1>1, <1>2, <1>3, <1>4, <1>5, <1>6, <1>7, Steps

LEMMA ScreenNext == ASSUME ScreenOK, [Next]_vars PROVE ScreenOK'
<1> USE DEF ScreenOK
<1>1. CASE \/ Announce \/ PickProject \/ FileGone \/ LiveReload
           \/ ToggleHelp \/ OpenSettings \/ CloseSettings \/ Adjust
  <2>1. acts' = acts + 1 /\ phase' = phase
    BY <1>1, Zenon DEF Announce, PickProject, FileGone, LiveReload, ToggleHelp,
         OpenSettings, CloseSettings, Adjust, Act
  <2> QED
    BY <2>1
<1>2. CASE \/ HeightStep \/ BindingsStep \/ DisplayStep \/ TimeUp \/ HandleClearStatusMsg
           \/ AppliedStep \/ ChangedStep \/ HandleSettingsVisibilityChanged
  <2>1. UNCHANGED <<acts, phase>>
    BY <1>2, Zenon DEF HeightStep, HandleFrameHeight, BindingsStep, HandleBindingsMsg,
         DisplayStep, HandleDisplay, TimeUp, HandleClearStatusMsg, AppliedStep,
         HandleSettingsApplied, ChangedStep, HandleThemeChanged,
         HandleSettingsVisibilityChanged
  <2> QED
    BY <2>1
<1>3. CASE HandleFileRemoved \/ HandleProjectLoaded
  BY <1>3, Zenon DEF HandleFileRemoved, HandleProjectLoaded
<1>4. CASE UNCHANGED vars
  BY <1>4, Zenon DEF vars
<1> QED
  BY <1>1, <1>2, <1>3, <1>4, Steps

LEMMA FlagsNext == ASSUME FlagsOK, [Next]_vars PROVE FlagsOK'
<1> USE DEF FlagsOK, history, outcome, body
<1>1. CASE LiveReload
  BY <1>1, Zenon DEF LiveReload, NewDashboard
<1>2. CASE HandleProjectLoaded
  BY <1>2, Zenon DEF HandleProjectLoaded, NewDashboard
<1>3. CASE ToggleHelp \/ OpenSettings \/ Adjust
  BY <1>3, Zenon DEF ToggleHelp, OpenSettings, Adjust, Remember
<1>4. CASE HeightStep \/ BindingsStep \/ DisplayStep
  BY <1>4, Zenon DEF HeightStep, HandleFrameHeight, Dispatch, BindingsStep,
       HandleBindingsMsg, DisplayStep, HandleDisplay, Remember
<1>5. CASE HandleClearStatusMsg \/ HandleFileRemoved
  BY <1>5, Zenon DEF HandleClearStatusMsg, HandleFileRemoved, Remember
<1>6. CASE AppliedStep
  BY <1>6, Zenon DEF AppliedStep, HandleSettingsApplied
<1>7. CASE ChangedStep \/ HandleSettingsVisibilityChanged
  BY <1>7, Zenon DEF ChangedStep, HandleThemeChanged, HandleSettingsVisibilityChanged,
       Dispatch, Remember
<1>8. CASE Announce \/ PickProject \/ FileGone \/ CloseSettings \/ TimeUp
  BY <1>8, Zenon DEF Announce, PickProject, FileGone, CloseSettings, TimeUp
<1>9. CASE UNCHANGED vars
  BY <1>9, Zenon DEF vars
<1> QED
  BY <1>1, <1>2, <1>3, <1>4, <1>5, <1>6, <1>7, <1>8, <1>9, Steps

LEMMA ChromeInit == Init => ChromeInv
<1> SUFFICES ASSUME Init PROVE ChromeInv
  OBVIOUS
<1>1. HelpOK /\ FlagsOK
  BY Zenon DEF Init, HelpOK, FlagsOK
<1>2. ScreenOK
  BY SMT DEF Init, ScreenOK
<1>3. FrameOK
  BY Zenon DEF Init, FrameOK, Heights
<1>4. ConfOK
  <2>1. InitialCap \in Caps /\ 0 \in Themes
    BY ManyThemes, CapRange DEF Caps, Themes, Bigger, Smaller
  <2>2. file \in Configs
    BY <2>1 DEF Init, Configs
  <2>3. cfg \in Configs /\ theme \in Themes
    BY <2>1 DEF Init, Configs
  <2> QED
    BY <2>2, <2>3, OverlayTyped, Zenon DEF Init, ConfOK
<1> QED
  BY <1>1, <1>2, <1>3, <1>4, BarInit DEF ChromeInv

(* Whatever is pressed and in whatever order messages come, the overlay's  *)
(* choice is a theme and a cap that exist, and so is what every copy of    *)
(* the configuration holds; heights are those the bars can take.           *)
THEOREM ChoicesInRange == Spec => []TypeOK
<1>1. ChromeInv /\ [Next]_vars => ChromeInv'
  BY BarNext, HelpNext, ScreenNext, FrameNext, ConfNext, FlagsNext DEF ChromeInv
<1>2. ChromeInv => TypeOK
  BY Parts
<1> QED
  BY <1>1, <1>2, ChromeInit, PTL DEF Spec

-----------------------------------------------------------------------------
(* THE FRAME HEIGHT MESSAGES UNDER WAY                                     *)

Told == UnderWay({"FrameHeight"})
OfHeight(S) == {m \in S : m.kind = "FrameHeight"}

Counted == \A m \in DOMAIN msgs : msgs[m] \in Nat \ {0}

(* A step that adds the heights of S to those under way.                   *)
Tells(S) ==
    /\ Told' = Told \cup S
    /\ \A m \in Told \ S : msgs'[m] = msgs[m]
    /\ \A m \in S \ Told : msgs'[m] = 1

LEMMA AddedToBag ==
    ASSUME Counted, NEW S, msgs' = msgs (+) SetToBag(S)
    PROVE  Counted' /\ Tells(OfHeight(S))
<1>1. DOMAIN msgs' = DOMAIN msgs \cup S
  BY DEF (+), SetToBag
<1>2. \A m \in DOMAIN msgs \ S : msgs'[m] = msgs[m]
  BY DEF (+), SetToBag, Counted
<1>3. \A m \in S \ DOMAIN msgs : msgs'[m] = 1
  BY DEF (+), SetToBag, Counted
<1>4. \A m \in S \cap DOMAIN msgs : msgs'[m] = msgs[m] + 1
  BY DEF (+), SetToBag, Counted
<1>5. Counted'
  BY <1>1, <1>2, <1>3, <1>4 DEF Counted
<1> QED
  BY <1>1, <1>2, <1>3, <1>5 DEF Tells, Told, UnderWay, OfHeight

LEMMA TakenFromBag ==
    ASSUME Counted, NEW r, NEW S, Receive(r, S)
    PROVE  /\ Counted'
           /\ r.kind # "FrameHeight" => Tells(OfHeight(S))
           /\ r \in DOMAIN msgs
           /\ msgs[r] = 1 /\ S = {} => DOMAIN msgs' = DOMAIN msgs \ {r}
<1> DEFINE rest == msgs (-) SetToBag({r})
<1>1. r \in DOMAIN msgs /\ msgs' = rest (+) SetToBag(S)
  BY Zenon DEF Receive, BagIn, BagToSet
<1>2. /\ DOMAIN rest = {m \in DOMAIN msgs : m # r \/ msgs[r] > 1}
      /\ \A m \in DOMAIN rest : rest[m] = IF m = r THEN msgs[r] - 1 ELSE msgs[m]
  BY DEF (-), SetToBag, Counted
<1>3. \A m \in DOMAIN rest : rest[m] \in Nat \ {0}
  BY <1>2 DEF Counted
<1> HIDE DEF rest
<1>4. DOMAIN msgs' = DOMAIN rest \cup S
  BY <1>1 DEF (+), SetToBag
<1>5. \A m \in DOMAIN rest \ S : msgs'[m] = rest[m]
  BY <1>1, <1>3 DEF (+), SetToBag
<1>6. \A m \in S \ DOMAIN rest : msgs'[m] = 1
  BY <1>1, <1>3 DEF (+), SetToBag
<1>7. \A m \in S \cap DOMAIN rest : msgs'[m] = rest[m] + 1
  BY <1>1, <1>3 DEF (+), SetToBag
<1>8. Counted'
  BY <1>3, <1>4, <1>5, <1>6, <1>7 DEF Counted
<1>9. ASSUME r.kind # "FrameHeight" PROVE Tells(OfHeight(S))
  BY <1>2, <1>4, <1>5, <1>6, <1>9 DEF Tells, Told, UnderWay, OfHeight
<1>10. ASSUME msgs[r] = 1, S = {} PROVE DOMAIN msgs' = DOMAIN msgs \ {r}
  BY <1>2, <1>4, <1>10
<1> QED
  BY <1>1, <1>8, <1>9, <1>10

(* The heights sent with messages T of other kinds are those of Resized.   *)
LEMMA ResizedOnly ==
    ASSUME NEW T, OfHeight(T) = {}
    PROVE  OfHeight(T \cup Resized) = Resized
<1>1. \A h : FrameHeight(h).kind = "FrameHeight"
  BY DEF FrameHeight
<1>2. \A m \in Resized : m.kind = "FrameHeight"
  BY <1>1, Zenon DEF Resized
<1> QED
  BY <1>2, Zenon DEF OfHeight

-----------------------------------------------------------------------------
(* THE DASHBOARD'S HEIGHT                                                  *)

Needed == 1 + IF statusActive THEN 1 ELSE HelpHeight(helpExpanded, keymap)

(* As long as none has overtaken another, the only height under way is the *)
(* last one sent, once.                                                    *)
LastOnly ==
    ~behind => \A m \in Told : m = FrameHeight(lastFrameHeight) /\ msgs[m] = 1

(* Nothing under way: the dashboard has the last height.                   *)
Arrived ==
    (~behind /\ phase = "dashboard" /\ Told = {} /\ lastFrameHeight # 0)
    => bodyFrame = lastFrameHeight

(* The last height sent is the one the application needs.                  *)
Current == lastFrameHeight # 0 => lastFrameHeight = Needed

HeightInv == Counted /\ LastOnly /\ Arrived /\ Current

LEMMA HeightInvFits == HeightInv => BodyFits
<1>1. ASSUME statusActive = shown PROVE Needed = Drawn
  <2>1. CASE shown
    BY <1>1, <2>1, Zenon DEF Needed, Drawn
  <2>2. CASE ~shown
    BY <1>1, <2>2, Zenon DEF Needed, Drawn
  <2> QED
    BY <2>1, <2>2
<1> QED
  BY <1>1, Zenon DEF HeightInv, Arrived, Current, BodyFits, Told

LEMMA ResizedIs ==
    Resized = IF FrameNeeded = lastFrameHeight THEN {} ELSE {FrameHeight(FrameNeeded)}
BY Zenon DEF Resized

LEMMA NeededNext == FrameNeeded = Needed'
BY Zenon DEF FrameNeeded, Needed

(* A step that sends the height if it has changed, and remembers it.       *)
LEMMA RememberKeeps ==
    ASSUME HeightInv, FlagsOK, Counted', Tells(Resized), Remember,
           bodyFrame' = bodyFrame, phase' = phase \/ phase' = "watching"
    PROVE  HeightInv'
<1> USE DEF HeightInv
<1>1. Current'
  BY NeededNext, Zenon DEF Remember, Current
<1>2. CASE Resized = {}
  <2>1. /\ FrameNeeded = lastFrameHeight /\ lastFrameHeight' = lastFrameHeight
        /\ behind' = behind
    BY <1>2, ResizedIs, Zenon DEF Remember
  <2>2. Told' = Told /\ \A m \in Told : msgs'[m] = msgs[m]
    BY <1>2, Zenon DEF Tells
  <2>3. LastOnly'
    BY <2>1, <2>2, Zenon DEF LastOnly
  <2>4. Arrived'
    BY <2>1, <2>2, Zenon DEF Arrived
  <2> QED
    BY <1>1, <2>3, <2>4, Zenon
<1>3. CASE Resized # {}
  <2>1. /\ Resized = {FrameHeight(FrameNeeded)} /\ lastFrameHeight' = FrameNeeded
        /\ behind' = (Told # {})
    BY <1>3, ResizedIs, Zenon DEF Remember, Told
  <2>2. ~behind' => Told' = {FrameHeight(FrameNeeded)} /\ msgs'[FrameHeight(FrameNeeded)] = 1
    BY <2>1, Zenon DEF Tells
  <2>3. LastOnly'
    BY <2>1, <2>2, Zenon DEF LastOnly
  <2>4. Arrived'
    BY <2>2, Zenon DEF Arrived
  <2> QED
    BY <1>1, <2>3, <2>4, Zenon
<1> QED
  BY <1>2, <1>3

(* A step that sends no height.                                            *)
LEMMA QuietKeeps ==
    ASSUME HeightInv, Counted', Tells({}),
           UNCHANGED <<phase, statusActive, helpExpanded, keymap, lastFrameHeight,
                       bodyFrame, behind>>
    PROVE  HeightInv'
<1>1. Told' = Told /\ \A m \in Told : msgs'[m] = msgs[m]
  BY Zenon DEF Tells
<1>2. LastOnly'
  BY <1>1, Zenon DEF HeightInv, LastOnly
<1>3. Arrived'
  BY <1>1, Zenon DEF HeightInv, Arrived
<1>4. Current'
  BY Zenon DEF HeightInv, Current, Needed
<1> QED
  BY <1>2, <1>3, <1>4, Zenon DEF HeightInv

(* The height under way arrives.                                           *)
LEMMA ArrivalKeeps ==
    ASSUME HeightInv, FlagsOK, NEW h \in Heights, HandleFrameHeight(h)
    PROVE  HeightInv'
<1> DEFINE m == FrameHeight(h)
<1>1. /\ Receive(m, {} \cup Resized) /\ Remember /\ phase' = phase
      /\ bodyFrame' = IF phase = "dashboard" THEN h ELSE bodyFrame
  BY Zenon DEF HandleFrameHeight, Dispatch
<1>2. Counted' /\ m \in DOMAIN msgs
  BY <1>1, TakenFromBag, Zenon DEF HeightInv
<1>3. m \in Told
  BY <1>2 DEF Told, UnderWay, FrameHeight
<1>4. Current'
  BY <1>1, NeededNext, Zenon DEF Remember, Current
<1>5. CASE Resized # {}
  <2>1. behind' = TRUE
    BY <1>1, <1>3, <1>5, Zenon DEF Remember, Told
  <2> QED
    BY <1>2, <1>4, <2>1, Zenon DEF HeightInv, LastOnly, Arrived
<1>6. CASE Resized = {}
  <2>1. lastFrameHeight' = lastFrameHeight /\ behind' = behind
    BY <1>1, <1>6, ResizedIs, Zenon DEF Remember
  <2>2. CASE behind
    BY <1>2, <1>4, <2>1, <2>2, Zenon DEF HeightInv, LastOnly, Arrived
  <2>3. CASE ~behind
    <3>1. Told = {m} /\ msgs[m] = 1 /\ m = FrameHeight(lastFrameHeight)
      BY <1>3, <2>3, Zenon DEF HeightInv, LastOnly
    <3>2. h = lastFrameHeight
      BY <3>1 DEF FrameHeight
    <3>3. DOMAIN msgs' = DOMAIN msgs \ {m}
      BY <1>1, <1>6, <3>1, TakenFromBag DEF HeightInv
    <3>4. Told' = {}
      BY <3>1, <3>3, Zenon DEF Told, UnderWay
    <3> QED
      BY <1>1, <1>2, <1>4, <2>1, <3>2, <3>4, Zenon DEF HeightInv, LastOnly, Arrived
  <2> QED
    BY <2>2, <2>3
<1> QED
  BY <1>5, <1>6

(* What is sent besides heights.                                           *)
LEMMA OtherKinds ==
    /\ \A k : Bindings(k).kind = "BindingsMsg"
    /\ \A c : Applied(c).kind = "SettingsApplied"
    /\ \A t : Changed(t).kind = "theme.Changed"
    /\ \A w : Display(w).kind = "Display"
    /\ Hide.kind = "SettingsVisibilityChanged"
    /\ FileRemoved.kind = "FileRemoved" /\ ProjectLoaded.kind = "ProjectLoaded"
BY DEF Bindings, Applied, Changed, Display, Hide, FileRemoved, ProjectLoaded

LEMMA NoHeights ==
    /\ OfHeight({}) = {}
    /\ \A m : m.kind # "FrameHeight" => OfHeight({m}) = {}
BY DEF OfHeight

(* User and world act.                                                     *)
LEMMA ActKeeps ==
    ASSUME Counted, NEW S, Act(S)
    PROVE  /\ Counted'
           /\ OfHeight(S) = {} => Tells({})
           /\ S = Resized => Tells(Resized)
<1>1. msgs' = msgs (+) SetToBag(S)
  BY Zenon DEF Act
<1>2. Counted' /\ Tells(OfHeight(S))
  BY <1>1, AddedToBag
<1>3. OfHeight({} \cup Resized) = Resized
  BY ResizedOnly, NoHeights, Zenon
<1>4. {} \cup Resized = Resized
  OBVIOUS
<1> QED
  BY <1>2, <1>3, <1>4, Zenon

LEMMA ProjectLoadedKeeps == ASSUME HeightInv, HandleProjectLoaded PROVE HeightInv'
<1>1. /\ Receive(ProjectLoaded, {Bindings("dashboard")} \cup Resized)
      /\ lastFrameHeight' = FrameNeeded /\ bodyFrame' = DefaultFrame
      /\ behind' = IF Told = {} THEN Resized = {} /\ FrameNeeded # DefaultFrame
                                ELSE behind \/ Resized # {}
  BY Zenon DEF HandleProjectLoaded, NewDashboard, Told
<1>2. OfHeight({Bindings("dashboard")}) = {}
  BY OtherKinds, NoHeights
<1>3. Counted' /\ Tells(Resized)
  <2>1. ProjectLoaded.kind # "FrameHeight"
    BY OtherKinds, Zenon
  <2>2. OfHeight({Bindings("dashboard")} \cup Resized) = Resized
    BY <1>2, ResizedOnly
  <2>3. Counted
    BY Zenon DEF HeightInv
  <2>4. Receive(ProjectLoaded, {Bindings("dashboard")} \cup Resized)
    BY <1>1
  <2>5. Tells(OfHeight({Bindings("dashboard")} \cup Resized)) /\ Counted'
    BY <2>1, <2>3, <2>4, TakenFromBag
  <2> QED
    BY <2>2, <2>5
<1>4. Current'
  BY <1>1, NeededNext, Zenon DEF Current
<1>5. CASE Told = {} /\ Resized = {}
  <2>1. Told' = {} /\ (~behind' => bodyFrame' = lastFrameHeight')
    BY <1>1, <1>3, <1>5, Zenon DEF Tells
  <2> QED
    BY <1>3, <1>4, <2>1, Zenon DEF HeightInv, LastOnly, Arrived
<1>6. CASE Told = {} /\ Resized # {}
  <2>1. Resized = {FrameHeight(FrameNeeded)}
    BY <1>6, ResizedIs, Zenon
  <2>2. Told' = {FrameHeight(FrameNeeded)} /\ msgs'[FrameHeight(FrameNeeded)] = 1
    BY <1>3, <1>6, <2>1, Zenon DEF Tells
  <2> QED
    BY <1>1, <1>3, <1>4, <2>2, Zenon DEF HeightInv, LastOnly, Arrived
<1>7. CASE Told # {}
  <2>1. ASSUME ~behind' PROVE ~behind /\ Resized = {} /\ lastFrameHeight' = lastFrameHeight
    BY <1>1, <1>7, <2>1, ResizedIs, Zenon
  <2>2. ASSUME ~behind' PROVE Told' = Told /\ \A m \in Told : msgs'[m] = msgs[m]
    <3>1. Tells({})
      BY <1>3, <2>1, <2>2, Zenon
    <3> QED
      BY <3>1, Zenon DEF Tells
  <2>3. LastOnly'
    BY <2>1, <2>2, Zenon DEF HeightInv, LastOnly
  <2>4. Arrived'
    BY <1>7, <2>2, Zenon DEF Arrived
  <2> QED
    BY <1>3, <1>4, <2>3, <2>4, Zenon DEF HeightInv
<1> QED
  BY <1>5, <1>6, <1>7

LEMMA LiveReloadKeeps == ASSUME HeightInv, LiveReload PROVE HeightInv'
<1>1. /\ Act({Bindings("dashboard")}) /\ bodyFrame' = DefaultFrame
      /\ UNCHANGED <<statusActive, helpExpanded, keymap, lastFrameHeight>>
      /\ behind' = IF Told = {} THEN lastFrameHeight # DefaultFrame ELSE behind
  BY Zenon DEF LiveReload, NewDashboard, Told, help, frame
<1>2. OfHeight({Bindings("dashboard")}) = {}
  BY OtherKinds, NoHeights
<1>3. Counted' /\ Tells({})
  BY <1>1, <1>2, ActKeeps, Zenon DEF HeightInv
<1>4. Told' = Told /\ \A m \in Told : msgs'[m] = msgs[m]
  BY <1>3, Zenon DEF Tells
<1>5. LastOnly'
  BY <1>1, <1>4, Zenon DEF HeightInv, LastOnly
<1>6. Arrived'
  BY <1>1, <1>4, Zenon DEF Arrived
<1>7. Current'
  BY <1>1, Zenon DEF HeightInv, Current, Needed
<1> QED
  BY <1>3, <1>5, <1>6, <1>7, Zenon DEF HeightInv

LEMMA HeightNext ==
    ASSUME HeightInv, FlagsOK, [Next]_vars PROVE HeightInv'
<1> USE DEF HeightInv, help, frame
<1>1. CASE HeightStep
  BY <1>1, ArrivalKeeps, Zenon DEF HeightStep
<1>2. CASE HandleProjectLoaded
  BY <1>2, ProjectLoadedKeeps, Zenon
<1>3. CASE LiveReload
  BY <1>3, LiveReloadKeeps, Zenon
<1>4. CASE ToggleHelp
  <2>1. Counted' /\ Tells(Resized)
    BY <1>4, ActKeeps, Zenon DEF ToggleHelp
  <2>2. Remember /\ bodyFrame' = bodyFrame /\ phase' = phase
    BY <1>4, Zenon DEF ToggleHelp, body
  <2> QED
    BY <2>1, <2>2, RememberKeeps, Zenon
<1>5. CASE HandleClearStatusMsg
  <2>1. msgs' = msgs (+) SetToBag(Resized) /\ Remember
    BY <1>5, Zenon DEF HandleClearStatusMsg
  <2>2. OfHeight({} \cup Resized) = Resized /\ {} \cup Resized = Resized
    BY ResizedOnly, NoHeights
  <2>3. Counted' /\ Tells(Resized)
    BY <2>1, <2>2, AddedToBag
  <2>4. bodyFrame' = bodyFrame /\ phase' = phase
    BY <1>5, Zenon DEF HandleClearStatusMsg, body
  <2> QED
    BY <2>1, <2>3, <2>4, RememberKeeps, Zenon
<1>6. CASE BindingsStep \/ DisplayStep \/ ChangedStep
           \/ HandleSettingsVisibilityChanged \/ HandleFileRemoved
  <2>1. PICK r, T : /\ r.kind # "FrameHeight" /\ OfHeight(T) = {}
                    /\ Receive(r, T \cup Resized) /\ Remember
                    /\ bodyFrame' = bodyFrame
                    /\ phase' = phase \/ phase' = "watching"
    <3>1. CASE BindingsStep
      <4>1. PICK k \in DOMAIN HelpLines : HandleBindingsMsg(k)
        BY <3>1 DEF BindingsStep
      <4>2. Receive(Bindings(k), {} \cup Resized)
        <5>1. {} \cup Resized = Resized
          OBVIOUS
        <5> QED
          BY <4>1, <5>1, Zenon DEF HandleBindingsMsg
      <4>3. Remember /\ bodyFrame' = bodyFrame /\ phase' = phase
        BY <4>1, Zenon DEF HandleBindingsMsg, body
      <4>4. Bindings(k).kind # "FrameHeight"
        BY OtherKinds
      <4> QED
        BY <4>2, <4>3, <4>4, NoHeights, Zenon
    <3>2. CASE DisplayStep
      <4>1. PICK m \in UnderWay({"Display"}) : HandleDisplay(m)
        BY <3>2 DEF DisplayStep
      <4>2. Receive(m, {} \cup Resized)
        <5>1. {} \cup Resized = Resized
          OBVIOUS
        <5> QED
          BY <4>1, <5>1, Zenon DEF HandleDisplay
      <4>3. Remember /\ bodyFrame' = bodyFrame /\ phase' = phase
        BY <4>1, Zenon DEF HandleDisplay, body
      <4>4. m.kind # "FrameHeight"
        BY DEF UnderWay
      <4> QED
        BY <4>2, <4>3, <4>4, NoHeights, Zenon
    <3>3. CASE ChangedStep
      <4>1. PICK t \in Themes : HandleThemeChanged(t)
        BY <3>3 DEF ChangedStep
      <4>2. /\ Receive(Changed(t), {} \cup Resized)
            /\ Remember /\ bodyFrame' = bodyFrame /\ phase' = phase
        BY <4>1, Zenon DEF HandleThemeChanged, Dispatch
      <4>3. Changed(t).kind # "FrameHeight"
        BY OtherKinds
      <4> QED
        BY <4>2, <4>3, NoHeights, Zenon
    <3>4. CASE HandleSettingsVisibilityChanged
      <4>1. /\ Receive(Hide, {} \cup Resized)
            /\ Remember /\ bodyFrame' = bodyFrame /\ phase' = phase
        BY <3>4, Zenon DEF HandleSettingsVisibilityChanged, Dispatch
      <4>2. Hide.kind # "FrameHeight"
        BY OtherKinds
      <4> QED
        BY <4>1, <4>2, NoHeights, Zenon
    <3>5. CASE HandleFileRemoved
      <4>1. /\ Receive(FileRemoved, {Bindings("watching")} \cup Resized)
            /\ Remember /\ bodyFrame' = bodyFrame /\ phase' = "watching"
        BY <3>5, Zenon DEF HandleFileRemoved, body
      <4>2. FileRemoved.kind # "FrameHeight" /\ Bindings("watching").kind # "FrameHeight"
        BY OtherKinds
      <4> QED
        BY <4>1, <4>2, NoHeights, Zenon
    <3> QED
      BY <1>6, <3>1, <3>2, <3>3, <3>4, <3>5, Zenon
  <2>2. Counted' /\ Tells(Resized)
    BY <2>1, TakenFromBag, ResizedOnly, Zenon
  <2> QED
    BY <2>1, <2>2, RememberKeeps, Zenon
<1>7. CASE AppliedStep
  <2>1. PICK c \in Configs : HandleSettingsApplied(c)
    BY <1>7 DEF AppliedStep
  <2>2. PICK T : /\ Receive(Applied(c), T)
                 /\ T \subseteq {Changed(theme'), Display("theme error"), Display("save error")}
    BY <2>1, Zenon DEF HandleSettingsApplied
  <2>3. OfHeight(T) = {} /\ Applied(c).kind # "FrameHeight"
    BY <2>2, OtherKinds DEF OfHeight
  <2>4. Counted' /\ Tells({})
    BY <2>2, <2>3, TakenFromBag, Zenon
  <2>5. UNCHANGED <<phase, statusActive, helpExpanded, keymap, lastFrameHeight,
                    bodyFrame, behind>>
    BY <2>1, Zenon DEF HandleSettingsApplied, body
  <2> QED
    BY <2>4, <2>5, QuietKeeps, Zenon
<1>8. CASE Announce \/ PickProject \/ FileGone \/ OpenSettings \/ CloseSettings \/ Adjust
  <2>1. PICK T : Act(T) /\ OfHeight(T) = {}
    <3>1. \E T : Act(T) /\ T \in {{}, {Display("notice")}, {ProjectLoaded}, {FileRemoved},
                                  {Hide}, {Applied(choice')}}
      BY <1>8, Zenon DEF Announce, PickProject, FileGone, OpenSettings, CloseSettings, Adjust
    <3>2. \A T \in {{}, {Display("notice")}, {ProjectLoaded}, {FileRemoved},
                    {Hide}, {Applied(choice')}} : OfHeight(T) = {}
      BY OtherKinds, NoHeights
    <3> QED
      BY <3>1, <3>2, Zenon
  <2>2. Counted' /\ Tells({})
    BY <2>1, ActKeeps, Zenon
  <2>3. UNCHANGED <<phase, statusActive, helpExpanded, keymap, lastFrameHeight,
                    bodyFrame, behind>>
    BY <1>8, Zenon DEF Announce, PickProject, FileGone, OpenSettings, CloseSettings, Adjust,
         body, history
  <2> QED
    BY <2>2, <2>3, QuietKeeps, Zenon
<1>9. CASE TimeUp \/ UNCHANGED vars
  <2>1. UNCHANGED <<phase, statusActive, helpExpanded, keymap, lastFrameHeight,
                    bodyFrame, behind, msgs>>
    BY <1>9, Zenon DEF TimeUp, vars, body, history
  <2> QED
    BY <2>1, Zenon DEF Counted, LastOnly, Arrived, Current, Needed, Told, UnderWay
<1> QED
  BY <1>1, <1>2, <1>3, <1>4, <1>5, <1>6, <1>7, <1>8, <1>9, Steps

LEMMA HeightInit == Init => HeightInv
<1> SUFFICES ASSUME Init PROVE HeightInv
  OBVIOUS
<1>1. msgs = SetToBag({Bindings(phase)}) /\ lastFrameHeight = 0
  BY Zenon DEF Init
<1>2. DOMAIN msgs = {Bindings(phase)} /\ Counted
  BY <1>1 DEF SetToBag, Counted
<1>3. Told = {}
  BY <1>2, OtherKinds DEF Told, UnderWay
<1>4. LastOnly /\ Arrived /\ Current
  BY <1>1, <1>3, Zenon DEF LastOnly, Arrived, Current
<1> QED
  BY <1>2, <1>4, Zenon DEF HeightInv

(* Whatever comes and goes on the bars, the dashboard leaves the lines     *)
(* they take: a height is wrong only where heights have overtaken each     *)
(* other or the dashboard was made under another.                          *)
THEOREM BodyAlwaysFits == Spec => []BodyFits
<1>1. FlagsOK /\ HeightInv /\ [Next]_vars => (FlagsOK /\ HeightInv)'
  BY FlagsNext, HeightNext
<1>2. Init => FlagsOK /\ HeightInv
  BY ChromeInit, HeightInit DEF ChromeInv
<1> QED
  BY <1>1, <1>2, HeightInvFits, PTL DEF Spec

-----------------------------------------------------------------------------
(* THE SETTINGS' NEWS                                                      *)

News == UnderWay(SettingsNews)
NewsOf(S) == {m \in S : m.kind \in SettingsNews}

(* The overlay's change is under way or in force, and then told of.        *)
OneNews ==
    /\ \A m \in News : msgs[m] = 1 /\ m \in {Applied(choice), Changed(theme)}
    /\ \A m, n \in News : m = n

InForce ==
    /\ choice = cfg
    /\ loadOK => theme = cfg.theme
    /\ saveOK => file = cfg

(* What holds of the settings as long as they are not stale: SettingsAgree *)
(* alone is disturbed by the change that is handled, and by its news.      *)
SettingsKept ==
    ~stale => /\ OneNews
              /\ Applied(choice) \notin News => InForce
              /\ News = {} /\ phase = "dashboard" => dashTheme = theme

(* A step that adds S to the news under way.                               *)
AddsNews(S) ==
    /\ News' = News \cup S
    /\ \A m \in News \ S : msgs'[m] = msgs[m]
    /\ \A m \in S \ News : msgs'[m] = 1

LEMMA NewsAdded ==
    ASSUME Counted, NEW S, msgs' = msgs (+) SetToBag(S)
    PROVE  AddsNews(NewsOf(S))
<1>1. DOMAIN msgs' = DOMAIN msgs \cup S
  BY DEF (+), SetToBag
<1>2. \A m \in DOMAIN msgs \ S : msgs'[m] = msgs[m]
  BY DEF (+), SetToBag, Counted
<1>3. \A m \in S \ DOMAIN msgs : msgs'[m] = 1
  BY DEF (+), SetToBag, Counted
<1> QED
  BY <1>1, <1>2, <1>3 DEF AddsNews, News, UnderWay, NewsOf

(* A message taken that was there once leaves the others and what is sent. *)
LEMMA NewsTaken ==
    ASSUME Counted, NEW r, NEW S, Receive(r, S)
    PROVE  /\ r \in DOMAIN msgs
           /\ r.kind \notin SettingsNews => AddsNews(NewsOf(S))
           /\ msgs[r] = 1 /\ r \notin S =>
                 /\ News' = (News \ {r}) \cup NewsOf(S)
                 /\ \A m \in NewsOf(S) \ News : msgs'[m] = 1
<1> DEFINE rest == msgs (-) SetToBag({r})
<1>1. r \in DOMAIN msgs /\ msgs' = rest (+) SetToBag(S)
  BY Zenon DEF Receive, BagIn, BagToSet
<1>2. /\ DOMAIN rest = {m \in DOMAIN msgs : m # r \/ msgs[r] > 1}
      /\ \A m \in DOMAIN rest : rest[m] = IF m = r THEN msgs[r] - 1 ELSE msgs[m]
  BY DEF (-), SetToBag, Counted
<1>3. \A m \in DOMAIN rest : rest[m] \in Nat \ {0}
  BY <1>2 DEF Counted
<1> HIDE DEF rest
<1>4. DOMAIN msgs' = DOMAIN rest \cup S
  BY <1>1 DEF (+), SetToBag
<1>5. \A m \in DOMAIN rest \ S : msgs'[m] = rest[m]
  BY <1>1, <1>3 DEF (+), SetToBag
<1>6. \A m \in S \ DOMAIN rest : msgs'[m] = 1
  BY <1>1, <1>3 DEF (+), SetToBag
<1>7. ASSUME r.kind \notin SettingsNews PROVE AddsNews(NewsOf(S))
  BY <1>2, <1>4, <1>5, <1>6, <1>7 DEF AddsNews, News, UnderWay, NewsOf
<1>8. ASSUME msgs[r] = 1, r \notin S
      PROVE  /\ News' = (News \ {r}) \cup NewsOf(S)
             /\ \A m \in NewsOf(S) \ News : msgs'[m] = 1
  <2>1. DOMAIN rest = DOMAIN msgs \ {r}
    BY <1>2, <1>8
  <2> QED
    BY <1>4, <1>6, <1>8, <2>1 DEF News, UnderWay, NewsOf
<1> QED
  BY <1>1, <1>7, <1>8

(* A message tells what it carries, and its kind.                          *)
LEMMA Carried ==
    /\ \A c, d : Applied(c) = Applied(d) => c = d
    /\ \A t, u : Changed(t) = Changed(u) => t = u
    /\ \A c, t : Applied(c) # Changed(t)
    /\ \A c, t : Applied(c).kind \in SettingsNews /\ Changed(t).kind \in SettingsNews
BY DEF Applied, Changed, SettingsNews

(* What else is sent is no news of the settings.                           *)
LEMMA NoNews ==
    /\ NewsOf({}) = {} /\ NewsOf(Resized) = {}
    /\ \A m : m.kind \notin SettingsNews =>
                 NewsOf({m}) = {} /\ NewsOf({m} \cup Resized) = {}
<1>1. \A h : FrameHeight(h).kind \notin SettingsNews
  BY DEF FrameHeight, SettingsNews
<1>2. \A m \in Resized : m.kind \notin SettingsNews
  BY <1>1, Zenon DEF Resized
<1> QED
  BY <1>2, Zenon DEF NewsOf

LEMMA NoNewsKinds ==
    /\ \A h : FrameHeight(h).kind \notin SettingsNews
    /\ \A k : Bindings(k).kind \notin SettingsNews
    /\ \A w : Display(w).kind \notin SettingsNews
    /\ Hide.kind \notin SettingsNews
    /\ FileRemoved.kind \notin SettingsNews
    /\ ProjectLoaded.kind \notin SettingsNews
BY DEF FrameHeight, Bindings, Display, Hide, FileRemoved, ProjectLoaded, SettingsNews

(* A step that neither sends nor takes news nor touches the settings.      *)
LEMMA NoNewsKeeps ==
    ASSUME SettingsKept, AddsNews({}),
           UNCHANGED <<cfg, theme, file, choice, dashTheme, loadOK, saveOK, stale>>,
           phase' = phase \/ phase' # "dashboard"
    PROVE  SettingsKept'
<1>1. News' = News /\ \A m \in News : msgs'[m] = msgs[m]
  BY Zenon DEF AddsNews
<1>2. OneNews => OneNews'
  BY <1>1, Zenon DEF OneNews
<1>3. InForce => InForce'
  BY Zenon DEF InForce
<1> QED
  BY <1>1, <1>2, <1>3, Zenon DEF SettingsKept

(* A choice made while none is under way is the only one.                  *)
LEMMA AdjustKeeps == ASSUME Counted, Adjust PROVE SettingsKept'
<1>1. msgs' = msgs (+) SetToBag({Applied(choice')}) /\ stale' = (News # {})
  BY Zenon DEF Adjust, Act, News
<1>2. AddsNews(NewsOf({Applied(choice')}))
  BY <1>1, NewsAdded
<1>3. NewsOf({Applied(choice')}) = {Applied(choice')}
  BY Carried, Zenon DEF NewsOf
<1>4. ASSUME ~stale' PROVE News' = {Applied(choice')} /\ msgs'[Applied(choice')] = 1
  <2>1. News = {}
    BY <1>1, <1>4, Zenon
  <2> QED
    BY <1>2, <1>3, <2>1, Zenon DEF AddsNews
<1> QED
  BY <1>4, Zenon DEF SettingsKept, OneNews

(* The choice comes into force and is told of.                             *)
LEMMA AppliedKeeps ==
    ASSUME Counted, SettingsKept, NEW c, HandleSettingsApplied(c)
    PROVE  SettingsKept'
<1>1. PICK S : /\ Receive(Applied(c), S)
               /\ Changed(theme') \in S
               /\ S \subseteq {Changed(theme'), Display("theme error"), Display("save error")}
  BY Zenon DEF HandleSettingsApplied
<1>2. /\ cfg' = c /\ UNCHANGED <<choice, dashTheme, phase, stale>>
      /\ loadOK' => theme' = c.theme
      /\ saveOK' => file' = c
  <2>1. PICK loaded, saved \in BOOLEAN :
           /\ cfg' = c
           /\ theme' = IF loaded THEN c.theme ELSE theme
           /\ file' = IF saved THEN c ELSE file
           /\ loadOK' = loaded /\ saveOK' = saved
           /\ UNCHANGED <<phase, body, stale>>
    BY Zenon DEF HandleSettingsApplied
  <2>2. UNCHANGED <<choice, dashTheme, phase, stale>>
    BY <2>1, Zenon DEF body
  <2>3. loadOK' => theme' = c.theme
    BY <2>1, Zenon
  <2>4. saveOK' => file' = c
    BY <2>1, Zenon
  <2> QED
    BY <2>1, <2>2, <2>3, <2>4, Zenon
<1>3. NewsOf(S) = {Changed(theme')}
  <2>1. ASSUME NEW m \in S, m.kind \in SettingsNews PROVE m = Changed(theme')
    BY <1>1, <2>1, NoNewsKinds
  <2>2. Changed(theme').kind \in SettingsNews
    BY Carried
  <2> QED
    BY <1>1, <2>1, <2>2, Zenon DEF NewsOf
<1> SUFFICES ASSUME ~stale'
             PROVE  OneNews' /\ InForce' /\ News' # {}
  BY Zenon DEF SettingsKept
<1>4. Applied(c) \in News
  BY <1>1, NewsTaken, Carried DEF News, UnderWay
<1>5. OneNews
  BY <1>2, Zenon DEF SettingsKept
<1>6. c = choice /\ msgs[Applied(c)] = 1 /\ News = {Applied(c)}
  BY <1>4, <1>5, Carried, Zenon DEF OneNews
<1>7. Applied(c) \notin S
  BY <1>1, Carried, NoNewsKinds, Zenon
<1>8. News' = {Changed(theme')} /\ msgs'[Changed(theme')] = 1
  <2>1. /\ News' = (News \ {Applied(c)}) \cup NewsOf(S)
        /\ \A m \in NewsOf(S) \ News : msgs'[m] = 1
    BY <1>1, <1>6, <1>7, NewsTaken, Zenon
  <2>2. Changed(theme') \notin News
    BY <1>6, Carried, Zenon
  <2> QED
    BY <1>3, <1>6, <2>1, <2>2, Zenon
<1>9. OneNews'
  BY <1>8, Zenon DEF OneNews
<1>10. InForce'
  BY <1>2, <1>6, Zenon DEF InForce
<1> QED
  BY <1>8, <1>9, <1>10, Zenon

(* The news of the theme arrives, and all are told.                        *)
LEMMA ChangedKeeps ==
    ASSUME Counted, SettingsKept, NEW t, HandleThemeChanged(t)
    PROVE  SettingsKept'
<1>1. /\ Receive(Changed(t), {} \cup Resized) /\ theme' = t
      /\ dashTheme' = IF phase = "dashboard" THEN t ELSE dashTheme
      /\ UNCHANGED <<phase, choice, cfg, file, loadOK, saveOK, stale>>
  BY Zenon DEF HandleThemeChanged, Dispatch, outcome
<1>2. {} \cup Resized = Resized
  OBVIOUS
<1> SUFFICES ASSUME ~stale PROVE SettingsKept'
  BY <1>1, Zenon DEF SettingsKept
<1>3. Changed(t) \in News
  BY <1>1, NewsTaken, Carried DEF News, UnderWay
<1>4. OneNews
  BY Zenon DEF SettingsKept
<1>5. t = theme /\ msgs[Changed(t)] = 1 /\ News = {Changed(t)}
  <2>1. Changed(t) \in {Applied(choice), Changed(theme)} /\ msgs[Changed(t)] = 1
    BY <1>3, <1>4, Zenon DEF OneNews
  <2>2. Changed(t) # Applied(choice)
    BY Carried
  <2>3. t = theme
    BY <2>1, <2>2, Carried, Zenon
  <2>4. News = {Changed(t)}
    BY <1>3, <1>4, Zenon DEF OneNews
  <2> QED
    BY <2>1, <2>3, <2>4
<1>6. InForce
  BY <1>5, Carried, Zenon DEF SettingsKept
<1>7. Changed(t) \notin Resized
  BY NoNews, Carried, Zenon DEF NewsOf
<1>8. News' = {}
  <2>1. News' = (News \ {Changed(t)}) \cup NewsOf(Resized)
    BY <1>1, <1>2, <1>5, <1>7, NewsTaken, Zenon
  <2> QED
    BY <1>5, <2>1, NoNews, Zenon
<1>9. InForce'
  BY <1>1, <1>5, <1>6, Zenon DEF InForce
<1> QED
  BY <1>1, <1>8, <1>9, Zenon DEF SettingsKept, OneNews

(* A new dashboard whose overlay shows the configuration in force.         *)
LEMMA ReloadKeeps ==
    ASSUME SettingsKept, AddsNews({}), NEW c, NEW t, NewDashboard(c, t),
           UNCHANGED <<cfg, theme, file, loadOK, saveOK>>,
           t = theme \/ (t = dashTheme /\ phase = "dashboard")
    PROVE  SettingsKept'
<1> SUFFICES ASSUME ~stale' PROVE SettingsKept'
  BY Zenon DEF SettingsKept
<1>1. ~stale /\ c = cfg /\ Overlay(c) = c /\ News = {}
  BY Zenon DEF NewDashboard, News
<1>2. choice' = cfg /\ dashTheme' = t
  BY <1>1, Zenon DEF NewDashboard
<1>3. InForce /\ (phase = "dashboard" => dashTheme = theme)
  BY <1>1, Zenon DEF SettingsKept
<1>4. News' = {}
  BY <1>1, Zenon DEF AddsNews
<1>5. InForce' /\ OneNews' /\ dashTheme' = theme'
  BY <1>2, <1>3, <1>4, Zenon DEF InForce, OneNews
<1> QED
  BY <1>5, Zenon DEF SettingsKept

LEMMA SettingsNext == ASSUME Counted, SettingsKept, [Next]_vars PROVE SettingsKept'
<1> USE DEF body, conf, outcome, history
<1>1. CASE Adjust
  BY <1>1, AdjustKeeps
<1>2. CASE AppliedStep
  BY <1>2, AppliedKeeps, Zenon DEF AppliedStep
<1>3. CASE ChangedStep
  BY <1>3, ChangedKeeps, Zenon DEF ChangedStep
<1>4. CASE LiveReload
  <2>1. /\ Act({Bindings("dashboard")}) /\ NewDashboard(dashCfg, dashTheme)
        /\ phase = "dashboard" /\ UNCHANGED <<cfg, theme, file, loadOK, saveOK>>
    BY <1>4, Zenon DEF LiveReload
  <2>2. msgs' = msgs (+) SetToBag({Bindings("dashboard")})
    BY <2>1, Zenon DEF Act
  <2>3. AddsNews({})
    BY <2>2, NewsAdded, NoNews, NoNewsKinds, Zenon
  <2> QED
    BY <2>1, <2>3, ReloadKeeps, Zenon
<1>5. CASE HandleProjectLoaded
  <2>1. /\ Receive(ProjectLoaded, {Bindings("dashboard")} \cup Resized)
        /\ NewDashboard(cfg, theme) /\ UNCHANGED <<cfg, theme, file, loadOK, saveOK>>
    BY <1>5, Zenon DEF HandleProjectLoaded
  <2>2. NewsOf({Bindings("dashboard")} \cup Resized) = {} /\ ProjectLoaded.kind \notin SettingsNews
    BY NoNews, NoNewsKinds, Zenon
  <2>3. AddsNews({})
    BY <2>1, <2>2, NewsTaken, Zenon
  <2> QED
    BY <2>1, <2>3, ReloadKeeps, Zenon
<1>6. CASE \/ Announce \/ PickProject \/ FileGone \/ ToggleHelp \/ OpenSettings \/ CloseSettings
           \/ HandleClearStatusMsg
  <2>1. PICK S : msgs' = msgs (+) SetToBag(S) /\ NewsOf(S) = {}
    <3>1. \E S \in {{}, {Display("notice")}, {ProjectLoaded}, {FileRemoved}, {Hide}, Resized} :
             msgs' = msgs (+) SetToBag(S)
      BY <1>6, Zenon DEF Announce, PickProject, FileGone, ToggleHelp, OpenSettings,
           CloseSettings, HandleClearStatusMsg, Act
    <3>2. \A S \in {{}, {Display("notice")}, {ProjectLoaded}, {FileRemoved}, {Hide}, Resized} :
             NewsOf(S) = {}
      BY NoNews, NoNewsKinds, Zenon
    <3> QED
      BY <3>1, <3>2, Zenon
  <2>2. AddsNews({})
    BY <2>1, NewsAdded, Zenon
  <2>3. UNCHANGED <<cfg, theme, file, choice, dashTheme, loadOK, saveOK, stale, phase>>
    BY <1>6, Zenon DEF Announce, PickProject, FileGone, ToggleHelp, OpenSettings,
         CloseSettings, HandleClearStatusMsg
  <2> QED
    BY <2>2, <2>3, NoNewsKeeps, Zenon
<1>7. CASE HeightStep \/ BindingsStep \/ DisplayStep
           \/ HandleSettingsVisibilityChanged \/ HandleFileRemoved
  <2>1. UNCHANGED <<cfg, theme, file, choice, dashTheme, loadOK, saveOK, stale>>
    BY <1>7, Zenon DEF HeightStep, HandleFrameHeight, BindingsStep, HandleBindingsMsg,
         DisplayStep, HandleDisplay, HandleSettingsVisibilityChanged, HandleFileRemoved
  <2>2. phase' = phase \/ phase' = "watching"
    BY <1>7, Zenon DEF HeightStep, HandleFrameHeight, BindingsStep, HandleBindingsMsg,
         DisplayStep, HandleDisplay, HandleSettingsVisibilityChanged, HandleFileRemoved
  <2>3. \E r, S : Receive(r, S) /\ r.kind \notin SettingsNews /\ NewsOf(S) = {}
    <3>1. {} \cup Resized = Resized
      OBVIOUS
    <3>2. CASE HeightStep
      BY <3>1, <3>2, NoNews, NoNewsKinds, Zenon DEF HeightStep, HandleFrameHeight, Dispatch
    <3>3. CASE BindingsStep
      BY <3>3, NoNews, NoNewsKinds, Zenon DEF BindingsStep, HandleBindingsMsg
    <3>4. CASE DisplayStep
      <4>1. PICK m \in UnderWay({"Display"}) : HandleDisplay(m)
        BY <3>4 DEF DisplayStep
      <4>2. m.kind \notin SettingsNews
        BY DEF UnderWay, SettingsNews
      <4> QED
        BY <4>1, <4>2, NoNews, Zenon DEF HandleDisplay
    <3>5. CASE HandleSettingsVisibilityChanged
      BY <3>1, <3>5, NoNews, NoNewsKinds, Zenon DEF HandleSettingsVisibilityChanged, Dispatch
    <3>6. CASE HandleFileRemoved
      BY <3>6, NoNews, NoNewsKinds, Zenon DEF HandleFileRemoved
    <3> QED
      BY <1>7, <3>2, <3>3, <3>4, <3>5, <3>6
  <2>4. AddsNews({})
    BY <2>3, NewsTaken, Zenon
  <2> QED
    BY <2>1, <2>2, <2>4, NoNewsKeeps, Zenon
<1>8. CASE TimeUp \/ UNCHANGED vars
  <2>1. UNCHANGED <<msgs, phase, cfg, theme, file, choice, dashTheme, loadOK, saveOK, stale>>
    BY <1>8, Zenon DEF TimeUp, vars
  <2> QED
    BY <2>1, Zenon DEF SettingsKept, OneNews, InForce, News, UnderWay
<1> QED
  BY <1>1, <1>2, <1>3, <1>4, <1>5, <1>6, <1>7, <1>8, Steps

LEMMA SettingsInit == Init => SettingsKept
<1> SUFFICES ASSUME Init PROVE SettingsKept
  OBVIOUS
<1>1. msgs = SetToBag({Bindings(phase)})
  BY Zenon DEF Init
<1>2. DOMAIN msgs = {Bindings(phase)}
  BY <1>1 DEF SetToBag
<1>3. News = {}
  BY <1>2, NoNewsKinds DEF News, UnderWay
<1>4. ~stale => InForce /\ dashTheme = theme
  BY Zenon DEF Init, InForce
<1> QED
  BY <1>3, <1>4, Zenon DEF SettingsKept, OneNews

(* Once a change has been spread, overlay, application, file and themes    *)
(* agree, whatever failed to load or to save: each change was alone under  *)
(* way, first as choice, then as configuration and theme                   *)
(* (app.go:422-450, settings.go:89-176, dashboard.go:370-401).             *)
THEOREM SettingsSettle == Spec => []SettingsAgree
<1>1. FlagsOK /\ HeightInv /\ SettingsKept /\ [Next]_vars
         => (FlagsOK /\ HeightInv /\ SettingsKept)'
  BY FlagsNext, HeightNext, SettingsNext DEF HeightInv
<1>2. Init => FlagsOK /\ HeightInv /\ SettingsKept
  BY ChromeInit, HeightInit, SettingsInit DEF ChromeInv
<1>3. SettingsKept => SettingsAgree
  BY Zenon DEF SettingsKept, SettingsAgree, InForce, News
<1> QED
  BY <1>1, <1>2, <1>3, PTL DEF Spec
=============================================================================
