# A verification development for ogle

ogle is a terminal dashboard for a Docker Compose project. It is a Bubble Tea
program: one event loop runs `Update` on one message at a time, and every
command a handler returns runs in a goroutine of its own and delivers at most
one message, in no particular order with the others. Beside the loop run the
reader goroutines of the log streams and the event loop of the file watcher.
Most of what can go wrong lies between two messages: what was true when a
command was issued need not be true when its message is handled, and the screen
that handles it need not be the one that asked.

The modules here model those interleavings. `PROJECT.json` maps each definition
to the lines it stands for, and lists the runs, mutants, findings, hazards and
theorems this text refers to.

## Inventory

| Component | Source (under `src/`) | State | Operations | Hard part | Module |
|---|---|---|---|---|---|
| Daemon monitor | `internal/services/docker/connection`, `ui/components/topbar`, `docker/service.go` (`Connect`) | connection state, retry deadline | ping, grace timer, tick, poll | timers that stop themselves, one that races the retry loop | `DaemonMonitor` |
| Log streamer | `internal/services/docker/logs` | `ch`, `lineCh`, `done`, reader goroutine | `Start`, `ReadFrames`, `Next`, `Close` | two bounded channels, signals that are dropped, `Close` waiting inside the event loop | `LogStreamer`, `HostedStream` |
| Service hosts, service panel | `ui/components/servicehost`, `servicepanel` | `streamerStarted`, `retryCount`, `pollerStarted` | polls, stream failures, retry ticks | every message goes to every host | `LogHosts`, `HostedStream`, `StatePolling`; retry delays not modelled |
| File watcher, scanner | `internal/services/watcher`, `scanner` | a buffer of one snapshot, `done`, `sendMsg` | `run`, `Snapshot`, `Next`, `Close` | scans that are not atomic, a buffer with two ends | `Watcher`, `FileFeed` |
| Phases and project | `internal/app`, `flows/startup`, `components/fileselect`, `components/watching`, live reload of `flows/dashboard` | phase, project, file waited for | listing, selection, load, removal | transitions that take two messages | `ProjectLifecycle` |
| State polling | `servicepanel`, `docker/ps.go`, `flows/dashboard` | poll loops, Ps commands out, runtime data | tick, `Ps`, `ServicesPolled`, live reload | loops that outlive their dashboard, answers out of order | `StatePolling` |
| Service actions | `docker/actions.go`, `flows/dashboard`, `carousel`, `card` | processes under way, actions in flight, state of the cards | start/stop/restart/rebuild, completion, poll, page turn | processes that outlive the cards, several on one service, optimistic states | `ServiceActions` |
| Inspection, accordion, labels | `docker/inspect.go`, `flows/dashboard`, `accordion`, `labelsaccordion` | selected service, runtime data, container last inspected, labels | select, poll, inspect, answer | late answers for another selection | `Inspector`; collapsing and scrolling not modelled |
| Carousel and cards | `ui/components/carousel` | focus, hover, page, last click, cards | Tab, Enter, click, motion, page | focus and blur as separate messages, cards rebuilt | `Carousel`; scrolling of names not modelled |
| Log pane, badge | `ui/components/logpane`, `topbar`, `layout` | bounded line buffer, wrap, overflow flag, viewport offset; badge | drain, clear, wrap, scroll, resize, report | an offset and a flag about a buffer that is cut; reports that cross contexts | `LogPane`; draining in `LogStreamer`; yank not modelled |
| Settings, configuration | `ui/components/settings`, `config`, `theme` | the overlay's choice, copies of configuration and theme in application, dashboard and file | open, adjust, apply, save, close | changes that cross, copies that go stale, failures to load and to save | `Chrome` |
| Chrome: bars and frame height | `internal/app`, `statusbar`, `helpbar` | message shown and its ticks, keymap, help expanded, last height sent, height the dashboard knows | display, tick, toggle help, phase change | a height sent only when it changes, to a dashboard that may be new; ticks without a name | `Chrome`; motion throttle and About not modelled |
| Value scroll | `accordion/value` | offset, direction, generation | start, tick | tick chains that must not multiply | not modelled |
| Parser | `internal/services/parser` | none | `Parse`, `NormalisePorts` | a pure algorithm | whether it parses, in `ProjectLifecycle`; rest not modelled |
| Command line | `cmd` | configuration and theme at the start | wiring | none | `Chrome`'s `Init` |
| Clipboard, profiling, colours, hover list, docgen | `clipboard`, `profiling`, `colourutil`, `hoverlist`, `tools` | none of interest | system calls, data | none | not modelled |

The components meet in five ways. The topbar's `DaemonConnected` starts the poll
loop of the service panel. A poll opens and closes the hosts' log streams. The
watcher's listings drive the phases, and each phase change or live reload makes
a new dashboard without closing the old one. The application tells the dashboard,
and the dashboard the topbar, what they draw by messages of their own. And
`app.Update` hands every message it does not know to the phase of the moment.

## The modules

**`DaemonMonitor`.** Every handler of the topbar returns at most one command and
every command delivers one message, so that pending work is a set of *chains*;
`Init` starts two, the first ping and the grace timer. Time is in seconds; a
timer may fire late, never early; a ping is over within `RequestTimeout`
(the HTTP client's). The daemon goes up and down at will. One action per
message: `HandleConnected`, `HandleUnavailable`, `HandleGracePeriodExpired`,
`HandleTick`, `HandlePoll`, and `Ping` for `Connect`.

**`LogStreamer`.** One stream with its reader (`connect`, `read`, `line`,
`signal`, `fail` are the places it can block in), the channels `ch` (as a
sequence) and `lineCh` (as a count), the `Next` commands waiting on the current
`done` and on closed ones, and the messages `Next` has returned. `Close` takes
two steps, for it waits for the reader in between while the loop does nothing
else; `handling` is the failure whose handler has called `Close`, if one has. Go's
`select` is a disjunction.

**`HostedStream`.** What a host relies on: it opens a stream when it has none, the
stream ends or fails once, a failure is reported once and handled once, and after
`Close` nothing of the stream is left but the failures already reported. It has
no fairness. `LogStreamer` implements it (`StreamSpec`), with what its reader, its
two channels and its `Next` commands do as steps of one stream; and each host of
`LogHosts` uses it (`StreamSpecs`).

**`LogHosts`.** Several services, each with its container, host and stream. A
stream is seen from the host: connecting, tailing, at the end of a stopped
container's log, failed, or its reader gone; what takes `LogStreamer` many steps,
`Close` above all, is one here, which `HostedStream` justifies. Every failure and every retry tick
reaches every host, as the panel's `Update` does it.

**`Watcher`** and **`FileFeed`.** The watcher's goroutine, the application's one
command, the event loop and `Close`, over the kernel's queue. A scan looks at
one file at a time while the files change. A file's state is the number of its
changes, finer than the presence the code looks at, so that an old look is told
from a new one. fsnotify (external) delivers until its `Close` has returned
(`Delivers`), for that waits for its goroutine and closes both channels. A stat that
fails for another reason than that the file is not there, which the scanner takes for
absence (`scanner/service.go:48`), is not modelled. `FileFeed` states what the application gets: states
each file has been in, and in the end the present ones.

**`ProjectLifecycle`.** The three phases. A flow that sees a listing answers with a
message of its own, `FileSelected`, `ProjectLoaded` or `FileRemoved`, while the
application asks the watcher for the next listing: both are on their way and
arrive in either order. A file is absent, invalid or valid. The watcher looks at
one file after the other while the directory changes (`StartScan`, `Stat`,
`Scanned`); the events of a burst count as one (`noticed`), and a snapshot nobody
has taken is replaced, which is what `Watcher` details.

**`StatePolling`.** Dashboards follow one another; what is under way for one
reaches the next. `pollerStarted` belongs to the panel, the armed tick to nobody.

**`Carousel`.** Slots are numbered as in the code, dots of the pages first. The
handlers of keys and mouse change the slots at once and send messages; cards and
dashboard change when a message is delivered (`Deliver`), in any order. The two
loops of Tab and Shift+Tab are "the first slot, k steps on, that is not passed
over"; where there is none, `HandleTab` sets `looping` and nothing but
`TabLoops` happens any more. A project of any size up to a bound is chosen in `Init`. The user may be ahead of the messages; the history variable `raced` says so.

**`ServiceActions`.** A job goes from the key (`asked`) to a running process to
its end on the way back. Cards are those of the page shown: turning the page or a
live reload makes new ones that know nothing. The carousel keeps what the last
poll saw beside what each card believes, and Enter decides by the former.
"exited" stands for every state of a container that is not running.

**`Inspector`.** Containers are numbered per service, so that a rebuilt service has
another one. Selections, answers of Ps and answers of Inspect are bags of
messages. `late` records that the last Inspect was asked for while one for another
container was out, or that one has failed since: then nothing is said of the
labels, for an answer does not name its container. An Inspect asked for alone takes
`late` back, so that what it puts right is checked.

**`LogPane`.** One pane, its host's selected flag, the dashboard's selection and
the topbar's context and badge. A line is its width. The viewport (of bubbles) is
external: it is rows, an offset and `SetYOffset`, and its content, size and wrap
always follow the pane's. `realLineIndex` is the line a row belongs to,
`RealLineIndex`. Messages are counted per kind, and any that is under way may come
next. What other services' panes report is open until it is shown. History
variables: `away` (the user scrolled, or a change of the chrome moved the end),
`raced` (reports or contexts overtook each other since the selection), `cleared`
(a buffer with cut-off lines was cleared since).

**`Chrome`.** The application around its phases: status bar, help bar, the height
it believes they take and has last sent, and the dashboard's own copy of it; and
the settings, from the overlay's choice through `SettingsApplied` to the
application's configuration, the file and `theme.Changed`. Each handler computes
the height anew at its end, as `frameHeightCmd` does, and sends it if it has
changed. `own` and `old` are the status bar's ticks to come, which carry no name.
A theme is a number, of which the last is one of the user's own, that the overlay
cannot show. History variables: `behind` (a dashboard was made under another
height, or two heights crossed), `loadOK` and `saveOK` (how the last change went),
`stale` (the overlay was not made from the configuration in force, or two changes
crossed).

The modules do not share variables. `LogStreamer` and `LogHosts` meet in
`HostedStream`, which the one implements and the other uses; the others take from
each other what was shown of it (`ProjectLifecycle` a feed of listings, `StatePolling` a monitor that reports again and
again, `ServiceActions` and `Inspector` polls that go on and answer in any order,
`Inspector` the selections of `Carousel`).

## Runs

| Run | Shows |
|---|---|
| `daemon` | with the code's durations (10, 10, 5, 1, 2 s): something is always under way that will leave the present state; one chain pings; the badge ends up right; an outage is always followed by an attempt |
| `streamer` | no lost wake-up, always a listener, `Close` returns and leaves nothing behind, lines written are drained, and `HostedStream` is implemented |
| `hosts` | with two services, three container changes and a failing connection: each host treats its stream as `HostedStream` says; a service that runs on ends with its stream started, one that is down with none |
| `watcher` | no change missed, the goroutine never blocks on its own buffer, listings go forward, the goroutine returns once fsnotify is closed, unless it is just then about to report a watch error, and `FileFeed` is implemented |
| `lifecycle` | only offered files are loaded, startup ends when one valid file is there, every dashboard, the first or a later one, is left when its file goes for good, unless it is made after the last listing |
| `polling` | the resting state of a service is the one shown for good; a panel that believes in its poll loop has one |
| `carousel` | with up to three services on pages of two: where there is a service the focus rests on something that is there and Tab finds the next such place; what is hovered is there; a toggle by click is always of the service clicked before, and when the user waits for the messages cards, dashboard and slots agree |
| `actions` | with two actions at once on a service that comes and goes from the page: a card is in flight only while something is under way for it, never for ever, and a poll puts right what it believes |
| `inspector` | with two services of two containers each: what the dashboard wrote down as inspected is shown or coming, and labels end up those of the selected container, unless the last Inspect was asked for while another was out or one has failed since; details end up right always, and Inspect is not repeated for ever |
| `logpane` | on terminals with and without sidebar: the flag for cut-off lines is exact through cuts, clears, wraps and resizes; who has not left the end of the log stays there; the badge ends up true of the selected service, unless its news overtook each other or a buffer with cut-off lines was cleared |
| `chrome` | the dashboard fits between the bars once told, unless it was made under another height, two heights crossed or the application forgot a message; no message is taken down before its time; a settled change of the settings is the same in overlay, application, file and themes, unless the overlay was made from an old configuration or two changes crossed |

One run finds a disagreement between code and documents:

| Run | What happens |
|---|---|
| `hosts_tail` | a container that stops and starts between two polls is not tailed again: the end of its log was not reported |

Further disagreements, met while modelling and kept as notes rather than runs:

- one service's stream failure closes every service's stream: `handleStreamEvent`
  does not look at the name it is given (`servicehost.go:166`), though
  `CONTEXT.md` (55-57) gives each service a stream of its own. `RunningStarted` is
  what does hold: a poll repairs it;
- in a project without services `handleTab`'s loop finds no slot to stop at and
  never ends (`carousel.go:204`; the state `looping` of `Carousel`), so that not
  even ctrl+c is handled (`README.md:59`);
- clearing the buffer takes the flag down and reports nothing (`logpane.go:179`):
  the badge keeps the old one until the next report (`cleared` of `LogPane`);
- toggling wrap looks the offset up under the new setting, though it was made
  under the old one (`logpane.go:140`), where the comment (330-337) promises a
  precise restoration; a view at the end stays there all the same;
- a change of the frame height moves the end and does not follow it
  (`logpane.go:196`), other than a resize does (`away` of `LogPane`);
- the application forgets a message on the status bar when a project is loaded or
  lost, and leaves the dashboard too few lines under it (`app.go:381`, `app.go:492`;
  the premise `statusActive = shown` of `BodyFits`);
- a dashboard made while the height is not the default hears of it only when it
  changes again (`app.go:584`; `behind` of `Chrome`);
- a live reload makes the overlay from the dashboard's configuration, which no
  change ever reaches, for the application takes `SettingsApplied`
  (`dashboard.go:425`, `app.go:422`): the next change of one setting takes the
  other back (`stale` of `Chrome`; `CONTEXT.md` 107-114);
- a theme of the user's own is shown as the first builtin one and overwritten by a
  change of the cap (`settings.go:59`); a changed cap does not reach the panes
  that are there; `config.Save` does not make the directory it writes to;
- a close of the overlay that comes late closes one opened again since;
- the last position of the pointer is not always drawn, though the comment of the
  throttle (`app.go:228`) says so: a motion soon after a flush arms no tick;
- the About overlay lets keys through to the phase, where `docs/flows.md` (92, 298)
  has it take them;
- the delay of the 33rd error in a row overflows to a negative one
  (`servicehost.go:221`), so that retries become immediate;
- `Close` of the watcher promises to stop the goroutine (`watcher/service.go:40`,
  149) and sets `sendMsg` to nil while that may have taken a watch error and be
  about to call it (`watcher/service.go:157`, 244; the state `"panicked"` of
  `Watcher`, which `CloseStops` does not take for stopped and whose one cause it
  leaves out);
- a `ProjectLoaded` handled after the last listing, which is without its file,
  leaves a dashboard up that nobody tells (`app.go:492`), though the file's
  disappearance should lead to waiting for it (`CONTEXT.md` 170-172, 197;
  `docs/flows.md` 33-40): `LeavesDashboard` leaves out just such a dashboard, one
  made of a file already gone when the watcher has nothing more to tell (`ToTell`);
- a parse error during a live reload is a message of three seconds on the status
  bar (`dashboard.go:380`), where `CONTEXT.md` (165-168) has a persistent banner
  over the dashboard; at startup, where it has the error shown inline, nothing is
  shown (`startup.go:51`);
- a live reload adds a poll loop to the one it inherits (`dashboard.go:386`), and
  only the watching screen ends any: `LoopsPerDashboard`, proved, says no more than
  that there are at most as many as dashboards, and `PollerAlive` that none is
  missing;
- a last Inspect that is answered before an earlier one, or that failed, leaves
  another service's labels, or none, until the selection or the container changes
  (`late` of `Inspector`);
- Enter twice runs two actions on one service, and the first to end takes the mark
  off while the other runs (`dashboard.go:323`): `InFlightHonest` asks for a reason
  behind a mark, not for a mark behind every action;
- in a project of one service Tab sends its card a blur and a focus, which may
  arrive in the wrong order and leave it unfocused (`carousel.go:221`);
  `CardsAgree` leaves this case out;
- Enter toggles by what the last poll saw, so that Enter twice before a poll asks
  for the same action twice, and a third click within the threshold toggles again;
- `CONTEXT.md` (195) says that service actions are disabled when Docker is
  unavailable; nothing disables them;
- the comment on `ContainerLabelsPolled` (`msgs.go:172`) says it holds labels with
  the prefix `ogle.` only; `Inspect` passes all on.

### Bounds

`ChannelCap` is the code's (2); `LineBufferCap` is 5000 in the code and 2 here,
enough to be empty, partly filled and full. `MaxPending` 4 allows two `Next`
commands of closed streams beside the current one and a message. Two files and
three changes let one file change during another's scan, and change again once
the snapshot is buffered. Two services are enough for one to disturb the other.
Three dashboards let loops pile up twice. Three services on pages of two give a
full page, a page with an empty place, and dots; fewer give one page, full or
not, and none an empty carousel; the code's page size differs and
only enlarges these. With `MaxPending` 1 the user acts while a message is on its
way. One service suffices in `ServiceActions`, for services share nothing there
but the page, and `Pages` takes it away and brings it back; two jobs let one end
while the other goes on. Two containers of a service are the old and the new one.

`LogPane`'s cap of two lines is exceeded by the third; the two widths and the two
terminal widths make lines that fit on both, on one, and with the sidebar shown on
a terminal as wide as the one without; two frame heights leave one row or two, so
that two lines fill or exceed them, wrapped or not. One service beside the pane's
own is enough to take the selection away. Two messages under way let any two
overtake each other. In `Chrome` two builtin themes and one custom, and two caps,
make every change of one and of the other; four acts are enough to show a message,
change a setting, lose a project and load another while the news of the first
are under way.

In every module a bounded counter limits the environment only (changes, errors, picks, dashboards), except
`MaxPs`, `MaxUnderWay` and `MaxMessages`, which limit what is unanswered, `MaxJobs`,
`MaxPending` and `MaxBatch`.

`CHECK_DEADLOCK FALSE` stands where the system may really stop: a closed watcher,
and a lifecycle or a poll loop whose environment has used up its changes and
whose messages are all handled (a watching screen with nothing left to come); and
`Chrome` when user and world have used up their acts.

### Fairness

Goroutines run and commands return (weak fairness on reader, `Next`, `Ps`,
scans); `Update` handles every message sent to it; timers fire. Strong fairness
is used where Go chooses among ready cases or the loop is busy with something
else in between: a `select` that finds an event ready again and again takes it
in the end, a message in the program's queue is handled though other messages
are too. Nothing is assumed of the user, the containers, the daemon or the
directory: liveness properties speak of environments that come to rest.

## Proofs

TLAPS checks, for every value of the constants that meets the assumptions named
in the modules:

- `DaemonMonitor_proofs`: `TypeCorrect`, `AlwaysAlive`, `OnePing`. `SinglePing` is
  not inductive: a retry must not find a ping out that the grace timer
  overtook. The invariant `IInv` adds that a ping out while Unavailable is over
  before the retry is due, which rests on `TimeoutBeforeRetry` (5 s < 10 s in
  the code), and that health checks are scheduled while Connected only. In the
  same module, of `StatePolling`: `PollingTyped`, `FewLoops`, `PollersAlive`. The
  loops armed, and the one the panel may still start (`Startable`), never outnumber
  the dashboards; and a panel that has started one has one still, for loops end on
  the watching screen only, after which the panel is a new one.
- `Watcher_proofs`: `TypesKept`, `NeverBlocked`, `NothingMissed`, `GoesForward`,
  `IsFeed`. The buffer is empty whenever the goroutine sends, for it has just
  drained it and the application only takes from it. The news of a file's last
  change is in the goroutine's snapshot, in the buffer, in the command or in the
  view, unless an event for the file is queued or still to be scanned for; and
  these four are in the order they were found in. That a scan is not atomic
  matters for the first: a file looked at before it changed has an event queued.
  `IsFeed` is the safety half of the refinement: `FileFeed!Init`, and every step
  is one of `FileFeed` or a stutter.
- `LogStreamer_proofs`: `TypeCorrect`, `WakeupsKept`, `AlwaysListening`,
  `CloseIsClean`, `IsHosted`. The invariant of the stream says that a failure in
  `ch` or on its way means the reader has exited, so that a full `ch` holds a signal
  as long as the reader lives: a dropped signal is a superfluous one, for every
  capacity. `IsHosted` is the whole refinement of `HostedStream`. It needs one thing
  more, `FailureLast`: when the reader has exited there is one failure in `ch` at
  most and it comes last, so that the failure waiting in the stream is the one
  `Next` will report and after it there is nothing. A failure is counted as
  reported until `Close` returns to the handler that called it (`handling`), for
  it is then that the handler is done.
- `Carousel_proofs`: `ServicesNamed` (a message names a service of the project), `FocusNeverLost`, `HoverNeverStale`, for every project
  (also one without services) and every page size. The
  invariant adds that the page is one of the paginator's and the focus a natural
  number. The arithmetic lies in `PagesHoldCards`: a page of the paginator
  holds a card, so that the first card can take the focus when the cards are made
  anew, also by Enter on a dot; it is also where Tab's search ends (`TabStops`). `SameService` adds that the index of the last
  click, while it is kept, is on this page that of the service clicked (`ClickedIsHit`).
  `MessagesAgree` needs to know what is under way (`AgreeInv`): nothing, and cards
  and dashboard are right; or the news of one step, each message at most once,
  which set right exactly what is wrong, in either order, for the one blurred
  is not the one focused. That Tab never comes back to the slot it left rests on
  arithmetic modulo `TotalSlots`: where another slot can be stopped at, Tab stops after
  fewer than `TotalSlots` steps, and so few never close the round (`NoShortRound`).
  In the same module, of `Inspector`, for every number of services and containers:
  `InspectorCoherent` and `LabelsAreComing`. The first is what is left of the order of
  messages that do not say which selection they answer (`DetailsKnown`,
  `LastIsSelected`, `OneAsked`). They hold from any Inspect asked for alone until one is not, or fails.
  For the second `OneAsked` is not enough: the Inspects
  out must be about the container written down, and one of them must be out
  unless its labels are shown (`AnswersDue`).
- `ServiceActions_proofs`: `ActionsTyped`, `InFlightIsHonest`, for every set of
  services, every paging and every number of jobs. The witness of a card in
  flight is a job; the end of a job takes its card out of flight with it, so that
  the cards left have other witnesses.
- `ProjectLifecycle_proofs`: `MessagesCounted`, `OfferedOnly`. The invariant says that
  the project shown, the file waited for and the file every `FileSelected`,
  `ProjectLoaded` and `FileRemoved` under way names have been offered; none of these
  alone is inductive, for each gets its name from another. It does not matter that
  a scan looks at one file after the other: what it has found names files only.
- `LogPane_proofs`: `BufferBounded`, `OverflowExact`, `TailFollowed`, `BadgeHonest`.
  The flag need not be renewed
  when lines are only added, for a line that is cut off stays so; where lines are
  dropped, or widths or wrap change, the code renews it. The end of the log is a
  number of rows, which a recursive function adds up; that it is well defined and
  natural is an induction, told without the library's induction theorems as a
  least counterexample (`LeastNat`, from `WFMin`). For the badge, the context follows the
  selection, a context of this pane is followed by news of it, and the last report
  under way is the truth or, if none is, the badge (`BadgeInv`).
  In the same module, of `LogHosts`, for every finite set of services:
  `FlagTellsStream` (a flag that told wrongly would open a second stream or leave one
  open for good) and `EveryHostIsHosted`. Seen from one host, a step of the panel is
  an opening when it has no stream, a closing, the handling of a failure its own
  streams reported, or, where the failure is another service's, a closing or
  nothing.
- `Chrome_proofs`: `ChoicesInRange`, `TimedBar`, `BodyAlwaysFits`, `SettingsSettle`. A height is under
  way at most once and is the last one sent, unless the dashboard is `behind`; if
  none is, the dashboard knows the last one. That is the invariant `BodyFits`
  needs, and it is disturbed by every handler that dispatches. A change of the
  settings is one piece of news at a time unless the overlay is `stale`: first the
  choice, then configuration and theme (`OneNews`); once the choice is taken over,
  it is in force wherever it could be loaded and saved (`InForce`).

The theorems about `StatePolling`, `Inspector` and `LogHosts` are in the proof module of
a component they work beside, which is why their `Init`, `Next` and `Spec` carry the
module's name. They rest on the assumptions named in the modules: bounds that are
numbers, finitely many services (`HostsFinite`), and for `Inspector` at least one
(`SomeService`), without which nothing can be selected.

Every inductive invariant was checked by TLC on the instance of the component's run
before it was proved.

All invariants and action properties of the runs are proved, and the two
refinements of `HostedStream` as a whole, for it states no fairness. Liveness is
model-checked only, and with it the fairness half of `FileFeed` (`FeedSpec` as a
whole), for it rests on `ENABLED`, which is beyond the prover.

## Not modelled

Rendering, themes, layout, key bindings' help, logging, the clipboard and the
profiler keep no state that another part depends on. The Docker protocol is
reduced to its outcomes; the content of log lines, labels and compose files to
what the properties tell apart. A Ps that fails changes nothing in the handlers
and is left out of `StatePolling`. Commands that never return (a `docker
compose ps` that hangs) are outside the fairness assumed.

In `ServiceActions` and `Inspector` the dashboard stays: a message that reaches
the watching screen is lost there, and the dashboard that follows starts anew, as
after a live reload. In `LogPane` it stays too. The scroll ticks of cards and values
are left out, for they are drawn and no more; so are collapsing sections, which
hide without forgetting, and horizontal scrolling. The pointer's throttle, the
About overlay, yanking to the clipboard, port normalisation and the delay between
retries are not modelled. The fields' focus and the "saved" mark of the settings
overlay are drawn only.

## Plan

Done so far: the modules above. What is left, in this order:

1. Proofs: that `Watcher` gives `ProjectLifecycle` the listings it supposes.
2. The yank keys of dashboard and pane, with the count that ends a yank.
3. The tick chains of cards and values, their generations and bounds.
4. The pointer's throttle and its flush.
5. `NormalisePorts` against a reference definition.
