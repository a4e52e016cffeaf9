# OVERWATCH: specifications

OVERWATCH is a desk gauge for AI coding tools: an ESP32 board with a small
screen (`firmware/`, C on Zephyr) and a background program on the user's
computer (`claude_usage_bridge.py` and `pc/`, Python) that finds out how much of
each usage window is spent and what the tool's sessions are doing, and sends
that to the board over USB serial, one JSON object to a line, no line above 512
bytes.  The board sends back its configuration and what the user does on the
glass.  Both halves are updated together, over the same cable, by one tap.

These modules specify the parts of it that keep promises across power cuts,
restarts, lost links and each other's failures.  They are checked with TLC and,
where the theorems say so, proved with TLAPS.

## 1. The system

One row of `PROJECT.json` "components" for each part; the table gives what a
specification needs to know.

| part | state | operations | talks to | hard about it |
|---|---|---|---|---|
| configuration store (`cfg_store.c`) | two flash sectors, the copy in RAM, which sector is current | setters, one-way edition stamp, factory reset, boot | everything on the board | power cuts between erase and write; failing flash; older layouts; half a stamp |
| pair update, board (`proto.c`, `ota.c`, `upd_tap.c`, `upd_prompt.c`, `ui_settings.c`, `main.c`) | request flags, row state, staged offer, prompt and its latch | messages, taps, the one-second timer, the 30 s watchdog | the daemon, by serial messages; its user | a message overtakes the timer; a button outlives its offer |
| pair update, daemon (`bridge.py`, `update.py`) | the connection's Bridge, the note of an approved install, the program's directories | hello, query, flash, resume, offer, retry | the board, the release feed, the flasher | the daemon replaces itself in the middle; a retry of what was already done; two manifests |
| connection (`claude_usage_bridge.py`, `portwatch` part) | the open port, the port and firmware remembered in `board.json`, an unreported failure | probe, open, reset, reconnect | the board | silent board or no board; reset clears what was learned |
| flasher (`ota_flash.py`) | none that lasts | download, verify, write slot0, reset | the board's ROM loader | a write that stops half way |
| installed program (`update.py`, `cli.py`) | the program, `.new` and `.old` directories, launchers, service | install, swap, recover, clean up, roll back | the login service | crash between two renames; CLI and daemon at once, no lock |
| usage push (`bridge.py`, `usage_state.c`, `usage_freshness.c`) | last frame sent, last reading, ages | slow poll, change poll, freshness on the board | providers, board | a lost frame; a clock that jumps; old readings shown as new |
| line framing (`protocol.py`, `proto.c`, `msg_parse.c`) | receive ring, line buffer, discard flag | feed bytes, cut lines, drop what is too long | both | overflow in the middle of a line |
| readings (`ingest.py`, `normalizer.py`, `claude_cli.py`, `claude_desktop*.py`, `codex_cli.py`) | what the status line last said, who is sitting out and until when | poll, merge, back-off | providers | sources out of order, each knowing half; a window that ends unseen |
| session state (`overwatch-hook.sh`, `claude_state.py`, `codex_state.py`, `codex_cli.py`) | a slot, a marker, a tombstone and the agents' files per session; which pids are believed | hook events, polls, sweeps | the tools' hooks, the kernel's pids | hooks that overlap; sessions that die silently; reused pids; files swept while they are written |
| port search, instance lock (`claude_usage_bridge.py`) | candidates, remembered port, ports asked, layout searched, lock file | probe, listen longer, reset, give up | operating system | board moves between ports; strangers; two daemons |
| status line and hooks, drift watchdog (`install_*.py`, `cli.py`), migration (`migrate_state.py`) | other programs' settings files, chain file, markers | install, uninstall, repair, give up, migrate | those programs | they rewrite the files; commands spelt by older releases; kills half way |
| pages, swipes, slides (`ui_*.c`, `main.c`) | page, stroke, requests, modals, slide | touch, timer, message | the input thread, LVGL, the board's loop | one touch is seen twice; a request outlives what it was made on |
| sleep and wake (`sleep_gate.c`, `ui_sleep.c`) | asleep, reasons to stay awake | touch, traffic, timers | the loop | never sleeping, or never waking |
| boot confirmation (`main.c`, `ota.c`, `ui_boot.c`) | two image slots, the 90 s trial, the breadcrumb of an install | boot, confirm, revert, report | bootloader | revert of a good image; a trial nobody looks after |
| weekly anchor (`weekly_anchor.py`) | anchor per account | observe, roll over | readings | clock, reset seen late |
| widgets, panel actions, music, meetings | none of its own | push, act | operating system | thin |
| desktop caches (`claude_desktop*.py`, `leveldb.py`, `v8_clone.py`) | none | parse | another program's files | formats |
| Wi-Fi mode (`main.c`, `net_*.c`, `portal.c`, `oauth.c`, `usage_client.c`, `ota.c`; compiled only with `CONFIG_OVERWATCH_WIFI_MODE`, off by default) | network and token in flash, tokens and refusals in RAM, the link, blind reboots | set up, join, log in, refresh, fetch, check, install | router, token and usage endpoints, release feed, MCUboot | each token is good once; its steps end in reboots; two threads that may each reboot |

What makes each correct, in one line:

- store: what was reported as stored is what the next boot finds; a stamp once
  sealed stays, whole;
- pair update: one tap buys at most one write, of what the glass named, in the
  right order with the app, and never hangs; the panel offers only what can be had;
- connection and port search: the daemon comes back to its board, and to one only;
- program: whatever crashes, a complete program is there to start;
- push and freshness: the glass shows the newest reading or says that it is old;
- framing: the tail of a cut line is never read as a message;
- readings: a field is never replaced by an older one;
- sessions: a session that waits is shown, one that is gone is not, in the end;
- drift: a repair war ends;
- Wi-Fi mode and boot: a login is lost only when the endpoint refuses it for half an
  hour; every boot leads somewhere; no image stays on trial;
- pages, sleep: no gesture is applied to a page it was not made on; the panel
  sleeps when nothing holds it awake and wakes when something does.

## 2. Modules

```
StoredRecord <---- refinement ---- CfgStore <-- BoardProof --> Standalone
                                        ^------ MCCfgStore

PairConsent  <---- refinement ---- PairUpdate <-- PairUpdateProof
                                        |   ^------ MCPairUpdate
                        UpdateBoard <- UpdateBridge

AppProgram <-- HostProof --> Search

Panel <- Push <- UsageLink <-- UsageLinkProof

Glass <-- GlassProof          Settings <-- SettingsProof

Sessions <-- SessionsProof    Readings <-- ReadingsProof
```

### CfgStore: the board's configuration store

`cfg_store.c` keeps one record twice.  `slot` is the two sectors, `ram` the
file's `cfg`, `cur` its `cur_slot`, `was` the local `was_edition` of
`cfg_set_edition`.  `persist()` is cut at each flash operation (`pc` "erase",
"write"), where the power can go; `cfg_reset` likewise ("wipeA", "wipeB").  The
mutex makes an operation exclusive, so one runs at a time.

- `SetField` is every setter and clear: they differ in the field only.
- `SetEdition` is the stamp, with its two refusals in `MayStamp` and its undo
  in `UndoStamp`, used by `GiveUp` when a flash operation fails.
- `Reset`, `WipeA`, `WipeB` are `cfg_reset`, which ignores a failed erase and
  goes on, and saves a latched stamp again at once.
- `Boot` reads both sectors as `cfg_init` does: `Loaded` is what `slot_load` makes
  of the six layouts a sector can hold, `BootSlot` the choice between the two.
- Initially the sectors hold any records that firmware of any age can have left
  (`Plausible`).

A sector whose checksum fails is `Blank`, whatever is in it: torn writes,
erased flash and foreign data are the same to every reader.  `acked` and `reset`
are history variables: the content last reported as stored, and whether a
factory reset is running or went wrong.

`StoredRecord` is what the callers are promised: one record in memory, one that
survives a power cut, changed as a whole.  `CfgStore` implements it with `disk`
mapped to what a boot would find now.

Two things the code does that the properties step around, because nothing in it
promises otherwise: after a setter's save fails the changed field stays in RAM,
and the next save of anything seals it (`StoredRecord` allows `Change` without
`Seal`); after a factory reset whose erase failed the old record may outrank the
new ones (`reset = "dirty"`).

### UpdateBoard, UpdateBridge, PairUpdate: an update of the pair

`UpdateBoard` holds the board's half as operators on a record of its flags:
`Receive` is `proto.c`'s dispatch of the update messages, `Requests` and `Asks`
the loop's service of `req_check` and `req_install`, `PromptStep` is
`upd_prompt_step`, `Tick` the one-second `upd_timer_cb`.  `UpdateBridge` holds
the daemon's half: `Answer` is `_on_ota_query`, `FlashStart` is `_on_ota_flash`
up to where it blocks, `Resume` is `_resume_pending` with the `PendingFirmware`
file.  `PairUpdate` composes them with the cable (`toBoard`, `toDaemon`), the
release feed, the blocking steps of an install (`work`: replacing the app,
downloading, writing), the connection (`Probe`, `ProbeAnswered`,
`ProbeSilent`), and faults: the daemon crashes anywhere, the link drops, the
board resets, a write dies half way.

How it is cut into steps: the daemon is one thread and the board another, so a
handler is one step; only what blocks (self-update, download, write) is several,
and there the feed, the board and its user go on.  On the board, one pass of
the loop drains serial messages, serves the request flags, then runs the user
interface: steps of the user and the timer therefore wait until a set flag is
served.  Timers are steps that may happen any time their state allows.

What is abstracted, and why no property can tell:

- A version is a number, shared by app and firmware of a release, as in the
  release process; `Proto` and `Floor` give each its protocol and `proto_min`.
- `id` on an approval is not on the wire: it names the tap.  `taps` counts the
  approvals given.
- A `pref` (the 10 s ping and the answer to a welcome) only matters where it
  tells the daemon something new, and is modelled there (`Heard`).
- `asked` keeps "a query within the last minute" as "a query on this
  connection", and both branches remain possible, so offers are not lost.
- `RetryOffer` waits for two quiet minutes: it happens when the cable is empty,
  the flags are served and the timer has run (`Settled`).
- "Up to date", which turns to idle by itself, is idle.
- One port.  A silent board may be reset because the port is known to be ours.
- The install breadcrumb on the board and the wording of the row are left out.
  The rotation of the program's directories is one step here (`SelfUpdated`);
  it gets a module of its own (see the plan).

`PairConsent` is the promise: a tap is pending until one write spends it or it
is lost; never spent twice, never after it was lost, and nothing is written
without one.

### AppProgram: the installed program and its replacement

`dir` is what is at `<bin>`, `<bin>.old` and `<bin>.new`: nothing, a directory
without its executable ("hollow"), one with it but not all it needs ("husk"), or
a whole program.  Three actors work on them, each with its place in `at`, and
nothing excludes one while another works, not even two that install at once:

- the daemon: `Look`, `Rescue`, `Restore` are `recover` at its start, `Prove` and
  `Cleanup` what its board's first message sets off, `SelfUpdate` the update
  tapped on the board, `HandOver` is `restart_from_daemon`;
- the command line: `Update` and `Install`, with `Halt` before the swap and
  `Restart` after it;
- a guest, a copy run from somewhere else, whose start recovers the installed
  program too.

`Clear`, `Unpack`, `Fill`, `Test`, `Drop`, `Out`, `In`, `Back`, `Undo` are `apply`
and `swap_in`, one file operation to a step, for either installer.  An actor may be
killed before any step; a removal or an unpacking that is cut short leaves part
of a directory (`Torn`).  On Windows a removal may leave what is in use, and a
rename be refused for longer than `_replace` tries; elsewhere neither happens.
`recover` sees an executable, not whether it runs (`HasExe`); the self-test
does (`Passes`).

Three things are history.  `tested` on a directory: this very copy ran.  `broken`: one of
the things happened that `BinRuns` excuses, a kill between the renames, an undo that was
refused or found nothing whole, a `bin.old` that was dropped by the cleanup or by the other
installer while bin was away, and a copy moved in that was spoilt.  `spoilt`: the installers
whose staged copy somebody else has changed since its self-test and before its rename, the one
stretch in which `TestedOnly` cannot hold.  All that two installers may otherwise do to one
another is in: clearing and filling one another's staging before the test, testing the other's
copy, a copytree that finds the directory there (`Copying`), and both between their renames.

Left out: the download (an update begins when it is there), the settings files
and hooks an install also writes, and a service that keeps failing to start a
program that is not whole.

### Panel, Push, UsageLink: a reading from the desk to the glass

`Panel` is the tethered board as one that is shown readings: `Dispatch` is
`proto.c`'s dispatch of everything but the update messages, `TimesOut` and
`TimedOut` are the host timeout of `proto_service`, `age` and `active` the two
clocks of `usage_freshness.c`, `Green` the colour `refresh_dots` gives the health
dot, `Starts`, `Woken` and `Wake` the dozes of `run_usb`, `sleep_gate.c` and
`ui_sleep_run`: over a silent host ("host"), an empty desk ("desk"), and an app
that never spoke ("app").  `Push` is the daemon's half: `Greet`, `PollOnce` (the
heartbeat), `PollIfChanged` (the fast tick), the liveness window, and `Turn`, one
pass of the read loop.  `UsageLink` puts them together with the desk (whatever
the providers' files say, and how old they are), the line, and what goes wrong:
lines to the board lost or cut short in its ring, pings lost, a computer that
sleeps, a daemon that is killed or uninstalled with a bye and started again with
or without a reset of the board, a board that resets, and an owner who taps the
dozing board, goes to the settings, or has an update under way.

Time is counted in ping intervals (10 s).  Ages and countdowns are small
numbers that saturate, and one step, `Tick`, moves them all.  Both loops turn
many times in an interval (5 ms and at most 0.2 s), so `Tick` waits until
neither has anything left to do and the line is empty; within an interval their
steps come in any order.  A daemon that sleeps is waited for by nobody, and its
own clock may or may not have gone on.

What is abstracted, and why no property can tell: a reading is a value that
stands for its percentages, reset times, counts and tags; whether it has two
pages goes with it (`TwoPages`), and so does the age of the second
(`OldSecond`).  "time", "pong" and "welcome" say only that the host is there.
A torn line (`Torn`) has lost its end, wherever it was cut: a session line its label,
a usage line the desk's age, then the reading's, then any of its figures; the scanner
takes what is gone for not sent, and a number cut short for a smaller one (`Cut`).  Which fields
are gone follows the order in which they are written.  A piece of one line joined
to the next is not modelled, nor is the status "rate_limited", which no daemon in this
repository sends.
`settings` is `ui_settings_busy`, which a page's slide sets too.  The one second
at which the daemon's `>` and the board's `>=` of the same bound differ is not
told apart.

History variables: `still` and `calm`, the time since the desk had news and since
anything went wrong; `missing`, the kinds of line of which the last may not have
arrived whole, with "torn" for as long as what a torn usage line said stands on the board
(`AgeIsHonest` excuses the ages of it, as a figure cut short makes too young an age; the next
usage line that is heard ends that); `farewell`, that the last line heard was a bye.

Left out: the second page in front, the captions' own clocks and the popups; the face
asked for by hand is in `Glass`, the board without a computer in `Standalone`.

### Search: the board among the ports of a desk

The reconnect loop of `claude_usage_bridge.py`, from `wait_for_port` to the read
loop.  `pc` is where it is: looking for a candidate ("wait"), asking ("probe"),
talking ("talk"), or leaving a layout alone that it has searched ("idle").
`asked`, `patient` and `searched` are its locals of that name; `known` is the port in
`board.json`.  `Open`, `Answered`, `Reset`,
`TryAnother`, `ListenLonger` and `GiveUp` are the branches after a port has been
chosen; `Lost` and `LookAround` what ends a conversation and a rest.  On the other
side of the cables, `Plug`, `Unplug`, `Hold`, `Hang`, `Boots` are people, other
programs and boards, until `Settle`.

`dev` stands for everything `usb_topology` tells apart.  A probe is one step, of
which `ProbeOver` says when it may end without an answer: a patient one outlasts
a boot.  `opens` and `since` are history: how often each port was opened under the
present layout, and what the board has been since this round began.  A board that
runs answers a probe; lines lost on the cable are `UsageLink`'s.

### Sessions: what the tools' sessions are doing

The hook script is followed step by step (`HookRuns`: marker, then slot; at the end
of a session its files, then the tombstone; the agents' files), because two hooks of one session
overlap, as when Codex fires PreToolUse and PermissionRequest together.  The
daemon's round is `PollClaude` and `PollCodex`, each in two steps: `LoadSlots` reads
the directory, `Judge` asks the kernel about pids, unites, and sweeps what is too
old, so that hooks run in between.  `trusted` is `_pid_trusted`.  The sessions
themselves (`Open`, `Prompt`, `UseTool`, `Ask`, ...) are external: what fires which
event is taken from the tables the code keeps of it.

A time stamp is an age that `Tick` moves; one tick is longer than a round of
polls.  A session is on the host or in a container (`inside`), whose pids the host
does not know.  Hooks of two sessions do not meet, having no file in common; a
Codex session asks about one call at a time.

The properties excuse what the code does not promise, each by a history variable:
`robbed`, a sweep that removed files written after they were read; `works`, given up
after an hour's silence; `PidIsFair`, desks where pids of the host and of containers
are mixed; `stepped`, a clock put back between a slot and its tombstone.

`KilledIsDropped` has one excuse more, found when it was to be proved for any number of
sessions: while another Claude session's slot is as fresh (10 s) and its pid as gone, no pid of
that directory is believed (`_pid_trusted`), so a killed session stays on the panel.  With one Claude session,
as in the run, the excuse cannot apply.  `Absent`, the age of a file that is not there, lies
below every age a step back of the clock can give; and `Fresh` is positive, since the 10 s
are five polls of 2 s.

### Readings: the limits of an account

`PollAll` is one call of `IngestionBus.poll_frames` and of `normalizer.merge`: the
frames of each provider, the rollovers, the back-off of one that raised
(`PollFails`), the weekly anchor's observe, project, refute and seed.  The account,
the status line (`Turn`, `Redraw`), the desktop application (`Sample`, `Record`),
usage from elsewhere and Codex are the world.  One behaviour follows one kind of
window, chosen initially, since the code treats the two alike but for the anchor
and the remembered reading.

The other window of the two is not followed, so without a figure of this one a poll
may make a reading or none (`Merges`).  The frames of a poll are a set: the order in which the providers are asked decides only
between stamps that are equal, and each frame carries its place in it (`nth`) for that.
`win` on a frame is the true end of the window it was measured in: it is not read
by anything modelled and lets `ZeroStaysZero` say what a stale figure is.  The
clock of the computer may be put back (`lag`), but only while a provider sits out,
which is where a step back can hurt a provider; the other properties ask for
a right clock, because every stamp is compared with it.  `quiet` counts the ticks that had
a poll: a computer that sleeps through a provider's wait, and has its clock put back into
that wait before it wakes, begins the rest of it again, so that `HeardAgain` does not hold of the
hours slept (met when it was to be proved for any `Back`).

Left out: burn rate, labels, counts, which pair of providers fills the two pages,
a note that cannot be saved, what else seeds from IndexedDB.

### Glass: strokes, taps, pages, modals

Four parties on one board: the finger (`Press`, `Move`, `Lift`), the input thread
of `ui_swipe.c` that makes strokes of it (`Report`, `StrokeEnd`), LVGL, which learns
of a lift later and clicks whatever is under it (`Click`), and the mode loop, which
takes one request a pass (`Serve`), is blocked by a slide, and is away in a doze
(`Doze`, `Wake`, `PeekEnds`).  `want` holds the requests of `ui_settings.c`
(`want_open`, `want_close`, `want_face`, `want_move`), `pending` the stroke's own;
`modal` is the set of what stands on the top layer, `closing` `ui_settings`' close
under way.

Time is counted in 40 ms for the three bounds that race: the end of a stroke
(`Stitch`, `Rearm`), the driver's belief in a lift (`Release`) and the mute
behind a slide (`Tail`).  How far LVGL is behind the driver is not bounded: by
`ui_swipe.c` it drains its queue more slowly than that fills, by `prj.conf` it empties it in
each pass, and `Tick` waits for no click.  Nor is it bounded how long a finger is out of contact:
past `Release` the driver takes that for a lift (`Lift`), and the way back for a
press (`Press`), which goes on with the stroke if that is still open, from wherever it is.
A stroke may so come as many presses, as the code has seen.  `on` is what the press was put on, chosen among what is
there to be pressed; positions are left out beyond that.  `far` says how far the
stroke has come: not at all, not enough, enough.  Two variables are history: `moved`, how
often one touch has moved the screen, and `astray`, which of the two things has happened to it
that the windows of the code are too short for: "late", a CLICKED that comes when the
stroke's `Rearm` is over and no slide mutes it, and "tapped", a contact lost before the stroke
had counted, for so long that it was clicked as a tap, and found again within
`Stitch`.  `OneMovePerTouch` excuses these two, and nothing else.

Two simplifications: LVGL has done with one touch before the finger's next press is taken
up, and a stroke that has counted is handed to the mode loop within a unit of time unless that is
in a slide (37 ms were measured, `ui_swipe.c:27`).

### Settings: what is written into other programs' files

Two processes over the same files: the command line (`Start`, then the steps of an
install, an uninstall or any other command, migration first) and the daemon's
watchdog (`Look`, which is `drift_check`, then `Install("daemon")`).  A load, the chain file,
the save and the marker are a step each, as nothing locks them and each can
be the last (`Kill`, `SaveFails`).  `line` is Claude Code's one status line,
`entries` how many hooks of ours each program has in each spelling, `marker` and `noted` what
`~/.overwatch` remembers of both.  A command of ours is the spelling of its shim's path
(`Spellings`): as Blink spelt it, as an older release, as the newest.  `Ours` is
`_is_ours`.  The order of the hooks is left out, so which of several entries of ours
an install points at its shim (the first one it meets) is any of them (`Merged`).

Left out: the contents of the shims, drivers and permissions, two command lines or
two daemons at once.  `excused` collects what no property speaks of: an edit between
a load and its save, two processes that overlap, a stop between a save and its
marker, a migration cut in half, a wiped `~/.overwatch`, and a line that was dropped
while no marker vouched for the chain file.

### Standalone: the board without a computer

The Wi-Fi mode, with the boot and the trial of an image, which the tethered build
shares.  `main` is where the main thread is: the splash, the scan and the two tries
of a boot (`Splash`, `BootScan`, `Join`), the setup in its two phases (`Resume`,
`SetupScan`, `Posts`, `Pastes`, `PortalEnds`), the gauges ("run") or the tethered mode
("usb").  `net` is the network thread, `net_worker` with the setup's code exchange:
`at` is "top" between the blocks of its loop, "asked" and "told" around a reply of
the token endpoint, "load" and "sealed" in an install.  `Saves`, `Shrugs`, `Keeps`,
`Wipes` are what is made of a reply; `Confirm` and `Deadline` are `ota_boot_pump`,
which every wait of the main thread calls.

A reboot (`Reboot`, `PowerOn`) may come from either thread, from the power or from a
computer that opens the port, in any step.  `flash` survives it, `noinit` unless the
power went, and `Swapped` is what MCUboot does with the two slots in `img`.

Tokens are numbered along the chain the endpoint hands out; `world.live` is the one it
takes next.  `world.wrong` and `long` are history: refusals of a good token in a
row, and whether the row has lasted half an hour.  `excused` collects what breaks the
chain whatever the board does: a reply lost or a reboot between the endpoint's step
and the flash, a failed write, a login revoked, and a row of wrong refusals as long
as the code means to endure.  Timers are left out: any block whose conditions hold
may be next, so `Arrives` and `TrialEnds` hold for any order of their deadlines, and
a release is checked for whenever it may be.

Left out: the portal's pages, the setup screen, the setup network's name server, the time
zone, the parsers of replies, clips and logo.  The hardware watchdog is the same
reset.

## 3. Runs

| run | what it shows | instance | states |
|---|---|---|---|
| `cfg_store` | the store keeps its promises through power cuts and failed flash operations, from every older layout; it implements `StoredRecord` | 1 field of 2 values, 2 editions and a byte that is none, numbers 1, 2 found at boot, up to 4 | 0.14 M |
| `pair_update` | one tap, one write; app first; no resume onto a newer protocol; an offer is live; an approval is never silently dropped, and never hangs | releases 1 to 3, board at 1 or 2, app at 1, 1 tap, 1 fault | 0.6 M |
| `pair_ahead` | finding: an offer made before the board was heard is written onto a newer protocol | releases 2, 3, board at 2, app at 1, 1 tap, 2 faults | |
| `app_program` | a program that runs is there to start; what is rotated in has run, unless the other installer changed it | releases 1, 2, both kinds of computer, 2 installs, 1 kill, both installers at once | 0.8 M |
| `usage_link` | what was lost is said again by the heartbeat; news does not wait for it; no age is too young but by a torn line, until the next; ok is over a host; dozes start and end when they should | two names, a reading of one page, one of two, one too long for a line; two of news and faults, or one and two acts of the owner, or four of those | 2.4 M |
| `search` | the board is found; no port is opened again and again; no board that boots is reset, nor a stranger while the board runs | 3 ports, with and without `--port`, 3 moves on the desk | 0.3 M |
| `sessions` | what the panel is told of a session is what it does; the dead and the buried are not told of | 1 Claude session on the host, 1 Codex session there or in a container, 4 events, 1 fault | 2.0 M |
| `readings` | a window forgiven stays so; a source that failed is heard again; a weekly reset is the account's, and expires | either window of 3 ticks, 11 ticks, 4 acts, 1 fault | 1.8 M |
| `glass` | one touch, one move, but in two cases it names; a modal is answered first; every request is served | 3 touches or modals, 2 pages of the daemon, 1 theme, any lateness of LVGL | 1.4 M |
| `glass_theme` | finding: a theme changed from its screen leaves a panel nobody can close | the same | |
| `settings` | the owner's status line is never lost; an uninstall gives it back; no hook twice; a removed line is put back | 2 status lines, both files, 2 repairs, 1 edit, 1 fault, fresh or from Blink | 1.0 M |
| `standalone` | a login is not lost; every boot leads to a page or to figures; no image stays on trial | 3 tokens, 3 releases, 2 blind reboots, 2 refusals, 1 refresh for a 401, 3 faults or acts | 0.5 M |

**Why the bounds are enough.** *Store*: a save depends on two sectors and the
order of two numbers, so any hazard shows with one field that has an old and a
new value; four numbers allow three saves on top of what a boot found, one more
than it takes for both sectors to have been rewritten.  Two editions show a
change from one to another.  *Pair*: three releases are what is needed for "the
release moved on between the offer, the tap and the resume"; a board at 2 with
the app at 1 is the board that speaks a newer protocol.  One tap suffices for
"at most one write", as approvals are told apart by `id` and are only compared
with themselves.  Two resume tries and one fault reach the limit, the crash
between any two steps, and the retry after it.  `MaxUp` and `MaxDown` bound the
messages under way; three is the longest burst one handler sends to the board
(welcome, answer, resume), and the board says one thing at a time: what it would
say next waits on the board while the one before it is under way.

*Program*: an install meets what one earlier install left, so two are needed and
a third meets nothing new; one kill puts any leftover anywhere.  The two may be at
work at once, as there are two installers: recover, cleanup, the login service and the
other install come between any two steps of one.

*Usage link*: the bounds keep the order of the real ones: the host timeout and the
liveness window (30 s) below the heartbeat (60 s), that below the half hour of a
stale reading, that below the four hours of an absent owner; in intervals 2, 2, 3, 3
and 6.  Two events are one that is lost and one that tells whether it was said
again; starts of the daemon and wakings of its computer are not counted.  `Budget`
charges news and faults 2, the owner's acts 1.

*Search*: three ports are the board's, a stranger's, and the one that is listed
between or is remembered; three moves are to hang or unplug, to plug elsewhere, and one
in the middle of the search that follows.  *Sessions*: `0 < Fresh < Hour < AgentHour`
as in the code (10 s, an hour, hours); a step back (2) is as long as the hour; four
events are a session opened, at work, asking, and one hook that overlaps; one
session of each tool meets because the kernel's word on one says whether the other's
is believed.  *Readings*: a reading goes stale within its window, an anchor outlives
one window and not two, a back-off doubles once, a clock goes back by more than all
of these; in five ticks a window ends twice.  *Glass*: the order of the real times is
kept (100, 160 and 250 ms: `Release < Rearm <= Stitch`, 3, 4 and 6 units; what LVGL and the finger
take is any time); three acts are one touch
that asks for something, one that meets it half done, and a modal that comes up between.
*Settings*: two spellings on top of Blink's are an update; two owners' lines are a
choice changed; one edit and one kill are each put between any two steps.
*Standalone*: three tokens are a login, a rotation and either another or a new
login; limits of two keep "the first refusal", "the last one allowed" and "one too many"
apart, and so for blind reboots; three acts are two wrong refusals and a drop, or a
tap, a cut and a link that fails before the trial of what was installed ends.

**Deadlock** is checked for the store, the program, the usage link and the
sessions.  It is not for the pair, where a board whose write died half way does
not boot and the system really stops; nor for the readings, whose time ends at `End`,
nor for the search, the glass and the settings, which may rest: a board found on a
still desk, a glass nobody touches, a machine on which no command is given; nor for
the board on its own, of which the tethered mode, modelled elsewhere, is an end.

**Fairness** is on steps the loops take by themselves, and weak but for two.

- *Pair* (`FairSpec`): the daemon's connection loop, its handlers, an install that
  was begun, the board's reading of its line, the service of its flags, and its
  ping.  Nothing is owed by the feed, the user, the timers or the faults; the
  fetches may all fail.  The loops have no branch on which they stop
  (`claude_usage_bridge.py`'s outer loop catches and reconnects; the board's loop is
  endless), and each blocking call of an install has a time limit.
- *Search*: that same outer loop turns, and a board that is powered boots.
  `FoundBySearch` speaks of a desk that has become still.
- *Glass*: the mode loop turns; a doze, which polls, looks at its reasons to end;
  time passes; a finger is lifted in the end.  Nobody need touch the board again, nor need the
  host speak.
- *Settings*: the watchdog, which runs on the daemon's poll.  Commands and
  other programs owe nothing.
- *Standalone*: both threads run, every wait looks at the trial, and a request
  ends, as each has a time limit.  Fairness is strong on `Fetch` and `RefreshAhead`: their
  timers come due again and again, and the loop takes what is due, in a fixed
  order, in each pass.  Nothing is owed by the owner, the router or the faults.

**Findings.** Two statements of comments that the code does not keep have a run with a
counterexample and an entry in `PROJECT.json`.

- `pair_ahead`: `bridge.py` on a board that speaks a newer protocol, "firmware updates
  are held until you do" (update the app), and "refuse to drive a board we may not
  understand".  To a board found running, the daemon offers firmware before it has heard
  it.  The offer and its manifest outlive the message that tells the protocol, and
  `_on_ota_flash` looks at neither.  It takes a tap before the board's own check has
  been answered, after its reset under the open port, and an app that could not be
  replaced first.  With one fault TLC finds nothing, and of the installs that are
  picked up after a restart the statement is proved (`ResumeIsHeld`).
- `glass_theme`: `ui_settings.c` on its panel pointer, "NULL when closed".  A change of
  theme from the brightness screen deletes the panel with the screen it hangs off and
  leaves the pointer.

**Smaller divergences** seen while modelling, without a run of their own.

*Store and boot.* `cfg_reset` says "no window where the record on flash is
unstamped"; between the second erase and the write both sectors are blank, as a
comment a few lines below knows.  `docs/README-full.md` says units older than the
latch arrive latched, which is so for two of the older layouts only.  A write into
slot0 that dies half way leaves a board that does not boot (`ota.py`).

*Updates.* `update.py:138` on `<bin>.new`: "unpacked and self-tested before it moves in".
The daemon and the command line share it without a lock, so that one's `_rmtree` and
unpacking can come between the other's self-test and its rename; what moves in then was
not tested, or is nothing that runs (TLC refutes `TestedOnly` without its excuse `spoilt`).  One installer's
`_rmtree` of `<bin>.old` can also take the program that the other, between its two renames,
has just put there.  `ota_flash` carries no version: the board asks "Install version 2?", a
query answered meanwhile makes the daemon hold 3, and 3 is written;
`_resume_pending` guards against the same case on its own path.  `upd_prompt.h`: the
latch lifts on FAILED so that the offer returns; when the answer of a check follows
before the one-second timer has looked, FAILED is never seen.  A failed-flash report
is overtaken by the check the welcome starts, or lost if the link drops before the
hello.  The unattended update (`_self_update_tick`) reads an undefined name inside
its `try`, so it always counts as a failed download.  A stale note counts an "up to
date" answer as a feed failure.  `recover`, "called on every start", is in the
program that is missing after a kill between two renames.  `cmd_update`, "the daemon
is restarted a few lines below regardless": not when the swap fails.

*Usage.* `proto_service`: "Holding a green dot over numbers that stopped updating is
worse than admitting we are disconnected"; the end of a doze sets the status to stale
over disconnected, and with two pages stale is drawn green.  A `session` line that is
lost is not sent again by the heartbeat that "re-states everything".  A usage line
refused as too long counts as pushed; an error status stays up to a heartbeat after
the fetch has recovered; a doze over an empty desk ends with the next heartbeat and
not with the fast tick; the page's captions stand still during a doze.  A usage line cut within a number is
read as one with a smaller number: a percentage, or an age of 3 for 3600, until the next line.

*Search.* "Ports asked politely under the CURRENT layout ... discarded the moment
anything is plugged or unplugged": it is cleared at the end of a round and after a
loss.  "A machine that has connected before opens the port it used, with no scanning
at all": `wait_for_port` returns the first candidate.  A port another program keeps open
sends the loop back to the first candidate each time; a silent stranger on the
remembered port is reset and kept; a board unplugged and plugged in again between two looks
leaves the layout equal.

*Sessions.* A slot whose process is gone "is dropped at once rather than held for
ABANDONED_AFTER_S"; the union in `codex_cli.py` puts a killed Codex session back from
its log.  A log whose head cannot be read within 128 KB is counted beside its slot.
Sessions of a container are dropped by a daemon that starts more than ten seconds
after their last event.  A turn longer than the 256 KB that are read of a log loses
its start.

*Readings.* "A rollover, once seen, stays seen for as long as the source is on the
bus": not when the daemon starts over a payload already stale.  Codex's figures are not
forgiven at their reset.  `refuted_by` compares with the last boundary before the
drop only, so that a reset seen just ahead of one is taken for a full window's
distance.

*Glass.* "160 ms sits past the driver's release" (`ui_swipe_geom.h:192`), so that a stroke does not click
as well: the release is 100 ms, but LVGL hears of it through the queue of which `ui_swipe.c:20-25`
says that it falls "further behind the longer the stroke runs", and of which `prj.conf` says "no
latency".  Where the first is right a CLICKED comes after the 160 ms, and a stroke that began in
a tap zone moves the glass and is that zone's tap as well (TLC refutes `OneMovePerTouch` without "late").  The 250 ms
are "above the gaps that were actually measured while a stroke was in progress", of
779 ms at worst in the same comment; a gap of more than 100 ms at the start is a tap to LVGL, and
the rest of it a stroke ("tapped").  A peek raises a notice and a notice is a modal, so a swipe in a peek is
refused until OK is tapped, although a swipe "ends the doze".  A face asked for by
hand ignores the download that forbids a doze, and does not feed the watchdog.
"Update now" tapped under a doze waits for the board to wake.  "A modal owns the screen until
it is answered": the home strip lives beside a 300-pixel notice.  Settings can slide
open under an overlay raised in the same pass.  Pages of the daemon never go away.

*Settings.* An interrupted migration is never finished, as `~/.overwatch` is there;
the next install takes Blink's line for the owner's.  A stop between a save and its
marker, followed by an install that spells the shim otherwise, puts our own old
command into the chain file, where "their existing statusline command" was.  "Never rewrite any key but
`statusLine`": an edit between the load and the save is undone.  Failed saves count
towards the watchdog's cap.  An uninstall that finds no line leaves chain and marker.

*Wi-Fi mode.* "So a location with no networks can't reboot-loop" (`main.c:543`): a board
that is set up does.  `boot_ssid_scan` gives up and clears `blind_boots`, `phase1_get_wifi`
scans again in the same boot and counts anew; "the portal ... is the honest next
step" is not reached (TLC refutes `<>[]img.sure => []<>(main \in {"ap", "ask", "run", "usb"})`
for it, which is why the first half of `Arrives` asks for a board without a token).  A
rotation of the token is not protected from the reboots of the main thread: the 90 s
deadline may fall between the endpoint's step and the flash, and the login is lost
with no fault.  A reboot for a blind radio, or by a daemon that opens the port, within
the 90 s reverts a good image.  "Leaves slot1 garbage, which is harmless"
(`ota.c:503`): during a trial slot1 is the image to go back to.  `ota_report_outcome` says
"landed" and clears the breadcrumb before the image is confirmed; a cut between
`boot_request_upgrade` and `cfg_set_ota_state` leaves an update unreported.
`refresh_rejects`' half hour also counts the time the board was offline.  A join that fails right
after a token was wiped clears the network too.  `oauth.h:36`, "`state` equals the
verifier": it is the challenge.  "Anthropic may omit a new refresh token -- caller keeps the old
one" (`oauth.c:323`): at a sign-in there is none, `cb_sign_in` stores the empty one, tells
the owner that it is done, and the board asks again.

**Mutants.** Each property of a passing run is refuted when one definition is
replaced by a plausible bug, kept beside it: saving over the current sector,
half an undo, a stamp without the latch check, an approval that is not spent
before the attempt, one try too many, a bootstrap token sent again, a marker
written after the slot, a sweep that forgets the agents, a click that counts after
a stroke, an install that chains what it finds, and so on.

## 4. Proofs

`BoardProof` holds the proofs about what the board keeps, of the store and of the Wi-Fi
mode that saves into it.  Of `CfgStore`, whose generic definitions are called `StoreInit`,
`StoreNext` and so on for that, it proves for every set of fields, values and editions, any number
of saves and any sequence numbers:

- `StoreTypeCorrect`: type correctness;
- `Durable`: what was reported as stored is what a boot would find;
- `StampWhole`: no boot finds an edition without its latch;
- `CurrentSector`: between operations `cur` is the sector a boot would choose;
- `StampIsKept`: the action property `StampOnce`;
- `Refinement`: `StoreSpec => Abstract!Spec`, the store implements `StoredRecord`.

Assumptions: those of `CfgStore` (`Zero` is a value, the `Unset` byte is an edition's,
numbers are naturals).

The properties are not inductive.  `DurableOnSuccess` speaks of the record a
boot finds; that a save does not disturb it needs: `cur` names that record's
sector; while a save runs, the number in RAM is greater than any number on
flash; once `Target` is erased it is blank; and during a reset the first sector
is blank after the first wipe.  `StampIsWhole` needs that RAM never holds an
edition without a latch outside a running stamp, and that the undo restores the
edition from before, which was unlatched and so unset.  `StoreInv` is the
conjunction of these named parts; `Inductive` shows it holds initially and is
kept by each action, one lemma to an action, with lemmas on `BootRec` after one
sector changed.  The refinement then maps each action under `StoreInv` to a step of
`StoredRecord` or a stutter: a `Write` is `Seal`, or `EndReset`; an erase of the
non-current sector is a stutter.

`PairUpdateProof` proves for any releases with any protocols and floors, any number of
taps, faults and resume tries, and lines of any length:

- `TypeCorrect`: type correctness;
- `OneTapOneWrite`: `ImplementsConsent`, the refinement of `PairConsent`;
- `NoteIsKept`: the action property `ConsentKept`;
- `AppBeforeBoard`: the action property `AppGoesFirst`;
- `ResumeHeld`: the action property `ResumeIsHeld`;
- `NoOfferIsDead`: `NoDeadOffer`.

So every safety property of the run is proved.  Assumptions: those of `PairUpdate`, that
protocols are positive and a resume is tried at least once.

That one tap is one write is a matter of where the approval is.  `OnePlace` says it
is in one of four places (the board's flag, the line, the note, the install), but for
the app's own replacement, during which note and install both have it; `Carried` that
no two messages carry the same; `Unspent` that what was written on is in none.
`Speaks` (what the board says carries the protocol of the firmware it runs) is what makes
`HoldsResume` true when the message is read later.  `WorkSound`, `NoteSound` and
`AppFirst` tie an install to the app it found.  One lemma to a step shows `TypeOK'` and
`Keeps`, the rest of the invariant with the three action properties, so each step is
looked at once.

`NoDeadOffer` speaks of a quiet line, and is inductive only together with what is
under way.  `Offered` says that on an open link the board will be `Honest` once it has
read its line (the last status in it, or, if there is none, the offer it shows, is one
the Bridge stands by), or that something is `Asking`: a welcome with no status behind it, a
check about to be served, a query or an approval on its way, an install at work.
Lemmas say what appending to a line and reading from it do to "the last status", and
what each handler says (`AnswerSays`, `ResumeSays`, `GreetingSays`, `FlashSays`).

`HostProof` holds the proofs about the computer's side: about the installed program and about the
search for the board, whose generic definitions are called `SearchInit`, `SearchNext` and so on
for that.  Of `AppProgram` it proves for any number of releases, installs and kills, on either
kind of computer, with guests or without:

- `TypeCorrect`: type correctness;
- `ProgramRuns`: `BinRuns`;
- `RotatedHasRun`: the action property `TestedOnly`.

No hypothesis keeps anybody apart: both installers may be at any two steps at once.  The
invariant `IInv` adds to the types: what was seen to run is whole (`TestedRuns`); for each
installer, from its self-test to its move that is the copy in `<bin>.new`, unless it has been spoilt
(`Staged`), which holds because `Noted` sees every other hand on that directory; and `BinSafe`, which is `BinRuns` with its "somebody is
about to put a program into bin" made precise: an actor is inside `recover`, or an
installer that has moved bin away still finds something at `<bin>.old`.  Lemmas say
what a removal, a rename and a kill do to the directories; then there is one
lemma to a group of actions, and `SwapSound` and `SwapBin` have a case for each
step of an install.

`UsageLinkProof` proves for any readings, names and bounds of time, and any number
of faults, news and acts of the owner:

- `TypeCorrect`: type correctness;
- `AgesHonest`: `AgeIsHonest`, the board takes nothing to be younger than it is, unless a torn
  line said so;
- `DozesStay`: `NoFlapping`; and, of use to it, `OkIsHeard`: a status of ok is one
  of a host that was heard;
- `ByeIsHeeded`: the action property `ByeIsNotSleep`;
- `NewsIsFast`, `LostIsRestated` and `EyesAreOpen`: `FastNews`, `Restated` and `EyesOpen`.

So every property of the run is proved.  Assumptions: those of `Panel`, `Push` and
`UsageLink`.  For the last three the host timeout and the liveness window are at least one ping
interval (30 s against 10 s in the code), and what stands for "no reading", "no name" and a fetch
that raises is none.

The ages are inductive only together with the lines under way: `LinesHonest` says
that each line would leave the board no younger than the desk is now, and that
survives because time passes only over an empty line and news makes the desk
younger.  A torn line is read as one that might have been sent (`TornIs`), and need not be honest:
`BoardHonest` asks nothing of the board until the next whole one.  `LostIsSilent` (a lost host is not seen) carries `NoFlapping`, and
`ByeIsKept` (after a bye the host is not lost, and until the timeout the flag is
up) carries `ByeIsNotSleep`.  Lemmas give each operator of board and daemon its
type; what the daemon writes is shown to be in `Sends`, honest lines only.

The last three speak of a link that has been left alone for a heartbeat, a whole interval and
one step, so their invariant `News` counts along with it.  After one interval (`Answered`) the ping is due,
under way, or answered and heard; so after two (`InTouch`) each side has heard the other within an
interval, the daemon may speak and the board does not time out.  Then `Polled`: a turn has pushed what
the desk says; and `Said`: if the news and the calm are older than the last heartbeat
(`SinceBeat`), the desk's word is the last of its kind under way, or stands on the glass.
`PushShown` and `NameShown` tie what the daemon believes it has told (`_last_pushed`,
`_last_session`) to that line or to the glass.  "The last of its kind" is carried by two lemmas on sequences:
of two pieces joined the second decides (`LastOfJoined`), and without its first line the rest
does (`LastOfTail`).  `Word` is what one call of the daemon may say, closed under calling one
after another (`WordAfterWord`).

Of `Search`, `HostProof` proves for any number of ports, any `--port`s and any number of moves:

- `SearchTypeCorrect`: type correctness;
- `AskedTwiceAtMost`: `AskedOnce`, no port is opened more than twice under one layout;
- `BootsInPeace`: the action property `NoBootLoop`;
- `OthersSpared`: the action property `SparedWhileUp`.

The count of a port is inductive as `Counted`: a port has been opened once for each
pass, hurried and patient, that has reached it.  The resets need `Findable` (a board
that has been up since the round began is talked to, or is at a port the hurried pass
has not asked yet) and `GoneIsDead` (a port in hand that lost its device is known to be
dead).  That the first candidate of a nonempty set exists uses the
well-foundedness of the naturals.

`GlassProof` proves for any windows in their order, any pages, acts and themes, and however late
LVGL is:

- `TypeCorrect`: type correctness;
- `OneMove`: `OneMovePerTouch`;
- `ModalsOwn`: the action property `ModalOwnsGlass`.

Why one touch is one move is a matter of who knows of it when: `StrokeHeld` (a finger
on the glass keeps its stroke open), `FarGone` (a stroke has counted because of the way it has
gone, so LVGL's click sees it as a drag while it is open), `StrokePends` (what a counted stroke
asks for is handed over while the stroke is open, or is muted), `Quiet` and `GaugesBelow` (behind a
slide are the gauges, with nothing on its way to another page), and `Spent`: a touch that has moved
the screen has nothing left that could, unless it has gone astray.  The proof shows that the two ways of
going astray are all there are: any other order of lift, click, hand-over, slide and end of stroke
moves the screen once.

Assumption: `Times`, of which only `Release < Rearm <= Stitch` matters, constants of the
driver and of `ui_swipe_geom.h`.

Of `Standalone`, `BoardProof` proves for any limits and any number of tokens, releases, faults and
acts of the owner:

- `TypeCorrect`: type correctness;
- `LoginKept`: `SetupKept`.

That the token in flash is the one the endpoint takes next says nothing of the one
the network thread sends, nor of what it will count as refused.  So the invariant has
`Kept` (the next token is in the endpoint's granted reply if there is one, else in
flash), `Carried` (a thread at work would send that one), `Wronged` and `Timed` (the
refusals a board counts are wrong ones, and its half hour has been theirs),
`Endured` (a row of wrong refusals as long as that is excused), and `Threads`: codes are
exchanged in the setup only, and the network thread runs under the gauges only.
Two refusals are needed before a token goes (`LimitsArePlural`).

`SessionsProof` proves for any number of sessions of either tool, on the host or in
containers, and any number of events and faults:

- `TypeCorrect`: type correctness;
- `AliveShown`, `AskingShown`, `BuriedStays`, `KilledDropped`, `AgentsCounted`: the five
  properties of the run, `AliveIsShown` to `AgentsAreCounted`.

Assumption: `TimesInOrder`.  The properties speak of the end of a round of polls in which
nothing moved, so the invariant follows the round: `Calm` says that what has been read is
still there, and what has been shown is `Right`.  What makes it so are the files, of which
`Session` speaks at every moment, hooks under way or not: `HooksFit` (the hooks under
way are for what the session last did), `SlotTold` (when they are done the slot says it),
`QuestionMarked` and `AnswerClears` (the marker is there while Codex asks, and goes),
`EndedGone` (an ended session has no slot, and a tombstone over its log) and
`AgentKept`.  The pids are the harder half: `Believed` bounds how old the slot of a session in
a container can be while pids are still believed, and `Trusting` says that a session of the host
whose pid is in its slot makes them believed whenever its directory is read.  One lemma
to an action keeps `Session`, the pids' facts do not change but by hooks, polls and time, and
the two halves of a poll prove `Right` for every session they judge.

`SettingsProof` proves for any status lines an owner may choose from, with Codex or
without, and any number of repairs, edits, kills and failing saves:

- `TypeCorrect`: type correctness;
- `LineKept`: `Kept`;
- `AllGivenBack` and `AllInstalledOnce`: the action properties `GivenBack` and `OnceEach`.

Assumptions: `Parts`, and that no status line of the owner's is one of ours
(`OwnersAreOthers`).  `Kept` speaks of the files, and an install is five steps, any of
which may be the last.  `Safe` says where the owner's line is at each of them, and what the
marker must say of it there (`Marked`); `Known` that a file has one hook of ours at
most, spelt as its marker says; `Done` what an undisturbed command has done so far, which
at its end is what the two action properties claim.  That a process does not write back
what is no longer so is a matter of two: `Apart` (they do not hold the same file at
once, or it is excused), from which `LineCopied` and `HooksCopied` (what was loaded is
what is there).  `Quiet` keeps the daemon out of migrations and uninstalls, and `Same`
says that daemon and install spell the shim alike.  One lemma to an action has a step
for each part; `OneOfMine` says what `Merged` and `Cleared` make of one known hook.

`ReadingsProof` proves for any lengths of windows, waits and steps of the clock in their order, any
number of samples, and any providers that may raise:

- `TypeCorrect`: type correctness;
- `ZeroStays`, `AskedAgain`, `ResetHolds`: the three properties of the run, `ZeroStaysZero`,
  `HeardAgain` and `ResetIsTrue`.

Assumption: `Lengths`.  The first lemmas say what the operators return: that there is a newest of
a set of frames (by the well-foundedness of the naturals), what a merge takes from whom
(`MergeIs`), what of it may be on the dial (`DialIs`), what a frame of each source says (`StatusSays`, `LsFramesAre`, ...), and that a
projected boundary is the first after the present (`ProjectIs`).  A poll is then taken
apart by the part of the invariant.

`ZeroStaysZero` is about the dial, `Forgiven` about what will be on it: the reading that
told of the window's end is remembered until one of a later window is, and that one was written after
the end; and a sample lies before the end of its own window.  So if the rollover is not told
any more, the status line has a newer reading than the sample (`PollKeepsZero`).

`ResetIsTrue` rests on arithmetic.  `Aligned` says that a boundary lies a whole number of weeks before
the account's next one; there is one such in the week to come (`OneAhead`), so a
boundary projected from an aligned one is the account's (`ProjectIsTrue`).  `Vouched` says that
whatever the daemon notes is aligned and no younger than what a source has told it (`saw`).
`Sampled` says that the week's figure falls only where a week ends, so that no true note is
refuted (`NotRefuted`), which is why a learnt reset stays on offer.

`BackedOff` says how long a provider has been left out by the computer's clock (`Waited`):
before a step back no longer than its wait, after one no longer than its wait and what the
clock has gone since.

Only model-checked: liveness
(`ConsentSettles`, `FoundBySearch`, `Answered`, `PutBack`, `Arrives`, `TrialEnds`) and
deadlock freedom, which are out of the prover's reach.

## 5. Plan

Done: the store, the pair, the program, the usage link, the search, the sessions,
the readings with the anchor, the glass, the settings, the Wi-Fi mode with boot and
trial.  Next, in order of importance; each keeps the form above (constants with named assumptions, one action
to an operation, no RECURSIVE operator).

1. *LineLink*: framing with a bounded ring and buffer, under the lines that
   `UsageLink` loses and tears as a whole.  Abstract: what is dispatched is a line
   the daemon sent.

## 6. Not modelled

- *Widgets, panel actions, music, meetings*: a push of what the operating system
  says, and a key pressed on request; no state of their own.
- *Platform drivers and permissions*: calls of the operating system, one at a time.
- *Line framing*: planned; `UsageLink` loses and tears whole lines meanwhile.
- *Of the Wi-Fi mode*: the portal's pages, the setup screen, the name server, the time
  zone, the parsers; of *boot*: what is drawn, and when the hardware watchdog bites.  The
  bootloader is not in the repository; `Swapped` is what the code expects of it.
- *Parsers* of other programs' files (LevelDB, V8 clones, audit logs): formats; what
  they yield is an input of `Readings`.
- *Generated data* (icons, animations, fonts), *drawing*, *build, release and
  factory tools*: no behaviour a property could be about.  They are a good part of
  the repository's lines.
