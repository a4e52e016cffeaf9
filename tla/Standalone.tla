----------------------------- MODULE Standalone -----------------------------
(***************************************************************************)
(* The board on its own: the Wi-Fi mode (CONFIG_OVERWATCH_WIFI_MODE), in   *)
(* which no computer is attached and the board logs in, asks Anthropic for *)
(* the usage and updates itself.                                           *)
(*                                                                         *)
(* Two threads.  The main thread goes from the splash to one of its        *)
(* destinations, the tethered mode, the gauges or the setup, whose steps   *)
(* end in reboots; and in all its waits it looks after an image on trial.  *)
(* The network thread keeps the link and the login, fetches, and installs. *)
(* Either may reboot the board, and so may the power or a computer that    *)
(* opens the port.  What is left then is flash, two words of .noinit RAM   *)
(* unless the power went, and MCUboot's two slots.                         *)
(*                                                                         *)
(* A refresh token is the number of its place in the chain of tokens the   *)
(* endpoint has handed out; 0 is none.  The network thread's timers are    *)
(* left out: its loop is at "top" whenever none of its blocks is running,  *)
(* and any block whose conditions hold may be the next.                    *)
(***************************************************************************)
EXTENDS Integers

CONSTANTS
  BLIND_MAX,             \* reboots in a row for a radio that hears nothing
  REFRESH_REJECT_LIMIT,  \* refusals in a row that cost the token
  UNAUTH_REFRESH_TRIES,  \* refreshes that answer a 401 of the usage endpoint
  MaxTok, MaxVer,        \* bounds: tokens handed out, releases
  MaxActs                \* bound: faults and acts of the owner

ASSUME LimitsArePlural ==
  {BLIND_MAX, UNAUTH_REFRESH_TRIES, MaxTok, MaxVer, MaxActs} \subseteq Nat /\ REFRESH_REJECT_LIMIT \in Nat \ {0, 1}

VARIABLES
  flash,  \* the configuration: the network, the token, the version an install aimed at
  noinit, \* blind_boots, and the mark of an intentional reboot
  img,    \* the version that runs and whether it is confirmed; slot1 and whether it is to be tried
  main,   \* where the main thread is
  boot,   \* of this boot: a deaf radio, an image on trial and its health
  ip,     \* have_ip
  net,    \* the network thread
  post,   \* a usage event is in net_evtq
  ui,     \* the last manifest, whether it is offered, req_install
  world   \* the router, the endpoint, the releases, the computer; and what happened to the login

vars == <<flash, noinit, img, main, boot, ip, net, post, ui, world>>
onNet == <<noinit, img, main, boot, ip>>

NoReply == [kind |-> "none", tok |-> 0]
NetOff == [at |-> "off", for |-> "none", first |-> 0, tok |-> 0, reply |-> NoReply, authed |-> FALSE,
           acc |-> FALSE, had |-> FALSE, rejects |-> 0, old |-> FALSE, churn |-> 0]
NoUi == [last |-> 0, avail |-> FALSE, want |-> FALSE]

\* A board out of its box, or one that has been set up and logged in.
Init ==
  /\ \E tok \in {0, 1} :
       /\ flash = [wifi |-> IF tok = 0 THEN "none" ELSE "good", tok |-> tok, trail |-> 0]
       /\ world = [up |-> TRUE, live |-> tok, wrong |-> 0, long |-> FALSE, feed |-> 2, plugged |-> FALSE,
                   acts |-> 0, excused |-> FALSE]
  /\ noinit = [blind |-> 0, mark |-> FALSE]
  /\ img = [runs |-> 1, sure |-> TRUE, spare |-> 0, asked |-> FALSE]
  /\ main = "start"
  /\ \E deaf \in BOOLEAN : boot = [deaf |-> deaf, test |-> FALSE, health |-> FALSE]
  /\ ip = FALSE /\ net = NetOff /\ post = FALSE /\ ui = NoUi

\* Something the code does not decide on, at most MaxActs times; w is the world it leaves.
Act(w) == world.acts < MaxActs /\ world' = [w EXCEPT !.acts = @ + 1]

-----------------------------------------------------------------------------
(* Reboots.                                                                *)

\* MCUboot: slot1 is tried when it was handed over, and put back when the trial was
\* not confirmed, if it still holds an image.
Swapped(i) ==
  IF i.asked THEN [runs |-> i.spare, sure |-> FALSE, spare |-> i.runs, asked |-> FALSE]
  ELSE IF ~i.sure /\ i.spare # 0 THEN [runs |-> i.spare, sure |-> TRUE, spare |-> i.runs, asked |-> FALSE]
  ELSE i

\* A token granted by the endpoint, not yet in flash.
InFlight == net.at = "told" /\ net.reply.kind = "granted" /\ net.reply.tok # flash.tok

\* What .noinit RAM says after a reboot of the board's own, and after one by the
\* power or the port.
ForgetsBlind == [blind |-> 0, mark |-> TRUE]
Warm == [noinit EXCEPT !.mark = TRUE]
Cold == [blind |-> 0, mark |-> FALSE]

Restarted ==
  /\ img' = Swapped(img)
  /\ main' = "start"
  /\ \E deaf \in BOOLEAN : boot' = [deaf |-> deaf, test |-> ~Swapped(img).sure, health |-> FALSE]
  /\ ip' = FALSE /\ net' = NetOff /\ post' = FALSE /\ ui' = NoUi
  /\ UNCHANGED flash

Reboot(keep) ==
  /\ Restarted /\ noinit' = keep
  /\ world' = [world EXCEPT !.excused = @ \/ InFlight]

PowerOn ==
  /\ Restarted /\ noinit' = Cold
  /\ \E p \in BOOLEAN : Act([world EXCEPT !.excused = @ \/ InFlight, !.plugged = p])

-----------------------------------------------------------------------------
(* The main thread.                                                        *)

\* run_provisioning(skip_join_reason)
Provision(reason) == IF ~reason /\ flash.wifi # "none" THEN "resume" ELSE "air"

\* In the middle of a setup there is no splash.
Start ==
  /\ main = "start"
  /\ main' = IF noinit.mark /\ flash.wifi # "none" /\ flash.tok = 0 THEN Provision(FALSE) ELSE "splash"
  /\ UNCHANGED <<flash, noinit, img, boot, ip, net, post, ui, world>>

\* ui_boot_splash uses the mark up, and ota_report_outcome says once, on the screen of
\* the gauges, how an update went.
Unmarked == [noinit EXCEPT !.mark = FALSE]
Reported == [flash EXCEPT !.trail = 0]

\* A computer that talks is preferred.
Splash ==
  /\ main = "splash"
  /\ noinit' = Unmarked
  /\ \/ main' = "usb" /\ world.plugged /\ flash' = Reported
     \/ ~world.plugged /\ flash.wifi # "none" /\ flash.tok # 0 /\ main' = "sky" /\ flash' = Reported
     \/ ~world.plugged /\ (flash.wifi = "none" \/ flash.tok = 0) /\ main' = Provision(FALSE) /\ UNCHANGED flash
  /\ UNCHANGED <<img, boot, ip, net, post, ui, world>>

\* A scan that saw nothing: again from a fresh boot, BLIND_MAX times.
Blind == boot.deaf /\ noinit.blind < BLIND_MAX
Counted == [Warm EXCEPT !.blind = @ + 1]
Reroll == Blind /\ Reboot(Counted)

\* boot_ssid_scan.  Whether our own network was seen only words the reason.
BootScan ==
  /\ main = "sky"
  /\ \/ Reroll
     \/ /\ ~Blind
        /\ noinit' = [noinit EXCEPT !.blind = 0]
        /\ main' = IF boot.deaf THEN Provision(TRUE) ELSE "join"
        /\ UNCHANGED <<flash, img, boot, ip, net, post, ui, world>>

\* net_wifi_connect, which may also fail where it could succeed.
Joinable == world.up /\ flash.wifi = "good" /\ ~boot.deaf
Fails == IF Joinable THEN Act(world) ELSE UNCHANGED world

\* run_standalone: two tries; then the network thread, or the setup.
Join ==
  /\ main \in {"join", "again"}
  /\ \/ /\ Joinable
        /\ main' = "run" /\ ip' = TRUE
        /\ net' = [NetOff EXCEPT !.at = "top", !.first = flash.tok]
        /\ UNCHANGED world
     \/ /\ Fails
        /\ main' = IF main = "join" THEN "again" ELSE Provision(TRUE)
        /\ UNCHANGED <<ip, net>>
  /\ UNCHANGED <<flash, noinit, img, boot, post, ui>>

\* The join of a setup: what failed is forgotten.
Resume ==
  /\ main = "resume"
  /\ \/ Joinable /\ main' = "ask" /\ ip' = TRUE /\ UNCHANGED <<flash, world>>
     \/ Fails /\ main' = "air" /\ flash' = [flash EXCEPT !.wifi = "none"] /\ UNCHANGED ip
  /\ UNCHANGED <<noinit, img, boot, net, post, ui>>

\* phase1_get_wifi up to the setup network, which may not come up.
ApStarts == \/ main' = "ap" /\ UNCHANGED world
            \/ main' = "bye" /\ Act(world)
SetupScan ==
  /\ main = "air"
  /\ \/ Reroll
     \/ /\ ~Blind
        /\ noinit' = [noinit EXCEPT !.blind = 0]
        /\ ApStarts
        /\ UNCHANGED <<flash, img, boot, ip, net, post, ui>>

\* portal_run_wifi: somebody fills in the form, right or wrong.  Both ways out of it
\* reboot, as no join works after the setup network.
Posts ==
  /\ main = "ap"
  /\ \/ flash' = [flash EXCEPT !.wifi = "good"] /\ UNCHANGED world
     \/ flash' = [flash EXCEPT !.wifi = "bad"] /\ Act(world)
  /\ main' = "bye"
  /\ UNCHANGED <<noinit, img, boot, ip, net, post, ui>>

\* portal_run_signin: a code is pasted while none is being exchanged.
MayPaste == main = "ask" /\ net.at = "off"
Pastes ==
  /\ MayPaste
  /\ net' = [net EXCEPT !.at = "asked", !.for = "code"]
  /\ UNCHANGED <<flash, onNet, post, ui, world>>

\* Nobody came within a quarter of an hour, also while an exchange runs.
PortalEnds ==
  /\ main \in {"ap", "ask"}
  /\ main' = "bye"
  /\ UNCHANGED <<flash, noinit, img, boot, ip, net, post, ui, world>>

\* Three seconds of "Restarting now...".
Bye == main = "bye" /\ Reboot(Warm)

\* apply_net_evt; and in the tethered mode usage that has come from the daemon.
Proven == boot' = [boot EXCEPT !.health = TRUE] /\ post' = FALSE
Drain ==
  /\ main = "run" /\ post /\ Proven
  /\ UNCHANGED <<flash, noinit, img, main, ip, net, ui, world>>
Tethered ==
  /\ main = "usb" /\ ~boot.health /\ Proven
  /\ UNCHANGED <<flash, noinit, img, main, ip, net, ui, world>>

\* ota_boot_pump, which every wait of the main thread calls.
Boots == {"splash", "sky", "join", "again", "resume", "air", "ap", "ask", "run", "bye"}
Waits == {"splash", "sky", "join", "again", "resume", "air", "ap", "ask", "run", "usb", "bye"}
Confirm ==
  /\ main \in Waits /\ boot.test /\ boot.health
  /\ boot' = [boot EXCEPT !.test = FALSE]
  /\ img' = [img EXCEPT !.sure = TRUE]
  /\ UNCHANGED <<flash, noinit, main, ip, net, post, ui, world>>
Deadline == main \in Waits /\ boot.test /\ ~boot.health /\ Reboot(Warm)

-----------------------------------------------------------------------------
(* The network thread.                                                     *)

AtTop == net.at = "top"
Online == AtTop /\ ip

\* The link is kept up before anything else.
OnceSignedIn == AtTop /\ ~ip /\ net.authed
MayRejoin == AtTop /\ ~ip
Rejoin ==
  /\ MayRejoin /\ Joinable
  /\ ip' = TRUE
  /\ UNCHANGED <<flash, noinit, img, main, boot, net, post, ui, world>>

\* worker_refresh_token: the first time what was stored, then what was last handed out.
Bootstrap == net.first
Sent == IF net.for = "start" THEN net.first ELSE net.tok
Asks(for) ==
  /\ Online
  /\ net' = [net EXCEPT !.at = "asked", !.for = for]
  /\ UNCHANGED <<flash, onNet, post, ui>>
SignIn == ~net.authed /\ Asks("start") /\ UNCHANGED world
\* Five minutes before the access token expires.
RefreshAhead == net.authed /\ Asks("ahead") /\ UNCHANGED world

\* token_post: what comes back, and what the endpoint has done by then.
Reply(kind, tok) ==
  /\ net' = [net EXCEPT !.at = "told", !.reply = [kind |-> kind, tok |-> tok]]
  /\ UNCHANGED <<flash, onNet, post, ui>>
Asked == net.at = "asked"
\* The link gives the clock TLS needs, too (net_time_sync).
Reached == Asked /\ ip /\ world.up
Righted(live) == [world EXCEPT !.live = live, !.wrong = 0, !.long = FALSE]

\* The reply names the next token, or none, and the one that was sent stays good
\* (oauth_refresh_retain).
Grants ==
  /\ Reached /\ net.for # "code" /\ Sent = world.live
  /\ \E t \in {world.live, world.live + 1} \cap (1 .. MaxTok) : world' = Righted(t) /\ Reply("granted", t)
\* oauth_exchange_code.  If this reply names no token, nothing stands in for it, and
\* the board, which tells the owner that it is done, is not logged in.
LogsIn ==
  /\ Reached /\ net.for = "code"
  /\ \E t \in {0, world.live + 1} \cap (0 .. MaxTok) : world' = Righted(t) /\ Reply("granted", t)
\* 400, 401
Refuses ==
  /\ Reached /\ (net.for = "code" \/ Sent # world.live)
  /\ world' = Righted(world.live) /\ Reply("refused", 0)
\* The same of a token that is good.
Misjudges ==
  /\ Asked /\ net.for # "code" /\ Sent = world.live
  /\ Act([world EXCEPT !.wrong = @ + 1,
                       !.excused = @ \/ (world.wrong + 1 >= REFRESH_REJECT_LIMIT /\ world.long)])
  /\ Reply("refused", 0)
\* No name, no clock, no connection, no answer in time, or any other status.
Unheard ==
  /\ Asked
  /\ IF Reached THEN Act(Righted(world.live)) ELSE world' = Righted(world.live)
  /\ Reply("failed", 0)
\* The endpoint has moved on and the answer is lost.
Lost ==
  /\ Reached /\ net.for # "code" /\ Sent = world.live /\ world.live < MaxTok
  /\ Act([Righted(world.live + 1) EXCEPT !.excused = TRUE])
  /\ Reply("failed", 0)

\* A token is in flash before it is used.
Told(kind) == net.at = "told" /\ net.reply.kind = kind
Signed ==
  IF net.for = "code" THEN NetOff
  ELSE [net EXCEPT !.at = "top", !.for = "none", !.tok = net.reply.tok, !.reply = NoReply, !.authed = TRUE, !.acc = TRUE,
                   !.rejects = 0, !.churn = IF net.for = "401" THEN @ + 1 ELSE @]
Saves ==
  /\ Told("granted")
  /\ net' = Signed
  /\ \/ /\ flash' = [flash EXCEPT !.tok = net.reply.tok]
        /\ world' = [world EXCEPT !.excused = @ /\ net.reply.tok # world.live]
     \/ Act([world EXCEPT !.excused = TRUE]) /\ UNCHANGED flash
  /\ main' = IF net.for = "code" THEN "bye" ELSE main
  /\ UNCHANGED <<noinit, img, boot, ip, post, ui>>

Back == [net EXCEPT !.at = IF net.for = "code" THEN "off" ELSE "top", !.for = "none", !.reply = NoReply]
Shrugs ==
  /\ \/ Told("failed") /\ net' = [Back EXCEPT !.rejects = 0, !.old = FALSE]
     \/ Told("refused") /\ net.for = "code" /\ net' = Back
  /\ UNCHANGED <<flash, onNet, post, ui, world>>

\* A refusal costs the token when it is not the first of its streak, nor too few,
\* and the streak has lasted half an hour.
Broken == net.rejects > 0 /\ net.rejects + 1 >= REFRESH_REJECT_LIMIT /\ net.old
Keeps ==
  /\ Told("refused") /\ net.for # "code" /\ ~Broken
  /\ net' = [Back EXCEPT !.rejects = IF @ < REFRESH_REJECT_LIMIT THEN @ + 1 ELSE @, !.old = @ /\ net.rejects > 0]
  /\ UNCHANGED <<flash, onNet, post, ui, world>>
Wipes ==
  /\ Told("refused") /\ net.for # "code" /\ Broken
  /\ flash' = [flash EXCEPT !.tok = 0]
  /\ net' = [net EXCEPT !.at = "gone"]
  /\ UNCHANGED <<onNet, post, ui, world>>

\* usage_client_fetch.  Everything but an answer and a 401 changes a status on the
\* screen only.
Fetch ==
  /\ Online /\ world.up /\ net.authed /\ net.acc
  /\ net' = [net EXCEPT !.had = TRUE, !.churn = 0] /\ post' = TRUE
  /\ UNCHANGED <<flash, onNet, ui, world>>
Unauthorized ==
  /\ world.up /\ net.authed /\ net.churn < UNAUTH_REFRESH_TRIES
  /\ IF net.acc THEN Act(world) ELSE UNCHANGED world
  /\ Asks("401")

\* A redirect or two, and then the file; and the version in it beside the one that runs.
Serves == ip /\ world.up
Newer(v) == v > img.runs

\* ota_check
Check ==
  /\ AtTop /\ Serves /\ net.authed
  /\ ui' = [ui EXCEPT !.last = world.feed, !.avail = Newer(world.feed)]
  /\ UNCHANGED <<flash, onNet, net, post, world>>
\* ota_install writes over slot1, whatever is in it, once something has come, and hands
\* over only what is whole and hashes to what the manifest said.
Load ==
  /\ Online /\ net.authed /\ ui.want
  /\ ui' = [ui EXCEPT !.want = FALSE, !.avail = FALSE]
  /\ net' = [net EXCEPT !.at = "load"]
  /\ img' \in {img, [img EXCEPT !.spare = 0]}
  /\ UNCHANGED <<flash, noinit, main, boot, ip, post, world>>
LoadFails ==
  /\ net.at = "load"
  /\ IF Serves /\ world.feed = ui.last THEN Act(world) ELSE UNCHANGED world
  /\ net' = [net EXCEPT !.at = "top"]
  /\ UNCHANGED <<flash, onNet, post, ui>>
Seal ==
  /\ net.at = "load" /\ Serves /\ world.feed = ui.last
  /\ img' = [img EXCEPT !.spare = ui.last, !.asked = TRUE]
  /\ net' = [net EXCEPT !.at = "sealed"]
  /\ UNCHANGED <<flash, noinit, main, boot, ip, post, ui, world>>
\* What whatsnew_trail makes of the two versions, whatsnew_split takes apart again; only
\* the one that is aimed at matters.
Trail == ui.last
\* cfg_set_ota_state
Noted ==
  /\ net.at = "sealed"
  /\ flash' = [flash EXCEPT !.trail = Trail]
  /\ net' = [net EXCEPT !.at = "gone"]
  /\ UNCHANGED <<onNet, post, ui, world>>
Leaves == net.at = "gone" /\ Reboot(Warm)

-----------------------------------------------------------------------------
(* Everybody else.                                                         *)

Else == UNCHANGED <<flash, noinit, img, main, boot, post>>

LinkDrops == ip /\ ip' = FALSE /\ Act(world) /\ UNCHANGED <<net, ui>> /\ Else
RouterDown == world.up /\ ip' = FALSE /\ Act([world EXCEPT !.up = FALSE]) /\ UNCHANGED <<net, ui>> /\ Else
RouterUp == ~world.up /\ world' = [world EXCEPT !.up = TRUE] /\ UNCHANGED <<ip, net, ui>> /\ Else

AccessEnds == net.acc /\ net' = [net EXCEPT !.acc = FALSE] /\ UNCHANGED <<ip, ui, world>> /\ Else
\* The owner logs the board out elsewhere.
Revoke ==
  /\ world.live \in 1 .. MaxTok - 1
  /\ Act([world EXCEPT !.live = @ + 1, !.excused = TRUE])
  /\ net' = [net EXCEPT !.acc = FALSE]
  /\ UNCHANGED <<ip, ui>> /\ Else
HalfHour ==
  /\ (net.rejects > 0 /\ ~net.old) \/ (world.wrong > 0 /\ ~world.long)
  /\ net' = [net EXCEPT !.old = net.rejects > 0]
  /\ world' = [world EXCEPT !.long = world.wrong > 0, !.excused = @ \/ world.wrong >= REFRESH_REJECT_LIMIT]
  /\ UNCHANGED <<ip, ui>> /\ Else

Publish == world.feed < MaxVer /\ Act([world EXCEPT !.feed = @ + 1]) /\ UNCHANGED <<ip, net, ui>> /\ Else
Tap == main = "run" /\ ui.avail /\ ~ui.want /\ ui' = [ui EXCEPT !.want = TRUE] /\ Act(world) /\ UNCHANGED <<ip, net>> /\ Else

-----------------------------------------------------------------------------
MainStep ==
  \/ Start \/ Splash \/ BootScan \/ Join \/ Resume \/ SetupScan \/ PortalEnds \/ Bye \/ Drain
Trial == Confirm \/ Deadline
Answers == Grants \/ LogsIn \/ Refuses \/ Misjudges \/ Unheard \/ Lost
Hears == Saves \/ Shrugs \/ Keeps \/ Wipes
NetStep == Rejoin \/ SignIn \/ RefreshAhead \/ Hears \/ Fetch \/ Unauthorized \/ Check \/ Load \/ LoadFails \/ Seal \/ Noted \/ Leaves
World ==
  \/ PowerOn \/ Tethered \/ Posts \/ Pastes \/ LinkDrops \/ RouterDown \/ RouterUp \/ AccessEnds \/ Revoke \/ HalfHour
  \/ Publish \/ Tap
Next == MainStep \/ Trial \/ NetStep \/ Answers \/ World

Spec == Init /\ [][Next]_vars

\* Both threads run, every wait of the main thread looks at the trial, and what is asked
\* ends in one way or another.  A fetch and the
\* refresh before the token expires come due again and again, whatever else is due.
FairSpec ==
  /\ Spec
  /\ WF_vars(MainStep) /\ WF_vars(Trial) /\ WF_vars(Answers) /\ WF_vars(Hears) /\ WF_vars(Rejoin) /\ WF_vars(SignIn)
  /\ WF_vars(Seal \/ LoadFails) /\ WF_vars(Noted) /\ WF_vars(Leaves)
  /\ SF_vars(Fetch) /\ SF_vars(RefreshAhead)

-----------------------------------------------------------------------------
(* Properties.                                                             *)

\* "Log in once": unless a fault has broken the chain, the token in flash, or the one
\* about to be written there, is the one the endpoint takes next; so no refresh, no
\* reboot and no row of refusals short of half an hour costs the owner a login.  And a
\* board that is logged in has a network to join (worker_refresh_token, oauth_refresh,
\* cb_sign_in, the clearing of the network in run_provisioning).
SetupKept ==
  /\ ~world.excused => flash.tok = world.live \/ (InFlight /\ net.reply.tok = world.live)
  /\ flash.tok # 0 => flash.wifi # "none"

\* Every boot leads somewhere.  A board that nobody has logged in comes to a page where
\* it can be, also where no scan ever sees a network: the reboots for a blind radio end
\* (phase1_get_wifi, "so a location with no networks can't reboot-loop").  One that is
\* set up, on a network that works and with a token that is good, is online, signed in
\* and has had figures, whatever came between: the link may drop in any step, also
\* before the first sign-in (net_worker, run_standalone, main).
Usable == world.up /\ ~boot.deaf /\ flash.wifi = "good" /\ flash.tok = world.live /\ flash.tok # 0
Arrives ==
  /\ <>[](flash.tok = 0 /\ img.sure) => []<>(main \in {"ap", "ask", "usb"})
  /\ <>[](Usable /\ img.sure /\ main # "usb") => []<>(main = "run" /\ ip /\ net.acc /\ net.had)

\* No image stays on trial: it is confirmed, or the one before it comes back, in
\* whichever mode or wait the 90 seconds end (ota_boot_pump); unless the image before
\* it has been written over by then.
TrialEnds == [](~img.sure => <>(img.sure \/ img.spare = 0))

=============================================================================
