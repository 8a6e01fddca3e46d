--------------------------- MODULE ServiceControl ---------------------------
(***************************************************************************)
(* The switch of the web page that runs and stops altusbd.                 *)
(*                                                                         *)
(* The backend asks systemd over D-Bus, for two things in turn: that the   *)
(* unit be started or stopped, and that its unit file be enabled or        *)
(* disabled.  For each it looks whether that is so already, asks when it   *)
(* is not, and polls until it is or until it has polled often enough.      *)
(* Meanwhile the daemon may crash, systemd starts it again, and an         *)
(* administrator may use systemctl.                                        *)
(*                                                                         *)
(* In the end the backend creates or drops its proxy for the daemon.  A    *)
(* list of devices that is asked of a daemon which is not on the bus       *)
(* throws in a noexcept function and so ends the backend; without a proxy  *)
(* the list is empty.                                                      *)
(***************************************************************************)
EXTENDS Integers, Sequences

CONSTANT Polls   \* how often the backend polls after it has asked (10)

ASSUME PollsAssumption == Polls \in Nat

VARIABLES
    unit,     \* ActiveState of altusbd.service
    queued,   \* a start waits until the unit has stopped
    enabled,  \* the state of the unit file
    process,  \* the backend
    proxy,    \* dbus_proxy_ is set
    call,     \* what the backend is doing
    stage,    \* how far it is in Order[call]
    step,     \* what it does there
    polls,    \* how often it will still poll
    answer,   \* its last answer since it was started: FAIL, or OK to what
    calm,     \* history: nobody else used systemctl since the call began
    asked,    \* history: this call has had the unit started or stopped
    promise   \* history: what the last answer OK says, while nothing
              \* else was asked of the unit

systemd == <<unit, queued, enabled>>
control == <<call, stage, step, polls>>
past    == <<calm, asked, promise>>
vars    == <<systemd, process, proxy, control, answer, past>>

States == {"inactive", "activating", "active", "deactivating", "failed"}
Down   == {"inactive", "deactivating", "failed"}

(* Mutant: Stop leaves the unit file alone. *)
OrderShort == [run  |-> <<"file", "unit", "proxy">>,
               stop |-> <<"unit", "unit", "proxy">>]

(* Run enables before it starts; Stop stops before it disables. *)
Order == [run  |-> <<"file", "unit", "proxy">>,
          stop |-> <<"unit", "file", "proxy">>]

Calls == DOMAIN Order

TypeOK ==
    /\ unit \in States /\ queued \in BOOLEAN /\ enabled \in BOOLEAN
    /\ process \in {"off", "up", "aborted"} /\ proxy \in BOOLEAN
    /\ call \in Calls \cup {"none"}
    /\ stage \in 1 .. 3
    /\ step \in {"look", "recheck", "ask", "await"}
    /\ polls \in 0 .. Polls
    /\ answer \in Calls \cup {"none", "FAIL"}
    /\ calm \in BOOLEAN /\ asked \in BOOLEAN
    /\ promise \in Calls \cup {"none"}

Init ==
    /\ unit \in {"inactive", "active", "failed"} /\ enabled \in BOOLEAN
    /\ queued = FALSE
    /\ process = "off" /\ proxy = FALSE
    /\ call = "none" /\ stage = 1 /\ step = "look" /\ polls = 0
    /\ answer = "none"
    /\ calm = FALSE /\ asked = FALSE /\ promise = "none"
-----------------------------------------------------------------------------
(* systemd.  A start that finds the unit stopping waits; a stop cancels     *)
(* what waits, and a restart after a crash too.                             *)
StartJob ==
    /\ unit' = IF unit \in {"inactive", "failed"} THEN "activating" ELSE unit
    /\ queued' = (unit = "deactivating")

StopJob ==
    /\ unit' = IF unit \in Down THEN unit ELSE "deactivating"
    /\ queued' = FALSE

Started ==
    /\ unit = "activating"
    /\ unit' = "active"
    /\ UNCHANGED <<queued, enabled, process, proxy, control, answer, past>>

Stopped ==
    /\ unit = "deactivating"
    /\ unit' = IF queued THEN "activating" ELSE "inactive"
    /\ queued' = FALSE
    /\ UNCHANGED <<enabled, process, proxy, control, answer, past>>

(* Restart=always: while it waits for RestartSec the unit is "activating". *)
(* After too many starts in a short time systemd gives up.                  *)
Crash ==
    /\ unit \in {"activating", "active"}
    /\ unit' \in {"activating", "failed"}
    /\ UNCHANGED <<queued, enabled, process, proxy, control, answer, past>>

(* Somebody else starts, stops, enables or disables the unit. *)
Systemctl ==
    /\ \/ StartJob /\ UNCHANGED enabled
       \/ StopJob /\ UNCHANGED enabled
       \/ enabled' \in BOOLEAN /\ UNCHANGED <<unit, queued>>
    /\ calm' = FALSE /\ promise' = "none"
    /\ UNCHANGED <<process, proxy, control, answer, asked>>

Reboot ==
    /\ unit' = IF enabled THEN "activating" ELSE "inactive"
    /\ queued' = FALSE
    /\ process' = "off" /\ answer' = "none"
    /\ call' = "none" /\ stage' = 1 /\ step' = "look"
    /\ UNCHANGED <<enabled, proxy, polls, past>>
-----------------------------------------------------------------------------
(* The unit or its file, whichever is next, is as the call wants it.  Only *)
(* "active" counts as active: a unit that is about to be started again     *)
(* does not.                                                               *)
Attained ==
    IF Order[call][stage] = "file" THEN enabled = (call = "run")
                                   ELSE (unit = "active") = (call = "run")

Go(n, s) == stage' = n /\ step' = s

Answer(ok) ==
    /\ answer' = IF ok THEN call ELSE "FAIL"
    /\ promise' = IF ok /\ calm THEN call ELSE "none"
    /\ call' = "none"
    /\ Go(1, "look")

(* The backend is started with a page; it may fail to create the proxy. *)
StartBackend ==
    /\ process # "up"
    /\ process' = "up"
    /\ proxy' \in BOOLEAN
    /\ answer' = "none"
    /\ UNCHANGED <<systemd, control, past>>

Request(c) ==
    /\ process = "up" /\ call = "none"
    /\ call' = c
    /\ calm' = TRUE /\ asked' = FALSE /\ promise' = "none"
    /\ UNCHANGED <<systemd, process, proxy, stage, step, polls, answer>>

(* IsUnitActive or IsUnitEnabled, before anything is asked.  A call that   *)
(* fails ends in the answer FAIL.                                          *)
Look ==
    /\ call # "none" /\ stage < 3 /\ step = "look"
    /\ \/ Answer(FALSE)
       \/ /\ Attained
          /\ Go(stage + 1, "look")
          /\ UNCHANGED <<call, answer, promise>>
       \/ /\ ~Attained
          /\ Go(stage, IF call = "stop" /\ stage = 1 THEN "recheck" ELSE "ask")
          /\ UNCHANGED <<call, answer, promise>>
    /\ UNCHANGED <<systemd, process, proxy, polls, calm, asked>>

(* StopUnit looks once more itself; here a failure does not count. *)
Recheck ==
    /\ call # "none" /\ step = "recheck"
    /\ \/ Attained /\ Go(stage + 1, "look")
       \/ Go(stage, "ask")
    /\ UNCHANGED <<systemd, process, proxy, call, polls, answer, past>>

(* EnableUnit, DisableUnit, StartUnit and StopUnit have one shape: the      *)
(* request, which may throw, and then the polls.                           *)
AskSystemd ==
    IF Order[call][stage] = "file"
    THEN enabled' = (call = "run") /\ UNCHANGED <<unit, queued, asked>>
    ELSE /\ IF call = "run" THEN StartJob ELSE StopJob
         /\ asked' = TRUE
         /\ UNCHANGED enabled

Ask ==
    /\ call # "none" /\ step = "ask"
    /\ \/ Answer(FALSE) /\ UNCHANGED <<systemd, polls, asked>>
       \/ /\ AskSystemd
          /\ Go(stage, "await") /\ polls' = Polls
          /\ UNCHANGED <<call, answer, promise>>
    /\ UNCHANGED <<process, proxy, calm>>

(* Mutant: polls that run out count as success. *)
AwaitOptimist ==
    /\ call # "none" /\ step = "await"
    /\ \/ /\ Attained \/ polls = 0
          /\ Go(stage + 1, "look")
          /\ UNCHANGED polls
       \/ /\ polls > 0
          /\ polls' = polls - 1
          /\ UNCHANGED <<stage, step>>
    /\ UNCHANGED <<systemd, process, proxy, call, answer, past>>

(* Mutant: one poll too many. *)
AwaitOnceMore ==
    /\ call # "none" /\ step = "await"
    /\ \/ /\ Attained
          /\ Go(stage + 1, "look")
          /\ UNCHANGED polls
       \/ /\ polls >= 0
          /\ polls' = polls - 1
          /\ UNCHANGED <<stage, step>>
    /\ UNCHANGED <<systemd, process, proxy, call, answer, past>>

(* Mutant: polls until it is so. *)
AwaitPatient ==
    /\ call # "none" /\ step = "await"
    /\ Attained
    /\ Go(stage + 1, "look")
    /\ UNCHANGED <<systemd, process, proxy, call, polls, answer, past>>

(* One look after the request and one after each pause; a look that fails  *)
(* is one that has not seen it.                                            *)
Await ==
    /\ call # "none" /\ step = "await"
    /\ \/ /\ Attained
          /\ Go(stage + 1, "look")
          /\ UNCHANGED <<call, polls, answer, promise>>
       \/ /\ polls > 0
          /\ polls' = polls - 1
          /\ UNCHANGED <<call, stage, step, answer, promise>>
       \/ /\ polls = 0
          /\ Answer(FALSE)
          /\ UNCHANGED polls
    /\ UNCHANGED <<systemd, process, proxy, calm, asked>>

(* Mutant: Stop keeps the proxy. *)
FinishKeepingProxy ==
    /\ call # "none" /\ stage = 3
    /\ \/ call = "run"  /\ proxy' = TRUE  /\ Answer(TRUE)
       \/ call = "run"  /\ UNCHANGED proxy /\ Answer(FALSE)
       \/ call = "stop" /\ UNCHANGED proxy /\ Answer(TRUE)
    /\ UNCHANGED <<systemd, process, polls, calm, asked>>

Finish ==
    /\ call # "none" /\ stage = 3
    /\ \/ call = "run"  /\ proxy' = TRUE  /\ Answer(TRUE)
       \/ call = "run"  /\ UNCHANGED proxy /\ Answer(FALSE)
       \/ call = "stop" /\ proxy' = FALSE /\ Answer(TRUE)
    /\ UNCHANGED <<systemd, process, polls, calm, asked>>

(* A page asks for the devices: callMethod stands outside of the try block *)
(* of ListDevices.  When the daemon is there nothing changes.               *)
ListDevices ==
    /\ process = "up" /\ call = "none"
    /\ proxy /\ unit # "active"
    /\ process' = "aborted"
    /\ UNCHANGED <<systemd, proxy, control, answer, past>>

Backend == Look \/ Recheck \/ Ask \/ Await \/ Finish

Next ==
    \/ Backend
    \/ \E c \in Calls : Request(c)
    \/ StartBackend \/ ListDevices
    \/ Started \/ Stopped \/ Crash \/ Systemctl \/ Reboot

(* Nothing but the backend is relied on: systemd may never get done. *)
Spec == Init /\ [][Next]_vars /\ WF_vars(Backend)
-----------------------------------------------------------------------------
(* Once Run has answered OK, and as long as nobody else decides otherwise, *)
(* the unit is enabled, and runs or is being started, also after crashes   *)
(* and reboots, unless systemd gives up on a daemon that keeps crashing.   *)
RunHolds ==
    promise = "run" => enabled /\ unit \in {"activating", "active", "failed"}

(* Once Stop has answered OK, and as long as nobody else decides otherwise, *)
(* the unit is disabled, and if Stop had systemd stop it, it stays down:   *)
(* neither a crash during the stop nor a reboot brings it back.             *)
StopHolds ==
    promise = "stop" => ~enabled /\ (asked => unit \in Down)

(* A backend that has answered OK to Stop is not ended by a page that still *)
(* shows the devices: it has dropped its proxy.                             *)
SurvivesStop == process = "aborted" => answer # "stop"

(* Run and Stop answer, whatever systemd does: the page is blocked until   *)
(* then.                                                                   *)
CallsAnswered == \A c \in Calls : call = c ~> call = "none"
=============================================================================
