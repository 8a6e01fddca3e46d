------------------------ MODULE ServiceControlProofs ------------------------
(***************************************************************************)
(* Proofs about ServiceControl, for any number of polls: what Run and Stop *)
(* promise by answering OK stays true until somebody else uses systemctl.  *)
(***************************************************************************)
EXTENDS ServiceControl, TLAPS

(* What a call that nobody interferes with has reached so far. *)
RunReached ==
    call = "run" /\ calm =>
        /\ stage \in {2, 3} => enabled
        /\ stage = 3 => unit \in {"activating", "active", "failed"}

StopReached ==
    call = "stop" /\ calm =>
        /\ asked => unit \in Down /\ ~queued
        /\ stage = 3 => ~enabled

(* StopHolds, with nothing waiting that would start the unit once more. *)
StopKept ==
    promise = "stop" => ~enabled /\ (asked => unit \in Down /\ ~queued)

(* During a call nothing is promised; the proxy is gone after a Stop. *)
ProxyDropped ==
    /\ call # "none" => process = "up" /\ promise = "none"
    /\ answer = "stop" => ~proxy

(* A call begins at the first stage, and the last has only its first step. *)
Paced ==
    /\ stage = 3 => step = "look"
    /\ call = "none" => stage = 1

IInv ==
    /\ TypeOK /\ Paced
    /\ RunReached /\ StopReached
    /\ RunHolds /\ StopKept
    /\ ProxyDropped /\ SurvivesStop

(* The two calls are the fields of Order. *)
LEMMA TwoCalls == Calls = {"run", "stop"}
BY DEF Calls, Order

(* The order of the two calls, written out. *)
LEMMA OrderOfCalls ==
    /\ Order["run"][1] = "file"  /\ Order["run"][2] = "unit"
    /\ Order["stop"][1] = "unit" /\ Order["stop"][2] = "file"
BY DEF Order

(* Every step keeps the types. *)
LEMMA TypesKept == TypeOK /\ Paced /\ [Next]_vars => TypeOK' /\ Paced'
<1> SUFFICES ASSUME TypeOK, Paced, [Next]_vars PROVE TypeOK' /\ Paced'
  OBVIOUS
<1> USE TwoCalls DEF TypeOK, Paced, States, systemd, control, past
<1>1. CASE Look
  BY <1>1 DEF Look, Go, Answer
<1>2. CASE Recheck
  BY <1>2 DEF Recheck, Go
<1>3. CASE Ask
  <2>1. CASE Answer(FALSE) /\ UNCHANGED <<systemd, polls, asked>>
    BY <1>3, <2>1 DEF Ask, Go, Answer
  <2>2. CASE /\ AskSystemd
             /\ Go(stage, "await") /\ polls' = Polls
             /\ UNCHANGED <<call, answer, promise>>
    <3>1. /\ unit' \in States /\ queued' \in BOOLEAN
          /\ enabled' \in BOOLEAN /\ asked' \in BOOLEAN
      BY <2>2 DEF AskSystemd, StartJob, StopJob
    <3> QED BY <1>3, <2>2, <3>1, PollsAssumption DEF Ask, Go
  <2> QED BY <1>3, <2>1, <2>2 DEF Ask
<1>4. CASE Await
  <2>1. CASE Attained /\ Go(stage + 1, "look") /\ UNCHANGED <<call, polls, answer, promise>>
    BY <1>4, <2>1 DEF Await, Go
  <2>2. CASE /\ polls > 0 /\ polls' = polls - 1
             /\ UNCHANGED <<call, stage, step, answer, promise>>
    BY <1>4, <2>2, PollsAssumption DEF Await
  <2>3. CASE polls = 0 /\ Answer(FALSE) /\ UNCHANGED polls
    BY <1>4, <2>3 DEF Await, Go, Answer
  <2> QED BY <1>4, <2>1, <2>2, <2>3 DEF Await
<1>5. CASE Finish
  <2>1. proxy' \in BOOLEAN
    BY <1>5 DEF Finish
  <2>2. promise' \in Calls \cup {"none"} /\ answer' \in Calls \cup {"none", "FAIL"}
    BY <1>5 DEF Finish, Answer
  <2> QED BY <1>5, <2>1, <2>2 DEF Finish, Go, Answer
<1>6. ASSUME NEW c \in Calls, Request(c) PROVE TypeOK' /\ Paced'
  BY <1>6 DEF Request
<1>7. CASE StartBackend
  BY <1>7 DEF StartBackend
<1>8. CASE ListDevices
  BY <1>8 DEF ListDevices
<1>9. CASE Started \/ Stopped \/ Crash
  <2>1. unit' \in States /\ queued' \in BOOLEAN
    BY <1>9 DEF Started, Stopped, Crash
  <2> QED BY <1>9, <2>1 DEF Started, Stopped, Crash
<1>10. CASE Systemctl
  <2>1. unit' \in States /\ queued' \in BOOLEAN /\ enabled' \in BOOLEAN
    BY <1>10 DEF Systemctl, StartJob, StopJob
  <2> QED BY <1>10, <2>1 DEF Systemctl
<1>11. CASE Reboot
  <2>1. unit' \in States /\ queued' \in BOOLEAN
    BY <1>11 DEF Reboot
  <2> QED BY <1>11, <2>1 DEF Reboot
<1>12. CASE UNCHANGED vars
  BY <1>12 DEF vars
<1> QED
  BY <1>1, <1>2, <1>3, <1>4, <1>5, <1>6, <1>7, <1>8, <1>9, <1>10, <1>11,
     <1>12
  DEF Next, Backend

(* Every step of the backend keeps the invariant: it looks before it goes  *)
(* on, and answers OK from the last stage only.                            *)
LEMMA BackendKeeps == IInv /\ TypeOK' /\ Paced' /\ Backend => IInv'
<1> SUFFICES ASSUME IInv, TypeOK', Paced', Backend PROVE IInv'
  OBVIOUS
<1> USE OrderOfCalls, TwoCalls
    DEF IInv, TypeOK, Paced, RunReached, StopReached, RunHolds, StopKept,
        ProxyDropped, SurvivesStop, systemd, past, Attained, Go, Answer
<1>1. CASE Look
  BY <1>1 DEF Look
<1>2. CASE Recheck
  BY <1>2 DEF Recheck
<1>3. CASE Ask
  <2>1. CASE Answer(FALSE) /\ UNCHANGED <<systemd, polls, asked>>
    BY <1>3, <2>1 DEF Ask
  <2>2. CASE /\ AskSystemd
             /\ Go(stage, "await") /\ polls' = Polls
             /\ UNCHANGED <<call, answer, promise>>
    <3>1. CASE call = "run"
      BY <1>3, <2>2, <3>1 DEF Ask, AskSystemd, StartJob
    <3>2. CASE call = "stop" /\ stage = 1
      BY <1>3, <2>2, <3>2 DEF Ask, AskSystemd, StopJob, Down
    <3>3. CASE call = "stop" /\ stage = 2
      BY <1>3, <2>2, <3>3 DEF Ask, AskSystemd
    <3> QED BY <1>3, <3>1, <3>2, <3>3 DEF Ask
  <2> QED BY <1>3, <2>1, <2>2 DEF Ask
<1>4. CASE Await
  BY <1>4 DEF Await
<1>5. CASE Finish
  BY <1>5 DEF Finish
<1> QED BY <1>1, <1>2, <1>3, <1>4, <1>5 DEF Backend

(* So does every step of the others: pages, systemd, administrators. *)
LEMMA OthersKeep ==
    IInv /\ TypeOK' /\ Paced' /\ [Next]_vars /\ ~Backend => IInv'
<1> SUFFICES ASSUME IInv, TypeOK', Paced', [Next]_vars, ~Backend PROVE IInv'
  OBVIOUS
<1> USE TwoCalls
    DEF IInv, TypeOK, Paced, RunReached, StopReached, RunHolds, StopKept,
        ProxyDropped, SurvivesStop, systemd, control, past, Down
<1>1. ASSUME NEW c \in Calls, Request(c) PROVE IInv'
  BY <1>1 DEF Request
<1>2. CASE StartBackend
  BY <1>2 DEF StartBackend
<1>3. CASE ListDevices
  BY <1>3 DEF ListDevices
<1>4. CASE Started
  BY <1>4 DEF Started
<1>5. CASE Stopped
  BY <1>5 DEF Stopped
<1>6. CASE Crash
  BY <1>6 DEF Crash
<1>7. CASE Systemctl
  BY <1>7 DEF Systemctl
<1>8. CASE Reboot
  BY <1>8 DEF Reboot
<1>9. CASE UNCHANGED vars
  BY <1>9 DEF vars
<1> QED
  BY <1>1, <1>2, <1>3, <1>4, <1>5, <1>6, <1>7, <1>8, <1>9 DEF Next

(* The invariant holds in every state: it is inductive. *)
THEOREM ControlInvariance == Spec => []IInv
<1>1. Init => IInv
  <2>1. ASSUME Init PROVE TypeOK /\ Paced
    <3>1. unit \in States /\ queued \in BOOLEAN /\ enabled \in BOOLEAN
      BY <2>1 DEF Init, States
    <3>2. process \in {"off", "up", "aborted"} /\ proxy \in BOOLEAN
      BY <2>1 DEF Init
    <3>3. stage \in 1 .. 3 /\ polls \in 0 .. Polls
      BY <2>1, PollsAssumption DEF Init
    <3>4. call \in Calls \cup {"none"} /\ promise \in Calls \cup {"none"}
      BY <2>1 DEF Init
    <3> QED BY <2>1, <3>1, <3>2, <3>3, <3>4 DEF Init, TypeOK, Paced
  <2>2. Init => RunReached /\ StopReached /\ RunHolds /\ StopKept
    BY DEF Init, RunReached, StopReached, RunHolds, StopKept
  <2>3. Init => ProxyDropped /\ SurvivesStop
    BY DEF Init, ProxyDropped, SurvivesStop
  <2> QED BY <2>1, <2>2, <2>3 DEF IInv
<1>2. IInv /\ [Next]_vars => IInv'
  BY TypesKept, BackendKeeps, OthersKeep DEF IInv
<1> QED BY <1>1, <1>2, PTL DEF Spec

(* An answer OK to Run is kept: the unit is enabled and runs, is being     *)
(* started, or has crashed too often.                                      *)
THEOREM RunIsKept == Spec => []RunHolds
<1>1. IInv => RunHolds
  BY DEF IInv
<1> QED BY <1>1, ControlInvariance, PTL

(* An answer OK to Stop is kept: the unit is disabled, and stays down if   *)
(* Stop had it stopped.                                                    *)
THEOREM StopIsKept == Spec => []StopHolds
<1>1. IInv => StopHolds
  BY DEF IInv, StopKept, StopHolds
<1> QED BY <1>1, ControlInvariance, PTL

(* No page ends a backend that has answered OK to Stop. *)
THEOREM StoppedBackendsLive == Spec => []SurvivesStop
<1>1. IInv => SurvivesStop
  BY DEF IInv
<1> QED BY <1>1, ControlInvariance, PTL

(* What the call has reached, the polls and the promise keep their types,   *)
(* whatever systemd does and however often it is asked.                     *)
THEOREM ControlTypes == Spec => []TypeOK
<1>1. IInv => TypeOK
  BY DEF IInv
<1> QED BY <1>1, ControlInvariance, PTL
=============================================================================
