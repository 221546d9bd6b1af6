----------------------------- MODULE BootService -----------------------------
(***************************************************************************)
(* The boot service of the viewer: one definition per machine, installed   *)
(* and removed by an administrator (viewer-service.ts), and the manager    *)
(* that runs it, systemd or launchd, as the code uses it.  A command of    *)
(* the manager may fail or time out, with or without its effect; a failed  *)
(* operation is rolled back, and the rollback may fail; the command of the *)
(* administrator may be killed, and the machine may restart.               *)
(*                                                                         *)
(* The manager has its own copy of the definition.  systemd reads it when  *)
(* it has none and may drop it when nothing runs.  Administration is one   *)
(* command at a time: the code has no lock for it.                         *)
(***************************************************************************)
EXTENDS Naturals, Sequences

CONSTANTS
  Settings,       \* definitions that differ in port, exposure or path
  Undefined,      \* no definition
  MaxMishaps      \* bound: failures, kills, restarts and interventions

ASSUME BootAssumption == Undefined \notin Settings /\ MaxMishaps \in Nat

VARIABLES
  platform,       \* "linux" or "darwin"
  machine,        \* [file, memory, runs: a definition; enabled]
  remaining,      \* the steps the command has left
  wanted,         \* the definition to install, or Undefined to uninstall
  earlier,        \* the file, and what the manager reported, before the command
  verdict,        \* "idle", "doing", "undoing", or what it told: "installed", ...
  flawed,         \* an attempt of the rollback failed and is reported
  overlooked,     \* the query of the rollback failed, and a loaded service was left alone
  stale,          \* a killed command or an incomplete rollback since the last restart
  meddled,        \* the viewer stopped by itself or by hand during the command
  mishaps

bootVars == <<platform, machine, remaining, wanted, earlier, verdict, flawed, overlooked, stale, meddled, mishaps>>

Linux == platform = "linux"
NothingYet == [file |-> Undefined, loaded |-> FALSE, enabled |-> FALSE, running |-> FALSE]

BootInit ==
  /\ platform \in {"linux", "darwin"}
  /\ machine = [file |-> Undefined, memory |-> Undefined, runs |-> Undefined, enabled |-> ~Linux]
  /\ remaining = << >> /\ wanted = Undefined /\ earlier = NothingYet /\ verdict = "idle"
  /\ flawed = FALSE /\ overlooked = FALSE /\ stale = FALSE /\ meddled = FALSE /\ mishaps = 0

-----------------------------------------------------------------------------
(* The manager. *)

InMemory == IF Linux /\ machine.memory = Undefined THEN machine.file ELSE machine.memory
Loaded   == InMemory # Undefined
ViewerRuns  == machine.runs # Undefined

\* What queryManager returns; a loaded service without the owned file is refused.
QueryRefuses == Loaded /\ machine.file = Undefined
Reported == [file |-> machine.file, loaded |-> Loaded, running |-> ViewerRuns,
             enabled |-> machine.enabled /\ machine.file # Undefined]

Possible(c) ==
  CASE c \in {"enable", "disable", "disable --now"} -> Linux => machine.file # Undefined
    [] c \in {"start", "restart", "stop", "bootout", "kickstart"} -> Loaded
    [] c = "bootstrap" -> ~Loaded /\ machine.enabled /\ machine.file # Undefined
    [] OTHER -> TRUE

Switched(on) == [machine EXCEPT !.enabled = on, !.memory = IF Linux THEN machine.file ELSE @]

\* systemctl enable and disable reload; bootstrap starts what has RunAtLoad.
Done(c) ==
  CASE c = "write"         -> [machine EXCEPT !.file = wanted]
    [] c = "restore"       -> [machine EXCEPT !.file = earlier.file]
    [] c = "rm"            -> [machine EXCEPT !.file = Undefined]
    [] c = "daemon-reload" -> [machine EXCEPT !.memory = machine.file]
    [] c = "enable"        -> Switched(TRUE)
    [] c = "disable"       -> Switched(FALSE)
    [] c = "disable --now" -> [Switched(FALSE) EXCEPT !.runs = Undefined]
    [] c = "stop"          -> [machine EXCEPT !.runs = Undefined]
    [] c = "restart"       -> [machine EXCEPT !.runs = InMemory, !.memory = InMemory]
    [] c \in {"start", "kickstart"} ->
         [machine EXCEPT !.runs = IF ViewerRuns THEN @ ELSE InMemory, !.memory = InMemory]
    [] c = "bootout"       -> [machine EXCEPT !.memory = Undefined, !.runs = Undefined]
    [] c = "bootstrap"     -> [machine EXCEPT !.memory = machine.file, !.runs = machine.file]

If(condition, order) == IF condition THEN <<order>> ELSE << >>

-----------------------------------------------------------------------------
(* The two commands. *)

\* Mutant of Starting: a service that runs is left running.
StartOnly(changed) == "start"

Starting(changed) == IF changed /\ earlier'.loaded THEN "restart" ELSE "start"

InstallSteps(changed) ==
  IF Linux
  THEN (IF changed THEN <<"write", "daemon-reload">> ELSE << >>)
       \o <<"enable", Starting(changed), "wait">>
  ELSE (IF changed THEN If(earlier'.loaded, "bootout") \o <<"write">> ELSE << >>)
       \o <<"enable">>
       \o (IF changed \/ ~earlier'.loaded THEN <<"bootstrap">> ELSE If(~earlier'.running, "kickstart"))
       \o <<"wait">>

RemovalSteps ==
  IF Linux THEN <<"disable --now", "rm", "daemon-reload", "gone">>
           ELSE If(earlier'.loaded, "bootout") \o <<"disable", "rm", "gone">>

Undo ==
  IF Linux
  THEN <<"stop">> \o If(~earlier.enabled, "disable") \o <<"restore", "daemon-reload">>
       \o If(earlier.enabled, "enable") \o If(earlier.running, "start")
  ELSE <<"query", "restore", IF earlier.enabled THEN "enable" ELSE "disable">>
       \o If(earlier.loaded /\ earlier.file # Undefined, "bootstrap")

NoCommand == verdict \notin {"doing", "undoing"}

Commanded ==
  /\ NoCommand /\ ~QueryRefuses
  /\ earlier' = Reported /\ verdict' = "doing" /\ flawed' = FALSE /\ overlooked' = FALSE /\ meddled' = FALSE
  /\ UNCHANGED <<platform, machine, stale, mishaps>>

InstallService(d) == Commanded /\ wanted' = d /\ remaining' = InstallSteps(machine.file # d)

UninstallService ==
  /\ machine.file # Undefined
  /\ Commanded /\ wanted' = Undefined /\ remaining' = RemovalSteps

-----------------------------------------------------------------------------
(* Its steps. *)

NextOrder == Head(remaining)
Doing == verdict = "doing" /\ remaining # << >>
Undoing == verdict = "undoing" /\ remaining # << >>

KeepCommand == UNCHANGED <<platform, wanted, earlier>>

Reports == <<flawed, overlooked, stale>>

Fails == verdict' = "undoing" /\ remaining' = Undo /\ UNCHANGED Reports
Succeeds  == UNCHANGED <<verdict, Reports>> /\ remaining' = Tail(remaining)
Tells(outcome) == verdict' = outcome /\ remaining' = << >> /\ UNCHANGED Reports

Ordered ==
  /\ Doing /\ NextOrder \notin {"wait", "gone"}
  /\ IF Possible(NextOrder) THEN machine' = Done(NextOrder) /\ Succeeds ELSE UNCHANGED machine /\ Fails
  /\ KeepCommand /\ UNCHANGED <<meddled, mishaps>>

Mishap == mishaps < MaxMishaps /\ mishaps' = mishaps + 1

\* The exit status is not 0, or the time is over; the effect may have come about.
OrderFails ==
  /\ Doing /\ Mishap /\ Fails
  /\ machine' \in {machine} \cup (IF NextOrder \notin {"wait", "gone", "write", "rm"} /\ Possible(NextOrder)
                                  THEN {Done(NextOrder)} ELSE {})
  /\ KeepCommand /\ UNCHANGED meddled

\* waitForService: the viewer that answers has the manager's pid.
Healthy ==
  /\ Doing /\ NextOrder = "wait" /\ ~QueryRefuses
  /\ ViewerRuns /\ Reported.enabled /\ Tells("installed")
  /\ KeepCommand /\ UNCHANGED <<machine, meddled, mishaps>>

WaitEnds ==
  /\ Doing /\ NextOrder = "wait" /\ ~(ViewerRuns /\ Reported.enabled) /\ Fails
  /\ KeepCommand /\ UNCHANGED <<machine, meddled, mishaps>>

\* The last look of an uninstall.
SeenGone ==
  /\ Doing /\ NextOrder = "gone"
  /\ IF Loaded \/ Reported.enabled \/ ViewerRuns THEN Fails ELSE Tells("removed")
  /\ KeepCommand /\ UNCHANGED <<machine, meddled, mishaps>>

\* The first look of a rollback on launchd, and the bootout of what it finds loaded.
SeenLoaded ==
  /\ Undoing /\ NextOrder = "query"
  /\ remaining' = If(Loaded, "bootout") \o Tail(remaining)
  /\ KeepCommand /\ UNCHANGED <<machine, verdict, Reports, meddled, mishaps>>

\* A query that fails is passed over: nothing is booted out, and no error is kept.
NotSeen ==
  /\ Undoing /\ NextOrder = "query" /\ Mishap
  /\ remaining' = Tail(remaining) /\ overlooked' = Loaded
  /\ KeepCommand /\ UNCHANGED <<machine, verdict, flawed, stale, meddled>>

\* Every attempt is made, whatever became of the one before.
Undone ==
  /\ Undoing /\ NextOrder # "query"
  /\ remaining' = Tail(remaining)
  /\ IF Possible(NextOrder) THEN machine' = Done(NextOrder) /\ UNCHANGED flawed
     ELSE UNCHANGED machine /\ flawed' = TRUE
  /\ KeepCommand /\ UNCHANGED <<verdict, overlooked, stale, meddled, mishaps>>

UndoFails ==
  /\ Undoing /\ NextOrder # "query" /\ Mishap
  /\ remaining' = Tail(remaining) /\ flawed' = TRUE
  /\ machine' \in {machine} \cup (IF NextOrder # "restore" /\ Possible(NextOrder) THEN {Done(NextOrder)} ELSE {})
  /\ KeepCommand /\ UNCHANGED <<verdict, overlooked, stale, meddled>>

RolledBack ==
  /\ verdict = "undoing" /\ remaining = << >>
  /\ verdict' = IF flawed THEN "incomplete" ELSE "restored"
  /\ stale' = (stale \/ flawed \/ overlooked)
  /\ KeepCommand /\ UNCHANGED <<machine, remaining, flawed, overlooked, meddled, mishaps>>

-----------------------------------------------------------------------------
(* The world around. *)

CommandKilled ==
  /\ ~NoCommand /\ Mishap
  /\ verdict' = "idle" /\ remaining' = << >> /\ stale' = TRUE
  /\ KeepCommand /\ UNCHANGED <<machine, flawed, overlooked, meddled>>

Calm == verdict' = (IF NoCommand THEN "idle" ELSE verdict) /\ meddled' = ~NoCommand
Around == KeepCommand /\ UNCHANGED <<remaining, Reports>>

\* html-inbox viewer stop: the manager does not restart what ended well.
StoppedByHand ==
  /\ ViewerRuns /\ Mishap /\ Calm
  /\ machine' = [machine EXCEPT !.runs = Undefined] /\ Around

\* The manager restarts what failed, by the definition it has.
ViewerFails ==
  /\ ViewerRuns /\ Loaded /\ Mishap /\ Calm
  /\ machine' = [machine EXCEPT !.runs = InMemory] /\ Around

\* systemd drops what does not run.
Dropped ==
  /\ Linux /\ ~ViewerRuns /\ machine.memory # Undefined
  /\ machine' = [machine EXCEPT !.memory = Undefined]
  /\ Around /\ UNCHANGED <<verdict, meddled, mishaps>>

MachineRestarts ==
  /\ Mishap
  /\ LET starts == machine.enabled /\ machine.file # Undefined
         kept   == IF starts THEN machine.file ELSE Undefined
     IN  machine' = [machine EXCEPT !.memory = kept, !.runs = kept]
  /\ verdict' = "idle" /\ remaining' = << >> /\ stale' = FALSE
  /\ KeepCommand /\ UNCHANGED <<flawed, overlooked, meddled>>

BootNext ==
  \/ \E d \in Settings : InstallService(d)
  \/ UninstallService
  \/ Ordered \/ OrderFails \/ Healthy \/ WaitEnds \/ SeenGone
  \/ SeenLoaded \/ NotSeen \/ Undone \/ UndoFails \/ RolledBack
  \/ CommandKilled \/ StoppedByHand \/ ViewerFails \/ Dropped \/ MachineRestarts

BootSpec == BootInit /\ [][BootNext]_bootVars
-----------------------------------------------------------------------------
\* What an installation or a removal tells is what the machine does now and after a
\* restart: installed, the viewer runs by the definition on file; removed, nothing is
\* left to run; restored, the file and what the manager starts are those from before,
\* and a service that the rollback could see runs only if it ran before, or if it had
\* been loaded on launchd, which starts what it loads.  Not after a killed command or
\* an incomplete rollback, which leaves a file that its viewer does not run by.
ServiceIsAsTold ==
  /\ verdict = "installed" => /\ machine.file = wanted /\ machine.enabled
                            /\ ViewerRuns /\ (stale \/ machine.runs = wanted)
  /\ verdict = "removed" => machine.file = Undefined /\ ~Loaded /\ ~ViewerRuns
  /\ verdict = "restored" /\ ~meddled =>
       /\ Reported.file = earlier.file /\ Reported.enabled = earlier.enabled
       /\ overlooked \/ ViewerRuns = earlier.running \/ (~Linux /\ earlier.loaded)

\* docs/self-hosting.md:61: a failed installation or removal restores the service state,
\* and an incomplete rollback is reported: what no error of the rollback is reported for
\* (rollbackService) runs no viewer that did not run, or was not loaded, before.
RollbackIsReported ==
  verdict = "restored" /\ ~meddled => (ViewerRuns => earlier.running \/ earlier.loaded)
=============================================================================
