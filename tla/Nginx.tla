-------------------------------- MODULE Nginx --------------------------------
(***************************************************************************)
(* The entry of a blue-green application (internal/adapters/nginx): the     *)
(* managed file, which names the slot that takes the traffic, and the       *)
(* configuration the nginx process really runs, which changes only when it   *)
(* is told to reload.  Apply installs a candidate file first and asks       *)
(* afterwards whether it is any good, because nginx can only test what is   *)
(* installed; everything it undoes is an action of its own here.            *)
(*                                                                          *)
(* The module is passive: Slots calls Apply and goes on when it returns.    *)
(* A route is what the file says, a slot and the ports its number comes     *)
(* from; NoRoute stands for no file.                                        *)
(***************************************************************************)
EXTENDS Integers

CONSTANTS Routes, NoRoute

VARIABLES
  file,    \* the managed file on disk
  loaded,  \* what the running nginx routes by
  call     \* the Apply that runs or ran last

CallSteps == {"idle", "write", "verify", "reload", "restore", "undo", "reloadAgain", "returned"}

\* What Apply returns: nothing, a refusal before the reload, or a failed reload.
Results == {"ok", "invalid", "NGINX_RELOAD_FAILED"}

NginxInit ==
  /\ file = NoRoute
  /\ loaded = NoRoute
  /\ call = [step |-> "idle", target |-> NoRoute, previous |-> NoRoute, result |-> "ok"]

Apply(target) == call' = [step |-> "write", target |-> target, previous |-> NoRoute, result |-> "ok"]

Return(result) == call' = [call EXCEPT !.step = "returned", !.result = result]

\* Validate, render and read the old content, then rename the candidate into place.
WriteManaged(works, breaks) ==
  /\ call.step = "write"
  /\ \/ /\ works
        /\ file' = call.target
        /\ call' = [call EXCEPT !.step = "verify", !.previous = file]
     \/ breaks /\ Return("invalid") /\ UNCHANGED file
  /\ UNCHANGED loaded

\* nginx -T lists the file (the main configuration includes it), nginx -t passes.
VerifyInstalled(works, breaks) ==
  /\ call.step = "verify"
  /\ \/ works /\ call' = [call EXCEPT !.step = "reload"]
     \/ breaks /\ call' = [call EXCEPT !.step = "restore"]
  /\ UNCHANGED <<file, loaded>>

\* nginx -s reload; when it reports an error the signal may have got through.
Reload(works, breaks) ==
  /\ call.step = "reload"
  /\ \/ works /\ loaded' = file /\ Return("ok")
     \/ /\ breaks /\ loaded' \in {loaded, file}
        /\ call' = [call EXCEPT !.step = "undo"]
  /\ UNCHANGED file

\* The old content is put back (or the file removed); no context is involved.
Restore(works, breaks) ==
  /\ call.step \in {"restore", "undo"}
  /\ \/ /\ works /\ file' = call.previous
        /\ IF call.step = "undo" THEN call' = [call EXCEPT !.step = "reloadAgain"]
                                 ELSE Return("invalid")
     \/ /\ breaks /\ UNCHANGED file
        /\ Return(IF call.step = "undo" THEN "NGINX_RELOAD_FAILED" ELSE "invalid")
  /\ UNCHANGED loaded

\* The second reload.  Apply reports the same code whether it works or not.
ReloadAgain(works, breaks) ==
  /\ call.step = "reloadAgain"
  /\ \/ works /\ loaded' = file
     \/ breaks /\ loaded' \in {loaded, file}
  /\ Return("NGINX_RELOAD_FAILED")
  /\ UNCHANGED file

\* nginx rereads every file when the slots of another application are switched.
ForeignReload == loaded' = file /\ UNCHANGED <<file, call>>

-----------------------------------------------------------------------------
NginxTypeOK ==
  /\ file \in Routes \union {NoRoute}
  /\ loaded \in Routes \union {NoRoute}
  /\ call \in [step : CallSteps, target : Routes \union {NoRoute},
               previous : Routes \union {NoRoute}, result : Results]

=============================================================================
