----------------------------- MODULE Deployment -----------------------------
(***************************************************************************)
(* The host the two services are installed on, and the two ways to install  *)
(* them: scripts/install.sh, run there or by scripts/remote-install.sh, and *)
(* the Debian package with its maintainer scripts.  Both write the same     *)
(* directory, /opt/raspberry-smarthome, and the same two systemd units.     *)
(* One command runs at a time; any step of it may fail, units crash and are *)
(* started again, and the host reboots, at any moment.                      *)
(* Abstracted: apt prerequisites, uv itself, owners, the port.              *)
(***************************************************************************)
CONSTANTS Versions,  \* releases in the operator's checkout or in .deb files
          Keys,      \* provider keys that the .env of the checkout may hold
          None,      \* nothing there, not running
          Mixed,     \* parts of several releases
          Waiting    \* a failed unit in its RestartSec delay

ASSUME DeploymentAssumption ==
    /\ {None, Mixed, Waiting} \cap (Versions \cup Keys) = {}
    /\ None # Mixed /\ None # Waiting /\ Mixed # Waiting

VARIABLES
    dir,      \* /opt/raspberry-smarthome exists
    src,      \* release of the sources in it
    venv,     \* release that .venv was built from
    unit,     \* unit files in /etc/systemd/system
    enabled,
    running,  \* release a unit runs, Waiting or None
    loaded,   \* what the agent that runs read from agent.env
    env,      \* the keys in /etc/perseus-smarthome/agent.env, Mixed when it is empty
    account,  \* the system user of the services exists
    pkg,      \* dpkg: the package's status, and whether it was ever configured
    op        \* the command that runs or ran last, and its next step

files == <<dir, src, venv>>
systemd == <<unit, enabled, running, loaded>>
rest == <<account, pkg, env>>
vars == <<files, systemd, rest, op>>

Units == {"mcp", "agent"}
Release == IF src = venv THEN src ELSE Mixed
Startable == src # None /\ venv # None /\ account
Active(u) == running[u] \notin {None, Waiting}
Idle == op.at \in {"done", "failed"}
At(l) == op.at = l
Go(l) == op' = [op EXCEPT !.at = l]

Commands == {"none", "install", "upgrade", "uninstall", "uninstall --purge", "disable",
             "apt install", "apt remove", "apt purge"}
Steps == {"push", "truncate", "tee", "guard", "mkdir", "account", "stage", "sync", "units", "enable mcp",
          "enable agent", "restart mcp", "restart agent", "verify", "stop agent", "stop mcp",
          "disable", "remove units", "remove dir", "prerm agent", "prerm mcp", "unpack",
          "configure", "postinst mcp", "postinst agent", "delete", "done", "failed"}

TypeOK ==
    /\ dir \in BOOLEAN /\ account \in BOOLEAN
    /\ src \in Versions \cup {None, Mixed} /\ venv \in Versions \cup {None, Mixed}
    /\ (src # None \/ venv # None) => dir
    /\ unit \in [Units -> BOOLEAN] /\ enabled \in [Units -> BOOLEAN]
    /\ running \in [Units -> Versions \cup {None, Mixed, Waiting}]
    /\ env \in Keys \cup {None, Mixed} /\ loaded \in Keys \cup {None, Mixed}
    /\ pkg \in [status : {"none", "unpacked", "installed", "rc"}, configured : BOOLEAN]
    /\ pkg.status \in {"installed", "rc"} => pkg.configured
    /\ op \in [cmd : Commands, ver : Versions \cup {None}, keys : Keys \cup {None}, remote : BOOLEAN,
               was : SUBSET Units, at : Steps]

Init ==
    /\ dir = FALSE /\ src = None /\ venv = None /\ env = None
    /\ unit = [u \in Units |-> FALSE] /\ enabled = unit
    /\ running = [u \in Units |-> None] /\ loaded = None
    /\ account = FALSE
    /\ pkg = [status |-> "none", configured |-> FALSE]
    /\ op = [cmd |-> "none", ver |-> None, keys |-> None, remote |-> FALSE, was |-> {}, at |-> "done"]

-----------------------------------------------------------------------------
(* systemd.                                                                *)

Up == IF Startable THEN Release ELSE Waiting

\* "start": the agent wants the MCP server; an active unit is left alone.
Started(u) ==
    [w \in Units |->
        IF (w = u \/ (u = "agent" /\ unit[w])) /\ ~Active(w) THEN Up ELSE running[w]]
Restarted(u) == [Started(u) EXCEPT ![u] = Up]
Stopped(u) == [running EXCEPT ![u] = None]

\* A new process of the agent reads agent.env (EnvironmentFile=-).
Loads(restarted) ==
    loaded' = IF running'["agent"] \in {None, Waiting} THEN None
              ELSE IF restarted \/ ~Active("agent") THEN env ELSE loaded

\* daemon-reload after the unit files went: what waited is not started again.
Unloaded == [u \in Units |-> IF running[u] = Waiting THEN None ELSE running[u]]

UnitFails(u) ==
    /\ Active(u)
    /\ running' = [running EXCEPT ![u] = IF unit[u] THEN Waiting ELSE None]
    /\ Loads(FALSE)
    /\ UNCHANGED <<files, unit, enabled, rest, op>>

UnitRestarts(u) ==
    /\ running[u] = Waiting /\ Startable
    /\ running' = Started(u) /\ Loads(FALSE)
    /\ UNCHANGED <<files, unit, enabled, rest, op>>

Reboot ==
    /\ running' = [u \in Units |->
                      IF \E w \in Units : unit[u] /\ unit[w] /\ enabled[w] /\ w \in {u, "agent"}
                      THEN Up ELSE None]
    /\ Loads(TRUE)
    /\ Go(IF Idle THEN op.at ELSE "failed")
    /\ UNCHANGED <<files, unit, enabled, rest>>

-----------------------------------------------------------------------------
(* Commands: how they begin, are refused, fail and end.                    *)

BeginWith(cmd, v, keys, remote, first) ==
    /\ Idle
    /\ op' = [cmd |-> cmd, ver |-> v, keys |-> keys, remote |-> remote,
              was |-> {u \in Units : cmd = "apt install" /\ Active(u)}, at |-> first]

Begin(cmd, v, first) == BeginWith(cmd, v, None, FALSE, first)

\* The administrator stops and disables a unit by hand.
Disables(u) ==
    /\ Begin("disable", None, "done")
    /\ unit[u] /\ enabled[u]
    /\ enabled' = [enabled EXCEPT ![u] = FALSE]
    /\ running' = Stopped(u) /\ Loads(FALSE)
    /\ UNCHANGED <<files, unit, rest>>

\* rm -rf may end before, after or in the middle of a part of the tree.
Remains(release) == IF release = None THEN {None} ELSE {release, Mixed, None}

\* A step fails or the command is killed; rsync, uv, and the copy or removal
\* of the two units and of the directory may have done a part of their work.
Fails ==
    /\ ~Idle
    /\ Go("failed")
    /\ src' \in CASE At("push") \/ (At("stage") /\ ~op.remote) -> {src, Mixed}
                [] At("remove dir") -> Remains(src)
                [] OTHER -> {src}
    /\ venv' \in CASE At("sync") -> {venv, Mixed}
                 [] At("remove dir") -> Remains(venv)
                 [] OTHER -> {venv}
    /\ unit' \in CASE At("units") -> {unit, [unit EXCEPT !["mcp"] = TRUE]}
                 [] At("remove units") -> {unit, [unit EXCEPT !["agent"] = FALSE]}
                 [] OTHER -> {unit}
    /\ dir' = (dir \/ src' # None)
    /\ UNCHANGED <<enabled, running, loaded, rest>>

-----------------------------------------------------------------------------
(* install.sh install, install.sh upgrade, and both by remote-install.sh.   *)

Script(cmd, v) ==
    /\ Begin(cmd, v, "guard")
    /\ UNCHANGED <<files, systemd, rest>>

RemoteScript(cmd, v, keys) ==
    /\ BeginWith(cmd, v, keys, TRUE, "push")
    /\ UNCHANGED <<files, systemd, rest>>

\* remote-install.sh creates the directory and copies the release into it.
Push ==
    /\ At("push")
    /\ dir' = TRUE /\ src' = op.ver
    /\ Go(IF op.keys = None THEN "guard" ELSE "truncate")
    /\ UNCHANGED <<venv, systemd, rest>>

\* deploy_agent_env: an empty file with the right mode,
TruncateEnv ==
    /\ At("truncate")
    /\ env' = Mixed
    /\ Go("tee")
    /\ UNCHANGED <<files, systemd, account, pkg>>

\* Mutant: install.sh runs also when the keys did not get through.
WriteEnvOrNot ==
    /\ At("tee")
    /\ env' \in {env, op.keys}
    /\ Go("guard")
    /\ UNCHANGED <<files, systemd, account, pkg>>

\* and then the approved keys of .env.
WriteEnv ==
    /\ At("tee")
    /\ env' = op.keys
    /\ Go("guard")
    /\ UNCHANGED <<files, systemd, account, pkg>>

Admitted ==
    IF op.cmd = "install" THEN pkg.status # "installed" ELSE dir /\ unit["mcp"]

Guard ==
    /\ At("guard")
    /\ Go(IF ~Admitted THEN "failed" ELSE IF op.cmd = "install" THEN "mkdir" ELSE "account")
    /\ UNCHANGED <<files, systemd, rest>>

Mkdir ==
    /\ At("mkdir")
    /\ dir' = TRUE
    /\ Go("account")
    /\ UNCHANGED <<src, venv, systemd, rest>>

EnsureServiceUser ==
    /\ At("account")
    /\ account' = TRUE
    /\ Go("stage")
    /\ UNCHANGED <<files, systemd, pkg, env>>

\* The steps from here to CopyUnits are the same in install and upgrade.  A script
\* that runs from the install directory has nothing to copy.
Stage ==
    /\ At("stage")
    /\ src' = IF op.remote THEN src ELSE op.ver
    /\ Go("sync")
    /\ UNCHANGED <<dir, venv, systemd, rest>>

\* Mutant: an environment that is there is not built again.
UvSyncIfMissing ==
    /\ At("sync")
    /\ venv' = IF venv = None THEN src ELSE venv
    /\ Go("units")
    /\ UNCHANGED <<dir, src, systemd, rest>>

UvSync ==
    /\ At("sync")
    /\ venv' = src
    /\ Go("units")
    /\ UNCHANGED <<dir, src, systemd, rest>>

CopyUnits ==
    /\ At("units")
    /\ unit' = [u \in Units |-> TRUE]
    /\ Go(IF op.cmd = "install" THEN "enable mcp" ELSE "restart mcp")
    /\ UNCHANGED <<files, enabled, running, loaded, rest>>

\* "enable --now" starts a unit, it does not restart one.
EnableNow(u, l, next) ==
    /\ At(l)
    /\ enabled' = [enabled EXCEPT ![u] = TRUE]
    /\ running' = Started(u) /\ Loads(FALSE)
    /\ Go(next)
    /\ UNCHANGED <<files, unit, rest>>

EnableMcp == EnableNow("mcp", "enable mcp", "enable agent")
EnableAgent == EnableNow("agent", "enable agent", "verify")

\* Mutant: the unit is started as install starts it.
RestartMcpStarts ==
    /\ At("restart mcp")
    /\ running' = Started("mcp") /\ Loads(FALSE)
    /\ Go("restart agent")
    /\ UNCHANGED <<files, unit, enabled, rest>>

RestartMcp ==
    /\ At("restart mcp")
    /\ running' = Restarted("mcp") /\ Loads(FALSE)
    /\ Go("restart agent")
    /\ UNCHANGED <<files, unit, enabled, rest>>

RestartAgent ==
    /\ At("restart agent")
    /\ IF Active("agent") THEN running' = Restarted("agent") /\ Loads(TRUE) /\ Go("verify")
                          ELSE UNCHANGED <<running, loaded>> /\ Go("done")
    /\ UNCHANGED <<files, unit, enabled, rest>>

\* 30 seconds for the agent; the wait for the MCP server only warns.
Verify ==
    /\ At("verify")
    /\ Go(IF Active("agent") THEN "done" ELSE "failed")
    /\ UNCHANGED <<files, systemd, rest>>

-----------------------------------------------------------------------------
(* install.sh uninstall, with or without --purge.                          *)

Uninstall(cmd) ==
    /\ Begin(cmd, None, "stop agent")
    /\ UNCHANGED <<files, systemd, rest>>

\* Mutant: only a unit that is active is stopped, as prerm does it.
StopAgentIfActive ==
    /\ At("stop agent")
    /\ running' = IF Active("agent") THEN Stopped("agent") ELSE running
    /\ Loads(FALSE)
    /\ Go("stop mcp")
    /\ UNCHANGED <<files, unit, enabled, rest>>

StopAgent ==
    /\ At("stop agent")
    /\ running' = Stopped("agent") /\ Loads(FALSE)
    /\ Go("stop mcp")
    /\ UNCHANGED <<files, unit, enabled, rest>>

StopMcp ==
    /\ At("stop mcp")
    /\ running' = Stopped("mcp") /\ Loads(FALSE)
    /\ Go("disable")
    /\ UNCHANGED <<files, unit, enabled, rest>>

Disable ==
    /\ At("disable")
    /\ enabled' = [u \in Units |-> FALSE]
    /\ Go("remove units")
    /\ UNCHANGED <<files, unit, running, loaded, rest>>

RemoveUnits ==
    /\ At("remove units")
    /\ unit' = [u \in Units |-> FALSE]
    /\ running' = Unloaded /\ Loads(FALSE)
    /\ Go(IF op.cmd = "uninstall --purge" THEN "remove dir" ELSE "done")
    /\ UNCHANGED <<files, enabled, rest>>

\* Mutant: .venv is left, as rsync leaves it.
RemoveDirKeepsVenv ==
    /\ At("remove dir")
    /\ dir' = FALSE /\ src' = None
    /\ Go("done")
    /\ UNCHANGED <<venv, systemd, rest>>

RemoveDir ==
    /\ At("remove dir")
    /\ dir' = FALSE /\ src' = None /\ venv' = None
    /\ Go("done")
    /\ UNCHANGED <<systemd, rest>>

-----------------------------------------------------------------------------
(* The package: dpkg and the maintainer scripts.                           *)

\* preinst refuses a fresh install over an existing directory; before an
\* upgrade the prerm of the installed version runs.
AptInstall(v) ==
    /\ \/ /\ pkg.status \in {"none", "rc"}
          /\ Begin("apt install", v, IF dir THEN "failed" ELSE "unpack")
       \/ /\ pkg.status = "installed"
          /\ Begin("apt install", v, "prerm agent")
    /\ UNCHANGED <<files, systemd, rest>>

\* A package whose postinst failed is configured again.
DpkgConfigure ==
    /\ pkg.status = "unpacked"
    /\ Begin("apt install", None, "configure")
    /\ UNCHANGED <<files, systemd, rest>>

AptRemove ==
    /\ pkg.status = "installed"
    /\ Begin("apt remove", None, "prerm agent")
    /\ UNCHANGED <<files, systemd, rest>>

\* prerm stops a unit that is active, and disables it on a removal.
Prerm(u, l, next) ==
    /\ At(l)
    /\ running' = IF Active(u) THEN Stopped(u) ELSE running
    /\ Loads(FALSE)
    /\ enabled' = IF op.cmd = "apt remove" THEN [enabled EXCEPT ![u] = FALSE] ELSE enabled
    /\ Go(next)
    /\ UNCHANGED <<files, unit, rest>>

PrermAgent == Prerm("agent", "prerm agent", "prerm mcp")
PrermMcp == Prerm("mcp", "prerm mcp", IF op.cmd = "apt remove" THEN "delete" ELSE "unpack")

\* The payload is the sources, a built .venv and the two units.
Unpack ==
    /\ At("unpack")
    /\ dir' = TRUE /\ src' = op.ver /\ venv' = op.ver
    /\ unit' = [u \in Units |-> TRUE]
    /\ pkg' = [pkg EXCEPT !.status = "unpacked"]
    /\ Go("configure")
    /\ UNCHANGED <<enabled, running, loaded, account, env>>

Configure ==
    /\ At("configure")
    /\ account' = TRUE
    /\ Go(IF dir THEN "postinst mcp" ELSE "failed")
    /\ UNCHANGED <<files, systemd, pkg, env>>

\* The first configuration enables and starts; a later one restarts what is
\* active, the agent only if the MCP server is.  systemctl needs the unit.
Postinst(u, next) ==
    /\ unit[u] \/ (pkg.configured /\ ~Active(u))
    /\ enabled' = IF pkg.configured THEN enabled ELSE [enabled EXCEPT ![u] = TRUE]
    /\ running' = IF ~pkg.configured THEN Started(u)
                  ELSE IF Active(u) THEN Restarted(u) ELSE running
    /\ Loads(pkg.configured /\ u = "agent")
    /\ Go(next)
    /\ pkg' = IF next = "done" THEN [status |-> "installed", configured |-> TRUE] ELSE pkg
    /\ UNCHANGED <<files, unit, account, env>>

\* Mutant: the agent is left out whenever the MCP server is not active yet.
PostinstMcpOnly ==
    /\ At("postinst mcp")
    /\ Postinst("mcp", IF ~Active("mcp") THEN "done" ELSE "postinst agent")

PostinstMcp ==
    /\ At("postinst mcp")
    /\ Postinst("mcp", IF pkg.configured /\ ~Active("mcp") THEN "done" ELSE "postinst agent")
PostinstAgent == At("postinst agent") /\ Postinst("agent", "done")

\* dpkg deletes the payload but for the conffile, so the directory stays.
Delete ==
    /\ At("delete")
    /\ src' = None /\ venv' = None
    /\ unit' = [u \in Units |-> FALSE]
    /\ running' = Unloaded /\ Loads(FALSE)
    /\ pkg' = [pkg EXCEPT !.status = "rc"]
    /\ Go("done")
    /\ UNCHANGED <<dir, enabled, account, env>>

\* postrm purge; the account of a running process is not deleted.
AptPurge ==
    /\ pkg.status = "rc"
    /\ Begin("apt purge", None, "done")
    /\ dir' = FALSE /\ src' = None /\ venv' = None /\ env' = None
    /\ account' = (account /\ \E u \in Units : Active(u))
    /\ pkg' = [status |-> "none", configured |-> FALSE]
    /\ UNCHANGED systemd

-----------------------------------------------------------------------------
Next ==
    \/ Reboot \/ Fails
    \/ \E u \in Units : UnitFails(u) \/ UnitRestarts(u) \/ Disables(u)
    \/ \E v \in Versions :
         \/ AptInstall(v)
         \/ \E cmd \in {"install", "upgrade"} :
              Script(cmd, v) \/ \E keys \in Keys \cup {None} : RemoteScript(cmd, v, keys)
    \/ Push \/ TruncateEnv \/ WriteEnv \/ Guard \/ Mkdir \/ EnsureServiceUser \/ Stage \/ UvSync \/ CopyUnits
    \/ EnableMcp \/ EnableAgent \/ RestartMcp \/ RestartAgent \/ Verify
    \/ \E cmd \in {"uninstall", "uninstall --purge"} : Uninstall(cmd)
    \/ StopAgent \/ StopMcp \/ Disable \/ RemoveUnits \/ RemoveDir
    \/ DpkgConfigure \/ AptRemove \/ AptPurge
    \/ PrermAgent \/ PrermMcp \/ Unpack \/ Configure \/ PostinstMcp \/ PostinstAgent \/ Delete

Spec == Init /\ [][Next]_vars

-----------------------------------------------------------------------------
(* Properties.                                                             *)

Done(cmd) == op.cmd = cmd /\ op.at = "done"

\* Whatever earlier commands left half done, an install that reports success
\* has made the host whole: one release, both units in place, enabled, and
\* running or about to be started again (DEP-FR-002).
InstallConverges ==
    Done("install") =>
        /\ src = op.ver /\ venv = op.ver /\ account
        /\ \A u \in Units : unit[u] /\ enabled[u] /\ running[u] # None

\* After an upgrade that reports success no unit runs the old release or a
\* mixture, also one that crashed and came back while files were replaced.
UpgradeComplete ==
    Done("upgrade") =>
        /\ src = op.ver /\ venv = op.ver
        /\ \A u \in Units : Active(u) => running[u] = op.ver

\* After an uninstall nothing runs or can come back: the agent, which pulls the
\* MCP server in whenever it is started again, was stopped before it.
UninstallStops ==
    Done("uninstall") \/ Done("uninstall --purge") =>
        \A u \in Units : running[u] = None /\ ~enabled[u] /\ ~unit[u]

\* After an upgrade from the operator's machine that reports success, the agent that
\* runs has the keys of that machine's .env, also when it crashed and came back
\* while agent.env was empty (remote-install.sh:176-177).
KeysReachAgent ==
    Done("upgrade") /\ op.keys # None /\ Active("agent") => loaded = op.keys

\* The first configuration of the package that succeeds, also after some that
\* failed or a reboot between them, leaves both units enabled and started.
FirstConfigurationServes ==
    [][~pkg.configured /\ pkg'.configured =>
          \A u \in Units : enabled'[u] /\ running'[u] # None]_vars

\* What postinst says of an upgrade: "restart only if already running".  The
\* units that ran when apt began run, or are being started, when it is done.
UpgradeKeepsRunning ==
    Done("apt install") => \A u \in op.was : running[u] # None

=============================================================================
