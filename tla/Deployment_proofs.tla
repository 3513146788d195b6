------------------------- MODULE Deployment_proofs -------------------------
(***************************************************************************)
(* Theorems of Deployment for any set of releases: what a command of        *)
(* install.sh that reports success has made of the host, whatever failed    *)
(* before and whatever crashes meanwhile.                                   *)
(***************************************************************************)
EXTENDS Deployment, TLAPS

Released == Versions \cup {Mixed}
OpType == [cmd : Commands, ver : Versions \cup {None}, keys : Keys \cup {None}, remote : BOOLEAN,
           was : SUBSET Units, at : Steps]

Scripts == {"install", "upgrade"}
Uninstalls == {"uninstall", "uninstall --purge"}
Starts == {"enable mcp", "enable agent", "restart mcp", "restart agent", "verify"}

\* A step belongs to its commands.
StepsInv ==
    /\ op.at \in {"mkdir", "enable mcp", "enable agent"} => op.cmd = "install"
    /\ op.at \in {"restart mcp", "restart agent"} => op.cmd = "upgrade"
    /\ op.at \in {"push", "truncate", "tee", "guard", "account", "stage", "sync", "units", "verify"} =>
           op.cmd \in Scripts
    /\ op.at \in {"stop agent", "stop mcp", "disable", "remove units", "remove dir"} =>
           op.cmd \in Uninstalls
    /\ op.at \in {"prerm agent", "prerm mcp", "unpack", "configure",
                  "postinst mcp", "postinst agent", "delete"} =>
           op.cmd \in {"apt install", "apt remove"}

\* What a step finds when it is reached.
FoundInv ==
    /\ op.at \in {"account", "stage", "sync"} => dir
    /\ op.at \in {"prerm agent", "prerm mcp", "delete"} => pkg.status = "installed"
    /\ op.at \in {"truncate", "tee", "guard", "mkdir", "account", "stage"} /\ op.remote => src = op.ver

\* What install and upgrade have done by the time they are at a step or done.
Past(steps) == op.cmd \in Scripts /\ op.at \in steps \cup {"done"}

ScriptInv ==
    /\ op.cmd \in Scripts => op.ver \in Versions
    /\ Past({"stage", "sync", "units"} \cup Starts) => account
    /\ Past({"sync", "units"} \cup Starts) => src = op.ver
    /\ Past({"units"} \cup Starts) => venv = op.ver
    /\ Past(Starts) => \A u \in Units : unit[u]

\* The MCP server, then the agent, is enabled and started by install ...
StartInv ==
    op.cmd = "install" =>
        /\ Past({"enable agent", "verify"}) => enabled["mcp"] /\ running["mcp"] # None
        /\ Past({"verify"}) => enabled["agent"] /\ running["agent"] # None

\* ... and runs nothing but the new release once upgrade has restarted it.
RestartInv ==
    op.cmd = "upgrade" =>
        /\ Past({"restart agent", "verify"}) /\ Active("mcp") => running["mcp"] = op.ver
        /\ Past({"verify"}) /\ Active("agent") => running["agent"] = op.ver

\* Keys that a command brings are in agent.env from then on, and an agent started
\* after the restart has read them.
KeysInv ==
    /\ op.keys # None => op.cmd \in Scripts
    /\ op.at \in {"truncate", "tee"} => op.keys # None
    /\ op.keys # None =>
        /\ Past({"guard", "mkdir", "account", "stage", "sync", "units"} \cup Starts) => env = op.keys
        /\ op.cmd = "upgrade" /\ Past({"verify"}) /\ Active("agent") => loaded = op.keys

\* Uninstall stops the agent before the MCP server, and both before the rest.
StopInv ==
    op.cmd \in Uninstalls =>
        /\ op.at \in {"stop mcp", "disable", "remove units", "remove dir", "done"} =>
               running["agent"] = None
        /\ op.at \in {"disable", "remove units", "remove dir", "done"} => running["mcp"] = None
        /\ op.at \in {"remove units", "remove dir", "done"} => \A u \in Units : ~enabled[u]
        /\ op.at \in {"remove dir", "done"} => \A u \in Units : ~unit[u]

\* Between the two units of its first configuration the package has the first one
\* enabled and started.  By itself, for it needs nothing but the type.
FirstInv ==
    op.at = "postinst agent" /\ ~pkg.configured =>
        unit["mcp"] /\ enabled["mcp"] /\ running["mcp"] # None

IInv ==
    /\ TypeOK /\ StepsInv /\ FoundInv
    /\ ScriptInv /\ StartInv /\ RestartInv /\ KeysInv /\ StopInv

-----------------------------------------------------------------------------
(* What the pieces of the actions do.                                      *)

\* TypeOK in two parts: the host, and the command.
HostOK ==
    /\ dir \in BOOLEAN /\ account \in BOOLEAN
    /\ src \in Released \cup {None} /\ venv \in Released \cup {None}
    /\ (src # None \/ venv # None) => dir
    /\ unit \in [Units -> BOOLEAN] /\ enabled \in [Units -> BOOLEAN]
    /\ running \in [Units -> Released \cup {None, Waiting}]
    /\ env \in Keys \cup {None, Mixed} /\ loaded \in Keys \cup {None, Mixed}
    /\ pkg \in [status : {"none", "unpacked", "installed", "rc"}, configured : BOOLEAN]
    /\ pkg.status \in {"installed", "rc"} => pkg.configured

LEMMA HostFacts == ASSUME TypeOK PROVE HostOK /\ op \in OpType
BY DEF TypeOK, HostOK, OpType, Released

LEMMA TypeFacts == ASSUME HostOK', op' \in OpType PROVE TypeOK'
BY DEF TypeOK, HostOK, OpType, Released

LEMMA GoFacts ==
    ASSUME TypeOK, NEW l \in Steps, Go(l)
    PROVE  /\ op' \in OpType /\ op'.at = l
           /\ op'.cmd = op.cmd /\ op'.ver = op.ver /\ op'.keys = op.keys /\ op'.remote = op.remote
BY DEF TypeOK, Go, OpType

LEMMA BeginFacts ==
    ASSUME TypeOK, NEW cmd \in Commands, NEW v \in Versions \cup {None}, NEW keys \in Keys \cup {None},
           NEW remote \in BOOLEAN, NEW first \in Steps, BeginWith(cmd, v, keys, remote, first)
    PROVE  /\ op' \in OpType /\ op'.at = first
           /\ op'.cmd = cmd /\ op'.ver = v /\ op'.keys = keys /\ op'.remote = remote
<1>1. {u \in Units : cmd = "apt install" /\ Active(u)} \in SUBSET Units
  OBVIOUS
<1> QED BY <1>1 DEF BeginWith, OpType

LEMMA UpFacts == ASSUME TypeOK PROVE Up \in Released \cup {Waiting}
BY DeploymentAssumption DEF TypeOK, Up, Released, Release, Startable

LEMMA StartedFacts ==
    ASSUME TypeOK, NEW u \in Units
    PROVE  /\ Started(u) \in [Units -> Released \cup {None, Waiting}]
           /\ Started(u)[u] # None
           /\ \A w \in Units : running[w] # None => Started(u)[w] # None
           /\ \A w \in Units : \/ Started(u)[w] = running[w]
                               \/ Started(u)[w] = Up /\ ~Active(w)
BY UpFacts, DeploymentAssumption DEF TypeOK, Started, Active, Released

LEMMA RestartedFacts ==
    ASSUME TypeOK, NEW u \in Units
    PROVE  /\ Restarted(u) \in [Units -> Released \cup {None, Waiting}]
           /\ Restarted(u)[u] = Up
           /\ \A w \in Units : \/ Restarted(u)[w] = running[w]
                               \/ Restarted(u)[w] = Up
           /\ \A w \in Units : running[w] # None => Restarted(u)[w] # None
BY UpFacts, StartedFacts, DeploymentAssumption DEF TypeOK, Restarted, Released

LEMMA LoadsFacts ==
    ASSUME TypeOK, NEW b \in BOOLEAN, Loads(b)
    PROVE  loaded' \in Keys \cup {None, Mixed}
BY DEF TypeOK, Loads

\* A unit that comes up on the files of one release runs that release.
LEMMA UpRuns ==
    ASSUME TypeOK, src = venv, src \in Versions PROVE Up \in {src, Waiting}
BY DEF Up, Release, Startable

\* What install and upgrade do before they touch the services.
LEMMA FilesStep ==
    ASSUME IInv, Push \/ TruncateEnv \/ WriteEnv \/ Guard \/ Mkdir \/ EnsureServiceUser
           \/ Stage \/ UvSync \/ CopyUnits
    PROVE  IInv'
<1>1. CASE Push
  <2>1. op' \in OpType /\ op.at = "push"
        /\ op'.at = (IF op.keys = None THEN "guard" ELSE "truncate") /\ op'.cmd = op.cmd
        /\ op'.ver = op.ver /\ op'.keys = op.keys /\ op'.remote = op.remote
    BY <1>1, GoFacts DEF Push, At, Steps, IInv
  <2>2. TypeOK'
    <3>1. HostOK'
      BY <1>1, <2>1, HostFacts DEF Push, OpType, At, IInv, files, systemd, rest, HostOK, Released
    <3> QED BY <3>1, <2>1, TypeFacts
  <2>3. (StepsInv /\ FoundInv /\ ScriptInv /\ StartInv /\ RestartInv /\ KeysInv /\ StopInv)'
    BY <1>1, <2>1, DeploymentAssumption DEF Push, At, IInv, TypeOK, StepsInv, FoundInv, ScriptInv,
       StartInv, RestartInv, KeysInv, StopInv, Past, Starts, Scripts, Uninstalls, files, systemd,
       rest
  <2> QED BY <2>2, <2>3 DEF IInv
<1>2. CASE TruncateEnv
  <2>1. op' \in OpType /\ op.at = "truncate" /\ op'.at = "tee" /\ op'.cmd = op.cmd
        /\ op'.ver = op.ver /\ op'.keys = op.keys /\ op'.remote = op.remote
    BY <1>2, GoFacts DEF TruncateEnv, At, Steps, IInv
  <2>2. TypeOK'
    <3>1. HostOK'
      BY <1>2, <2>1, HostFacts DEF TruncateEnv, At, IInv, files, systemd, rest, HostOK, Released
    <3> QED BY <3>1, <2>1, TypeFacts
  <2>3. (StepsInv /\ FoundInv /\ ScriptInv /\ StartInv /\ RestartInv /\ KeysInv /\ StopInv)'
    BY <1>2, <2>1, DeploymentAssumption DEF TruncateEnv, At, IInv, TypeOK, StepsInv, FoundInv,
       ScriptInv, StartInv, RestartInv, KeysInv, StopInv, Past, Starts, Scripts, Uninstalls,
       files, systemd, rest
  <2> QED BY <2>2, <2>3 DEF IInv
<1>3. CASE WriteEnv
  <2>1. op' \in OpType /\ op.at = "tee" /\ op'.at = "guard" /\ op'.cmd = op.cmd
        /\ op'.ver = op.ver /\ op'.keys = op.keys /\ op'.remote = op.remote
    BY <1>3, GoFacts DEF WriteEnv, At, Steps, IInv
  <2>2. TypeOK'
    <3>1. HostOK'
      BY <1>3, <2>1, HostFacts DEF WriteEnv, OpType, At, IInv, files, systemd, rest, HostOK,
         Released
    <3> QED BY <3>1, <2>1, TypeFacts
  <2>3. (StepsInv /\ FoundInv /\ ScriptInv /\ StartInv /\ RestartInv /\ KeysInv /\ StopInv)'
    BY <1>3, <2>1, DeploymentAssumption DEF WriteEnv, At, IInv, TypeOK, StepsInv, FoundInv,
       ScriptInv, StartInv, RestartInv, KeysInv, StopInv, Past, Starts, Scripts, Uninstalls,
       files, systemd, rest
  <2> QED BY <2>2, <2>3 DEF IInv
<1>4. CASE Guard
  <2>1. op' \in OpType /\ op.at = "guard"
        /\ op'.at \in {"failed", IF op.cmd = "install" THEN "mkdir" ELSE "account"}
        /\ (op'.at = "account" => dir) /\ op'.cmd = op.cmd /\ op'.ver = op.ver
        /\ op'.keys = op.keys /\ op'.remote = op.remote
    BY <1>4, GoFacts DEF Guard, Admitted, At, Steps, IInv
  <2>2. TypeOK'
    <3>1. HostOK'
      BY <1>4, <2>1, HostFacts DEF Guard, Admitted, At, IInv, files, systemd, rest, HostOK, Released
    <3> QED BY <3>1, <2>1, TypeFacts
  <2>3. (StepsInv /\ FoundInv /\ ScriptInv /\ StartInv /\ RestartInv /\ KeysInv /\ StopInv)'
    BY <1>4, <2>1, DeploymentAssumption DEF Guard, Admitted, At, IInv, TypeOK, StepsInv, FoundInv,
       ScriptInv, StartInv, RestartInv, KeysInv, StopInv, Past, Starts, Scripts, Uninstalls,
       files, systemd, rest
  <2> QED BY <2>2, <2>3 DEF IInv
<1>5. CASE Mkdir
  <2>1. op' \in OpType /\ op.at = "mkdir" /\ op'.at = "account" /\ op'.cmd = op.cmd
        /\ op'.ver = op.ver /\ op'.keys = op.keys /\ op'.remote = op.remote
    BY <1>5, GoFacts DEF Mkdir, At, Steps, IInv
  <2>2. TypeOK'
    <3>1. HostOK'
      BY <1>5, <2>1, HostFacts DEF Mkdir, At, IInv, files, systemd, rest, HostOK, Released
    <3> QED BY <3>1, <2>1, TypeFacts
  <2>3. (StepsInv /\ FoundInv /\ ScriptInv /\ StartInv /\ RestartInv /\ KeysInv /\ StopInv)'
    BY <1>5, <2>1, DeploymentAssumption DEF Mkdir, At, IInv, TypeOK, StepsInv, FoundInv,
       ScriptInv, StartInv, RestartInv, KeysInv, StopInv, Past, Starts, Scripts, Uninstalls,
       files, systemd, rest
  <2> QED BY <2>2, <2>3 DEF IInv
<1>6. CASE EnsureServiceUser
  <2>1. op' \in OpType /\ op.at = "account" /\ op'.at = "stage" /\ op'.cmd = op.cmd
        /\ op'.ver = op.ver /\ op'.keys = op.keys /\ op'.remote = op.remote
    BY <1>6, GoFacts DEF EnsureServiceUser, At, Steps, IInv
  <2>2. TypeOK'
    <3>1. HostOK'
      BY <1>6, <2>1, HostFacts DEF EnsureServiceUser, At, IInv, files, systemd, rest, HostOK,
         Released
    <3> QED BY <3>1, <2>1, TypeFacts
  <2>3. (StepsInv /\ FoundInv /\ ScriptInv /\ StartInv /\ RestartInv /\ KeysInv /\ StopInv)'
    BY <1>6, <2>1, DeploymentAssumption DEF EnsureServiceUser, At, IInv, TypeOK, StepsInv,
       FoundInv, ScriptInv, StartInv, RestartInv, KeysInv, StopInv, Past, Starts, Scripts,
       Uninstalls, files, systemd, rest
  <2> QED BY <2>2, <2>3 DEF IInv
<1>7. CASE Stage
  <2>1. op' \in OpType /\ op.at = "stage" /\ op'.at = "sync" /\ op'.cmd = op.cmd
        /\ op'.ver = op.ver /\ op'.keys = op.keys /\ op'.remote = op.remote
    BY <1>7, GoFacts DEF Stage, At, Steps, IInv
  <2>2. TypeOK'
    <3>1. HostOK'
      BY <1>7, <2>1, HostFacts DEF Stage, OpType, At, IInv, files, systemd, rest, FoundInv,
         HostOK, Released
    <3> QED BY <3>1, <2>1, TypeFacts
  <2>3. (StepsInv /\ FoundInv /\ ScriptInv /\ StartInv /\ RestartInv /\ KeysInv /\ StopInv)'
    BY <1>7, <2>1, DeploymentAssumption DEF Stage, At, IInv, TypeOK, StepsInv, FoundInv,
       ScriptInv, StartInv, RestartInv, KeysInv, StopInv, Past, Starts, Scripts, Uninstalls,
       files, systemd, rest
  <2> QED BY <2>2, <2>3 DEF IInv
<1>8. CASE UvSync
  <2>1. op' \in OpType /\ op.at = "sync" /\ op'.at = "units" /\ op'.cmd = op.cmd
        /\ op'.ver = op.ver /\ op'.keys = op.keys /\ op'.remote = op.remote
    BY <1>8, GoFacts DEF UvSync, At, Steps, IInv
  <2>2. TypeOK'
    <3>1. HostOK'
      BY <1>8, <2>1, HostFacts DEF UvSync, At, IInv, files, systemd, rest, HostOK, Released
    <3> QED BY <3>1, <2>1, TypeFacts
  <2>3. (StepsInv /\ FoundInv /\ ScriptInv /\ StartInv /\ RestartInv /\ KeysInv /\ StopInv)'
    BY <1>8, <2>1, DeploymentAssumption DEF UvSync, At, IInv, TypeOK, StepsInv, FoundInv,
       ScriptInv, StartInv, RestartInv, KeysInv, StopInv, Past, Starts, Scripts, Uninstalls,
       files, systemd, rest
  <2> QED BY <2>2, <2>3 DEF IInv
<1>9. CASE CopyUnits
  <2>1. op' \in OpType /\ op.at = "units"
        /\ op'.at = (IF op.cmd = "install" THEN "enable mcp" ELSE "restart mcp")
        /\ op'.cmd = op.cmd /\ op'.ver = op.ver /\ op'.keys = op.keys /\ op'.remote = op.remote
    BY <1>9, GoFacts DEF CopyUnits, At, Steps, IInv
  <2>2. TypeOK'
    <3>1. HostOK'
      BY <1>9, <2>1, HostFacts DEF CopyUnits, At, IInv, files, systemd, rest, HostOK, Released
    <3> QED BY <3>1, <2>1, TypeFacts
  <2>3. (StepsInv /\ FoundInv /\ ScriptInv /\ StartInv /\ RestartInv /\ KeysInv /\ StopInv)'
    BY <1>9, <2>1, DeploymentAssumption DEF CopyUnits, At, IInv, TypeOK, StepsInv, FoundInv,
       ScriptInv, StartInv, RestartInv, KeysInv, StopInv, Past, Starts, Scripts, Uninstalls,
       files, systemd, rest
  <2> QED BY <2>2, <2>3 DEF IInv
<1> QED BY <1>1, <1>2, <1>3, <1>4, <1>5, <1>6, <1>7, <1>8, <1>9

\* How install starts the services and upgrade restarts them.
LEMMA StartStep ==
    ASSUME IInv, EnableMcp \/ EnableAgent \/ RestartMcp \/ RestartAgent \/ Verify
    PROVE  IInv'
<1>1. CASE EnableMcp
  <2>1. op' \in OpType /\ op.at = "enable mcp" /\ op'.at = "enable agent" /\ op'.cmd = op.cmd
        /\ op'.ver = op.ver /\ op'.keys = op.keys /\ op'.remote = op.remote
    BY <1>1, GoFacts DEF EnableMcp, EnableNow, At, Steps, IInv
  <2>2. running' \in [Units -> Released \cup {None, Waiting}] /\ running'["mcp"] # None
        /\ (\A w \in Units : running[w] # None => running'[w] # None)
    BY <1>1, StartedFacts DEF EnableMcp, EnableNow, IInv, Units
  <2>3. loaded' \in Keys \cup {None, Mixed}
    BY <1>1, LoadsFacts DEF EnableMcp, EnableNow, IInv
  <2>4. TypeOK'
    <3>1. HostOK'
      BY <1>1, <2>1, <2>2, <2>3, HostFacts DEF EnableMcp, EnableNow, At, IInv, files, systemd,
         rest, Released, Units, HostOK
    <3> QED BY <3>1, <2>1, TypeFacts
  <2>5. (StepsInv /\ FoundInv /\ ScriptInv /\ StartInv /\ RestartInv /\ KeysInv /\ StopInv)'
    BY <1>1, <2>1, <2>2, <2>3, DeploymentAssumption DEF EnableMcp, EnableNow, At, IInv, TypeOK,
       StepsInv, FoundInv, ScriptInv, StartInv, RestartInv, KeysInv, StopInv, Past, Starts,
       Scripts, Uninstalls, files, systemd, rest, Units
  <2> QED BY <2>4, <2>5 DEF IInv
<1>2. CASE EnableAgent
  <2>1. op' \in OpType /\ op.at = "enable agent" /\ op'.at = "verify" /\ op'.cmd = op.cmd
        /\ op'.ver = op.ver /\ op'.keys = op.keys /\ op'.remote = op.remote
    BY <1>2, GoFacts DEF EnableAgent, EnableNow, At, Steps, IInv
  <2>2. running' \in [Units -> Released \cup {None, Waiting}] /\ running'["agent"] # None
        /\ (\A w \in Units : running[w] # None => running'[w] # None)
    BY <1>2, StartedFacts DEF EnableAgent, EnableNow, IInv, Units
  <2>3. loaded' \in Keys \cup {None, Mixed}
    BY <1>2, LoadsFacts DEF EnableAgent, EnableNow, IInv
  <2>4. TypeOK'
    <3>1. HostOK'
      BY <1>2, <2>1, <2>2, <2>3, HostFacts DEF EnableAgent, EnableNow, At, IInv, files, systemd,
         rest, Released, Units, HostOK
    <3> QED BY <3>1, <2>1, TypeFacts
  <2>5. (StepsInv /\ FoundInv /\ ScriptInv /\ StartInv /\ RestartInv /\ KeysInv /\ StopInv)'
    BY <1>2, <2>1, <2>2, <2>3, DeploymentAssumption DEF EnableAgent, EnableNow, At, IInv, TypeOK,
       StepsInv, FoundInv, ScriptInv, StartInv, RestartInv, KeysInv, StopInv, Past, Starts,
       Scripts, Uninstalls, files, systemd, rest, Units
  <2> QED BY <2>4, <2>5 DEF IInv
<1>3. CASE RestartMcp
  <2>1. op' \in OpType /\ op.at = "restart mcp" /\ op'.at = "restart agent" /\ op'.cmd = op.cmd
        /\ op'.ver = op.ver /\ op'.keys = op.keys /\ op'.remote = op.remote
    BY <1>3, GoFacts DEF RestartMcp, At, Steps, IInv
  <2>2. op.cmd = "upgrade" /\ src = op.ver /\ venv = op.ver /\ op.ver \in Versions
    BY <1>3, <2>1 DEF IInv, StepsInv, ScriptInv, Past, Starts, Scripts
  <2>3. running' \in [Units -> Released \cup {None, Waiting}]
        /\ running'["mcp"] \in {op.ver, Waiting}
    BY <1>3, <2>2, RestartedFacts, UpRuns DEF RestartMcp, IInv, Units
  <2>4. loaded' \in Keys \cup {None, Mixed}
    BY <1>3, LoadsFacts DEF RestartMcp, IInv
  <2>5. TypeOK'
    <3>1. HostOK'
      BY <1>3, <2>1, <2>2, <2>3, <2>4, HostFacts DEF RestartMcp, At, IInv, files, systemd, rest,
         Released, Units, HostOK
    <3> QED BY <3>1, <2>1, TypeFacts
  <2>6. (StepsInv /\ FoundInv /\ ScriptInv)'
    BY <1>3, <2>1 DEF RestartMcp, At, IInv, StepsInv, FoundInv, ScriptInv, Past, Starts, Scripts,
       files, rest
  <2>7. (StartInv /\ StopInv)'
    BY <1>3, <2>1, <2>2 DEF StartInv, StopInv, Uninstalls
  <2>8. (RestartInv /\ KeysInv)'
    BY <1>3, <2>1, <2>2, <2>3 DEF RestartMcp, At, IInv, RestartInv, KeysInv, Past, Starts, Active,
       files, rest
  <2> QED BY <2>5, <2>6, <2>7, <2>8 DEF IInv
<1>4. CASE RestartAgent
  <2>1. op' \in OpType /\ op.at = "restart agent"
        /\ op'.at = (IF Active("agent") THEN "verify" ELSE "done") /\ op'.cmd = op.cmd
        /\ op'.ver = op.ver /\ op'.keys = op.keys /\ op'.remote = op.remote
    BY <1>4, GoFacts DEF RestartAgent, At, Steps, IInv
  <2>2. op.cmd = "upgrade" /\ src = op.ver /\ venv = op.ver /\ op.ver \in Versions
        /\ (op.keys # None => env = op.keys)
    BY <1>4, <2>1 DEF IInv, StepsInv, ScriptInv, KeysInv, Past, Starts, Scripts
  <2>3. (~Active("agent") => UNCHANGED <<running, loaded>>)
        /\ (Active("agent") => /\ running' \in [Units -> Released \cup {None, Waiting}]
                                /\ running'["agent"] \in {op.ver, Waiting}
                                /\ running'["mcp"] \in {running["mcp"], op.ver, Waiting}
                                /\ (running'["agent"] # Waiting => loaded' = env))
    BY <1>4, <2>2, RestartedFacts, UpRuns, DeploymentAssumption DEF RestartAgent, IInv, Units, Loads
  <2>4. loaded' \in Keys \cup {None, Mixed}
    BY <1>4, LoadsFacts DEF RestartAgent, IInv, TypeOK
  <2>5. TypeOK'
    <3>1. HostOK'
      BY <1>4, <2>1, <2>2, <2>3, <2>4, HostFacts DEF RestartAgent, At, IInv, files, systemd, rest,
         Released, Units, HostOK
    <3> QED BY <3>1, <2>1, TypeFacts
  <2>6. (StepsInv /\ FoundInv /\ ScriptInv)'
    BY <1>4, <2>1 DEF RestartAgent, At, IInv, StepsInv, FoundInv, ScriptInv, Past, Starts,
       Scripts, files, rest
  <2>7. (StartInv /\ StopInv)'
    BY <1>4, <2>1, <2>2 DEF StartInv, StopInv, Uninstalls
  <2>8. (RestartInv /\ KeysInv)'
    BY <1>4, <2>1, <2>2, <2>3 DEF RestartAgent, At, IInv, RestartInv, KeysInv, Past, Starts,
       Active, files, rest
  <2> QED BY <2>5, <2>6, <2>7, <2>8 DEF IInv
<1>5. CASE Verify
  <2>1. op' \in OpType /\ op.at = "verify" /\ op'.at \in {"done", "failed"} /\ op'.cmd = op.cmd
        /\ op'.ver = op.ver /\ op'.keys = op.keys /\ op'.remote = op.remote
    BY <1>5, GoFacts DEF Verify, At, Steps, IInv
  <2>2. TypeOK'
    <3>1. HostOK'
      BY <1>5, <2>1, HostFacts DEF Verify, At, IInv, files, systemd, rest, HostOK, Released
    <3> QED BY <3>1, <2>1, TypeFacts
  <2>3. (StepsInv /\ FoundInv /\ StopInv)'
    BY <1>5, <2>1 DEF Verify, At, IInv, StepsInv, FoundInv, StopInv, Scripts, Uninstalls, systemd
  <2>4. (ScriptInv /\ StartInv)'
    BY <1>5, <2>1 DEF Verify, At, IInv, ScriptInv, StartInv, Past, Starts, files, systemd, rest
  <2>5. (RestartInv /\ KeysInv)'
    BY <1>5, <2>1 DEF Verify, At, IInv, RestartInv, KeysInv, Past, Starts, Active, systemd, rest
  <2> QED BY <2>2, <2>3, <2>4, <2>5 DEF IInv
<1> QED BY <1>1, <1>2, <1>3, <1>4, <1>5

\* The steps of uninstall.
LEMMA UninstallStep ==
    ASSUME IInv, StopAgent \/ StopMcp \/ Disable \/ RemoveUnits \/ RemoveDir
    PROVE  IInv'
<1>1. CASE StopAgent
  <2>1. op' \in OpType /\ op.at = "stop agent" /\ op'.at = "stop mcp" /\ op'.cmd = op.cmd
        /\ op'.ver = op.ver /\ op'.keys = op.keys /\ op'.remote = op.remote
    BY <1>1, GoFacts DEF StopAgent, Stopped, At, Steps, IInv
  <2>2. loaded' \in Keys \cup {None, Mixed}
    BY <1>1, LoadsFacts DEF StopAgent, IInv
  <2>3. TypeOK'
    <3>1. HostOK'
      BY <1>1, <2>1, <2>2, HostFacts DEF StopAgent, Stopped, At, IInv, files, systemd, rest,
         Units, HostOK, Released
    <3> QED BY <3>1, <2>1, TypeFacts
  <2>4. (StepsInv /\ FoundInv /\ ScriptInv /\ StartInv /\ RestartInv /\ KeysInv /\ StopInv)'
    BY <1>1, <2>1, <2>2, DeploymentAssumption DEF StopAgent, Stopped, At, IInv, TypeOK, StepsInv,
       FoundInv, ScriptInv, StartInv, RestartInv, KeysInv, StopInv, Past, Starts, Scripts,
       Uninstalls, files, systemd, rest, Units
  <2> QED BY <2>3, <2>4 DEF IInv
<1>2. CASE StopMcp
  <2>1. op' \in OpType /\ op.at = "stop mcp" /\ op'.at = "disable" /\ op'.cmd = op.cmd
        /\ op'.ver = op.ver /\ op'.keys = op.keys /\ op'.remote = op.remote
    BY <1>2, GoFacts DEF StopMcp, Stopped, At, Steps, IInv
  <2>2. loaded' \in Keys \cup {None, Mixed}
    BY <1>2, LoadsFacts DEF StopMcp, IInv
  <2>3. TypeOK'
    <3>1. HostOK'
      BY <1>2, <2>1, <2>2, HostFacts DEF StopMcp, Stopped, At, IInv, files, systemd, rest, Units,
         HostOK, Released
    <3> QED BY <3>1, <2>1, TypeFacts
  <2>4. (StepsInv /\ FoundInv /\ ScriptInv /\ StartInv /\ RestartInv /\ KeysInv /\ StopInv)'
    BY <1>2, <2>1, <2>2, DeploymentAssumption DEF StopMcp, Stopped, At, IInv, TypeOK, StepsInv,
       FoundInv, ScriptInv, StartInv, RestartInv, KeysInv, StopInv, Past, Starts, Scripts,
       Uninstalls, files, systemd, rest, Units
  <2> QED BY <2>3, <2>4 DEF IInv
<1>3. CASE Disable
  <2>1. op' \in OpType /\ op.at = "disable" /\ op'.at = "remove units" /\ op'.cmd = op.cmd
        /\ op'.ver = op.ver /\ op'.keys = op.keys /\ op'.remote = op.remote
    BY <1>3, GoFacts DEF Disable, At, Steps, IInv
  <2>2. TypeOK'
    <3>1. HostOK'
      BY <1>3, <2>1, HostFacts DEF Disable, At, IInv, files, systemd, rest, HostOK, Released
    <3> QED BY <3>1, <2>1, TypeFacts
  <2>3. (StepsInv /\ FoundInv /\ ScriptInv /\ StartInv /\ RestartInv /\ KeysInv /\ StopInv)'
    BY <1>3, <2>1, DeploymentAssumption DEF Disable, At, IInv, TypeOK, StepsInv, FoundInv,
       ScriptInv, StartInv, RestartInv, KeysInv, StopInv, Past, Starts, Scripts, Uninstalls,
       files, systemd, rest
  <2> QED BY <2>2, <2>3 DEF IInv
<1>4. CASE RemoveUnits
  <2>1. op' \in OpType /\ op.at = "remove units" /\ op'.at \in {"remove dir", "done"}
        /\ op'.cmd = op.cmd /\ op'.ver = op.ver /\ op'.keys = op.keys /\ op'.remote = op.remote
    BY <1>4, GoFacts DEF RemoveUnits, Unloaded, At, Steps, IInv
  <2>2. loaded' \in Keys \cup {None, Mixed}
    BY <1>4, LoadsFacts DEF RemoveUnits, IInv
  <2>3. TypeOK'
    <3>1. HostOK'
      BY <1>4, <2>1, <2>2, HostFacts DEF RemoveUnits, Unloaded, At, IInv, files, systemd, rest,
         Units, HostOK, Released
    <3> QED BY <3>1, <2>1, TypeFacts
  <2>4. (StepsInv /\ FoundInv /\ ScriptInv /\ StartInv /\ RestartInv /\ KeysInv /\ StopInv)'
    BY <1>4, <2>1, <2>2, DeploymentAssumption DEF RemoveUnits, Unloaded, At, IInv, TypeOK,
       StepsInv, FoundInv, ScriptInv, StartInv, RestartInv, KeysInv, StopInv, Past, Starts,
       Scripts, Uninstalls, files, systemd, rest, Units
  <2> QED BY <2>3, <2>4 DEF IInv
<1>5. CASE RemoveDir
  <2>1. op' \in OpType /\ op.at = "remove dir" /\ op'.at = "done" /\ op'.cmd = op.cmd
        /\ op'.ver = op.ver /\ op'.keys = op.keys /\ op'.remote = op.remote
    BY <1>5, GoFacts DEF RemoveDir, At, Steps, IInv
  <2>2. TypeOK'
    <3>1. HostOK'
      BY <1>5, <2>1, HostFacts DEF RemoveDir, At, IInv, files, systemd, rest, HostOK, Released
    <3> QED BY <3>1, <2>1, TypeFacts
  <2>3. (StepsInv /\ FoundInv /\ ScriptInv /\ StartInv /\ RestartInv /\ KeysInv /\ StopInv)'
    BY <1>5, <2>1, DeploymentAssumption DEF RemoveDir, At, IInv, TypeOK, StepsInv, FoundInv,
       ScriptInv, StartInv, RestartInv, KeysInv, StopInv, Past, Starts, Scripts, Uninstalls,
       files, systemd, rest
  <2> QED BY <2>2, <2>3 DEF IInv
<1> QED BY <1>1, <1>2, <1>3, <1>4, <1>5

\* dpkg and the maintainer scripts: commands of which no part speaks but FoundInv.
LEMMA PackageStep ==
    ASSUME IInv, PrermAgent \/ PrermMcp \/ Unpack \/ Configure \/ PostinstMcp \/ PostinstAgent
           \/ Delete
    PROVE  IInv'
<1>1. CASE PrermAgent
  <2>1. op' \in OpType /\ op.at = "prerm agent" /\ op'.at \in {"prerm mcp"}
        /\ op.cmd \notin Scripts \cup Uninstalls /\ op'.cmd = op.cmd /\ op'.ver = op.ver
        /\ op'.keys = op.keys /\ op'.remote = op.remote
    BY <1>1, GoFacts DEF PrermAgent, Prerm, Stopped, StepsInv, Scripts, Uninstalls, At, Steps, IInv
  <2>2. loaded' \in Keys \cup {None, Mixed}
    BY <1>1, LoadsFacts DEF PrermAgent, Prerm, IInv
  <2>3. TypeOK'
    <3>1. HostOK'
      BY <1>1, <2>1, <2>2, HostFacts DEF PrermAgent, Prerm, Stopped, StepsInv, Scripts,
         Uninstalls, At, IInv, files, systemd, rest, Units, HostOK, Released
    <3> QED BY <3>1, <2>1, TypeFacts
  <2>4. (StepsInv /\ FoundInv /\ ScriptInv /\ StartInv /\ RestartInv /\ KeysInv /\ StopInv)'
    BY <1>1, <2>1, <2>2, DeploymentAssumption DEF PrermAgent, Prerm, Stopped, StepsInv, Scripts,
       Uninstalls, At, IInv, TypeOK, StepsInv, FoundInv, ScriptInv, StartInv, RestartInv, KeysInv,
       StopInv, Past, Starts, Scripts, Uninstalls, files, systemd, rest, Units
  <2> QED BY <2>3, <2>4 DEF IInv
<1>2. CASE PrermMcp
  <2>1. op' \in OpType /\ op.at = "prerm mcp" /\ op'.at \in {"delete", "unpack"}
        /\ op.cmd \notin Scripts \cup Uninstalls /\ op'.cmd = op.cmd /\ op'.ver = op.ver
        /\ op'.keys = op.keys /\ op'.remote = op.remote
    BY <1>2, GoFacts DEF PrermMcp, Prerm, Stopped, StepsInv, Scripts, Uninstalls, At, Steps, IInv
  <2>2. loaded' \in Keys \cup {None, Mixed}
    BY <1>2, LoadsFacts DEF PrermMcp, Prerm, IInv
  <2>3. TypeOK'
    <3>1. HostOK'
      BY <1>2, <2>1, <2>2, HostFacts DEF PrermMcp, Prerm, Stopped, StepsInv, Scripts, Uninstalls,
         At, IInv, files, systemd, rest, Units, HostOK, Released
    <3> QED BY <3>1, <2>1, TypeFacts
  <2>4. (StepsInv /\ FoundInv /\ ScriptInv /\ StartInv /\ RestartInv /\ KeysInv /\ StopInv)'
    BY <1>2, <2>1, <2>2, DeploymentAssumption DEF PrermMcp, Prerm, Stopped, StepsInv, Scripts,
       Uninstalls, At, IInv, TypeOK, StepsInv, FoundInv, ScriptInv, StartInv, RestartInv, KeysInv,
       StopInv, Past, Starts, Scripts, Uninstalls, files, systemd, rest, Units
  <2> QED BY <2>3, <2>4 DEF IInv
<1>3. CASE Unpack
  <2>1. op' \in OpType /\ op.at = "unpack" /\ op'.at = "configure"
        /\ op.cmd \notin Scripts \cup Uninstalls /\ op'.cmd = op.cmd /\ op'.ver = op.ver
        /\ op'.keys = op.keys /\ op'.remote = op.remote
    BY <1>3, GoFacts DEF Unpack, StepsInv, Scripts, Uninstalls, At, Steps, IInv
  <2>2. TypeOK'
    <3>1. HostOK'
      BY <1>3, <2>1, HostFacts DEF Unpack, OpType, StepsInv, Scripts, Uninstalls, At, IInv, files,
         systemd, rest, HostOK, Released
    <3> QED BY <3>1, <2>1, TypeFacts
  <2>3. (StepsInv /\ FoundInv /\ ScriptInv /\ StartInv /\ RestartInv /\ KeysInv /\ StopInv)'
    BY <1>3, <2>1, DeploymentAssumption DEF Unpack, StepsInv, Scripts, Uninstalls, At, IInv,
       TypeOK, StepsInv, FoundInv, ScriptInv, StartInv, RestartInv, KeysInv, StopInv, Past,
       Starts, Scripts, Uninstalls, files, systemd, rest
  <2> QED BY <2>2, <2>3 DEF IInv
<1>4. CASE Configure
  <2>1. op' \in OpType /\ op.at = "configure" /\ op'.at \in {"postinst mcp", "failed"}
        /\ op.cmd \notin Scripts \cup Uninstalls /\ op'.cmd = op.cmd /\ op'.ver = op.ver
        /\ op'.keys = op.keys /\ op'.remote = op.remote
    BY <1>4, GoFacts DEF Configure, StepsInv, Scripts, Uninstalls, At, Steps, IInv
  <2>2. TypeOK'
    <3>1. HostOK'
      BY <1>4, <2>1, HostFacts DEF Configure, StepsInv, Scripts, Uninstalls, At, IInv, files,
         systemd, rest, HostOK, Released
    <3> QED BY <3>1, <2>1, TypeFacts
  <2>3. (StepsInv /\ FoundInv /\ ScriptInv /\ StartInv /\ RestartInv /\ KeysInv /\ StopInv)'
    BY <1>4, <2>1, DeploymentAssumption DEF Configure, StepsInv, Scripts, Uninstalls, At, IInv,
       TypeOK, StepsInv, FoundInv, ScriptInv, StartInv, RestartInv, KeysInv, StopInv, Past,
       Starts, Scripts, Uninstalls, files, systemd, rest
  <2> QED BY <2>2, <2>3 DEF IInv
<1>5. CASE PostinstMcp
  <2>1. op' \in OpType /\ op.at = "postinst mcp" /\ op'.at \in {"done", "postinst agent"}
        /\ op.cmd \notin Scripts \cup Uninstalls /\ op'.cmd = op.cmd /\ op'.ver = op.ver
        /\ op'.keys = op.keys /\ op'.remote = op.remote
    BY <1>5, GoFacts DEF PostinstMcp, Postinst, StepsInv, Scripts, Uninstalls, At, Steps, IInv
  <2>2. running' \in [Units -> Released \cup {None, Waiting}]
    <3>1. running' \in {running, Started("mcp"), Restarted("mcp")}
      BY <1>5 DEF PostinstMcp, Postinst
    <3> QED BY <3>1, StartedFacts, RestartedFacts, HostFacts DEF IInv, HostOK, Units
  <2>3. loaded' \in Keys \cup {None, Mixed}
    BY <1>5, LoadsFacts DEF PostinstMcp, Postinst, IInv, TypeOK
  <2>4. TypeOK'
    <3>1. HostOK'
      BY <1>5, <2>1, <2>2, <2>3, HostFacts DEF PostinstMcp, Postinst, StepsInv, Scripts,
         Uninstalls, At, IInv, files, systemd, rest, Units, Released, HostOK
    <3> QED BY <3>1, <2>1, TypeFacts
  <2>5. (StepsInv /\ FoundInv /\ ScriptInv /\ StartInv /\ RestartInv /\ KeysInv /\ StopInv)'
    BY <1>5, <2>1, <2>2, <2>3, DeploymentAssumption DEF PostinstMcp, Postinst, StepsInv, Scripts,
       Uninstalls, At, IInv, TypeOK, StepsInv, FoundInv, ScriptInv, StartInv, RestartInv, KeysInv,
       StopInv, Past, Starts, Scripts, Uninstalls, files, systemd, rest, Units
  <2> QED BY <2>4, <2>5 DEF IInv
<1>6. CASE PostinstAgent
  <2>1. op' \in OpType /\ op.at = "postinst agent" /\ op'.at = "done"
        /\ op.cmd \notin Scripts \cup Uninstalls /\ op'.cmd = op.cmd /\ op'.ver = op.ver
        /\ op'.keys = op.keys /\ op'.remote = op.remote
    BY <1>6, GoFacts DEF PostinstAgent, Postinst, StepsInv, Scripts, Uninstalls, At, Steps, IInv
  <2>2. running' \in [Units -> Released \cup {None, Waiting}]
    <3>1. running' \in {running, Started("agent"), Restarted("agent")}
      BY <1>6 DEF PostinstAgent, Postinst
    <3> QED BY <3>1, StartedFacts, RestartedFacts, HostFacts DEF IInv, HostOK, Units
  <2>3. loaded' \in Keys \cup {None, Mixed}
    BY <1>6, LoadsFacts DEF PostinstAgent, Postinst, IInv, TypeOK
  <2>4. TypeOK'
    <3>1. HostOK'
      BY <1>6, <2>1, <2>2, <2>3, HostFacts DEF PostinstAgent, Postinst, StepsInv, Scripts,
         Uninstalls, At, IInv, files, systemd, rest, Units, Released, HostOK
    <3> QED BY <3>1, <2>1, TypeFacts
  <2>5. (StepsInv /\ FoundInv /\ ScriptInv /\ StartInv /\ RestartInv /\ KeysInv /\ StopInv)'
    BY <1>6, <2>1, <2>2, <2>3, DeploymentAssumption DEF PostinstAgent, Postinst, StepsInv,
       Scripts, Uninstalls, At, IInv, TypeOK, StepsInv, FoundInv, ScriptInv, StartInv, RestartInv,
       KeysInv, StopInv, Past, Starts, Scripts, Uninstalls, files, systemd, rest, Units
  <2> QED BY <2>4, <2>5 DEF IInv
<1>7. CASE Delete
  <2>1. op' \in OpType /\ op.at = "delete" /\ op'.at = "done"
        /\ op.cmd \notin Scripts \cup Uninstalls /\ op'.cmd = op.cmd /\ op'.ver = op.ver
        /\ op'.keys = op.keys /\ op'.remote = op.remote
    BY <1>7, GoFacts DEF Delete, Unloaded, StepsInv, Scripts, Uninstalls, At, Steps, IInv
  <2>2. loaded' \in Keys \cup {None, Mixed}
    BY <1>7, LoadsFacts DEF Delete, IInv
  <2>3. TypeOK'
    <3>1. HostOK'
      BY <1>7, <2>1, <2>2, HostFacts DEF Delete, Unloaded, StepsInv, Scripts, Uninstalls, At,
         IInv, files, systemd, rest, Units, FoundInv, HostOK, Released
    <3> QED BY <3>1, <2>1, TypeFacts
  <2>4. (StepsInv /\ FoundInv /\ ScriptInv /\ StartInv /\ RestartInv /\ KeysInv /\ StopInv)'
    BY <1>7, <2>1, <2>2, DeploymentAssumption DEF Delete, Unloaded, StepsInv, Scripts, Uninstalls,
       At, IInv, TypeOK, StepsInv, FoundInv, ScriptInv, StartInv, RestartInv, KeysInv, StopInv,
       Past, Starts, Scripts, Uninstalls, files, systemd, rest, Units
  <2> QED BY <2>3, <2>4 DEF IInv
<1> QED BY <1>1, <1>2, <1>3, <1>4, <1>5, <1>6, <1>7

\* A command begins: nothing of an earlier command is claimed any more.
LEMMA BeginStep ==
    ASSUME IInv, (\E cmd \in Scripts, v \in Versions : Script(cmd, v))
           \/ (\E cmd \in Scripts, v \in Versions, keys \in Keys \cup {None} :
                 RemoteScript(cmd, v, keys))
           \/ (\E cmd \in Uninstalls : Uninstall(cmd)) \/ (\E v \in Versions : AptInstall(v))
           \/ DpkgConfigure \/ AptRemove \/ AptPurge \/ (\E u \in Units : Disables(u))
    PROVE  IInv'
<1>1. ASSUME NEW cmd \in Scripts, NEW v \in Versions, Script(cmd, v) PROVE IInv'
  <2>1. BeginWith(cmd, v, None, FALSE, "guard")
    BY <1>1 DEF Script, Begin
  <2>2. cmd \in Commands /\ "guard" \in Steps
    BY DEF Commands, Steps, Scripts, Uninstalls
  <2>3. op' \in OpType /\ op'.at = "guard" /\ op'.cmd = cmd /\ op'.ver = v /\ op'.keys = None
        /\ ~op'.remote
    BY <1>1, <2>1, <2>2, BeginFacts DEF IInv
  <2>4. TypeOK'
    <3>1. HostOK'
      BY <1>1, <2>3, HostFacts DEF Script, IInv, files, systemd, rest, HostOK, Released
    <3> QED BY <3>1, <2>3, TypeFacts
  <2>5. (StepsInv /\ FoundInv /\ ScriptInv /\ StartInv /\ RestartInv /\ KeysInv /\ StopInv)'
    BY <1>1, <2>3, DeploymentAssumption DEF Script, IInv, StepsInv, FoundInv, ScriptInv, StartInv,
       RestartInv, KeysInv, StopInv, Past, Starts, Scripts, Uninstalls, files, systemd, rest
  <2> QED BY <2>4, <2>5 DEF IInv
<1>2. ASSUME NEW cmd \in Scripts, NEW v \in Versions, NEW keys \in Keys \cup {None},
             RemoteScript(cmd, v, keys)
      PROVE  IInv'
  <2>1. BeginWith(cmd, v, keys, TRUE, "push")
    BY <1>2 DEF RemoteScript
  <2>2. cmd \in Commands /\ "push" \in Steps
    BY DEF Commands, Steps, Scripts, Uninstalls
  <2>3. op' \in OpType /\ op'.at = "push" /\ op'.cmd = cmd /\ op'.ver = v /\ op'.keys = keys
    BY <1>2, <2>1, <2>2, BeginFacts DEF IInv
  <2>4. TypeOK'
    <3>1. HostOK'
      BY <1>2, <2>3, HostFacts DEF RemoteScript, IInv, files, systemd, rest, HostOK, Released
    <3> QED BY <3>1, <2>3, TypeFacts
  <2>5. (StepsInv /\ FoundInv /\ ScriptInv /\ StartInv /\ RestartInv /\ KeysInv /\ StopInv)'
    BY <1>2, <2>3, DeploymentAssumption DEF RemoteScript, IInv, StepsInv, FoundInv, ScriptInv,
       StartInv, RestartInv, KeysInv, StopInv, Past, Starts, Scripts, Uninstalls, files, systemd,
       rest
  <2> QED BY <2>4, <2>5 DEF IInv
<1>3. ASSUME NEW cmd \in Uninstalls, Uninstall(cmd) PROVE IInv'
  <2>1. BeginWith(cmd, None, None, FALSE, "stop agent")
    BY <1>3 DEF Uninstall, Begin
  <2>2. cmd \in Commands /\ "stop agent" \in Steps
    BY DEF Commands, Steps, Scripts, Uninstalls
  <2>3. op' \in OpType /\ op'.at = "stop agent" /\ op'.cmd = cmd /\ op'.keys = None
    BY <1>3, <2>1, <2>2, BeginFacts DEF IInv
  <2>4. TypeOK'
    <3>1. HostOK'
      BY <1>3, <2>3, HostFacts DEF Uninstall, IInv, files, systemd, rest, HostOK, Released
    <3> QED BY <3>1, <2>3, TypeFacts
  <2>5. (StepsInv /\ FoundInv /\ ScriptInv /\ StartInv /\ RestartInv /\ KeysInv /\ StopInv)'
    BY <1>3, <2>3, DeploymentAssumption DEF Uninstall, IInv, StepsInv, FoundInv, ScriptInv,
       StartInv, RestartInv, KeysInv, StopInv, Past, Starts, Scripts, Uninstalls, files, systemd,
       rest
  <2> QED BY <2>4, <2>5 DEF IInv
<1>4. ASSUME NEW v \in Versions, AptInstall(v) PROVE IInv'
  <2>1. PICK l \in {"failed", "unpack", "prerm agent"} : BeginWith("apt install", v, None, FALSE, l)
                                                  /\ (l = "prerm agent" => pkg.status = "installed")
    BY <1>4 DEF AptInstall, Begin
  <2>2. "apt install" \in Commands /\ l \in Steps
    BY DEF Commands, Steps
  <2>3. op' \in OpType /\ op'.cmd = "apt install" /\ op'.keys = None /\ op'.at = l
    BY <2>1, <2>2, BeginFacts DEF IInv
  <2>4. TypeOK'
    <3>1. HostOK'
      BY <1>4, <2>3, HostFacts DEF AptInstall, IInv, files, systemd, rest, HostOK, Released
    <3> QED BY <3>1, <2>3, TypeFacts
  <2>5. (StepsInv /\ FoundInv /\ ScriptInv /\ StartInv /\ RestartInv /\ KeysInv /\ StopInv)'
    BY <1>4, <2>1, <2>3, DeploymentAssumption DEF AptInstall, IInv, StepsInv, FoundInv, ScriptInv,
       StartInv, RestartInv, KeysInv, StopInv, Past, Starts, Scripts, Uninstalls, files, systemd,
       rest
  <2> QED BY <2>4, <2>5 DEF IInv
<1>5. CASE DpkgConfigure
  <2>1. BeginWith("apt install", None, None, FALSE, "configure") /\ "apt install" \in Commands
        /\ "configure" \in Steps
    <3>1. BeginWith("apt install", None, None, FALSE, "configure")
      BY <1>5 DEF DpkgConfigure, Begin
    <3> QED BY <3>1 DEF Commands, Steps
  <2>2. op' \in OpType /\ op'.at = "configure" /\ op'.cmd = "apt install" /\ op'.keys = None
    BY <2>1, BeginFacts DEF IInv
  <2>3. TypeOK'
    <3>1. HostOK'
      BY <1>5, <2>2, HostFacts DEF DpkgConfigure, IInv, files, systemd, rest, HostOK, Released
    <3> QED BY <3>1, <2>2, TypeFacts
  <2>4. (StepsInv /\ FoundInv /\ ScriptInv /\ StartInv /\ RestartInv /\ KeysInv /\ StopInv)'
    BY <1>5, <2>2, DeploymentAssumption DEF DpkgConfigure, IInv,
       StepsInv, FoundInv, ScriptInv, StartInv, RestartInv, KeysInv, StopInv, Past, Starts,
       Scripts, Uninstalls, files, systemd, rest
  <2> QED BY <2>3, <2>4 DEF IInv
<1>6. CASE AptRemove
  <2>1. BeginWith("apt remove", None, None, FALSE, "prerm agent") /\ "apt remove" \in Commands
        /\ "prerm agent" \in Steps
    <3>1. BeginWith("apt remove", None, None, FALSE, "prerm agent")
      BY <1>6 DEF AptRemove, Begin
    <3> QED BY <3>1 DEF Commands, Steps
  <2>2. op' \in OpType /\ op'.at = "prerm agent" /\ op'.cmd = "apt remove" /\ op'.keys = None
    BY <2>1, BeginFacts DEF IInv
  <2>3. TypeOK'
    <3>1. HostOK'
      BY <1>6, <2>2, HostFacts DEF AptRemove, IInv, files, systemd, rest, HostOK, Released
    <3> QED BY <3>1, <2>2, TypeFacts
  <2>4. (StepsInv /\ FoundInv /\ ScriptInv /\ StartInv /\ RestartInv /\ KeysInv /\ StopInv)'
    BY <1>6, <2>2, DeploymentAssumption DEF AptRemove, IInv,
       StepsInv, FoundInv, ScriptInv, StartInv, RestartInv, KeysInv, StopInv, Past, Starts,
       Scripts, Uninstalls, files, systemd, rest
  <2> QED BY <2>3, <2>4 DEF IInv
<1>7. CASE AptPurge
  <2>1. BeginWith("apt purge", None, None, FALSE, "done") /\ "apt purge" \in Commands
        /\ "done" \in Steps
    <3>1. BeginWith("apt purge", None, None, FALSE, "done")
      BY <1>7 DEF AptPurge, Begin
    <3> QED BY <3>1 DEF Commands, Steps
  <2>2. op' \in OpType /\ op'.at = "done" /\ op'.cmd = "apt purge" /\ op'.keys = None
    BY <2>1, BeginFacts DEF IInv
  <2>3. TypeOK'
    <3>1. HostOK'
      BY <1>7, <2>2, HostFacts DEF AptPurge, IInv, files, systemd, rest, HostOK, Released
    <3> QED BY <3>1, <2>2, TypeFacts
  <2>4. (StepsInv /\ FoundInv /\ ScriptInv /\ StartInv /\ RestartInv /\ KeysInv /\ StopInv)'
    BY <1>7, <2>2, DeploymentAssumption DEF AptPurge, IInv,
       StepsInv, FoundInv, ScriptInv, StartInv, RestartInv, KeysInv, StopInv, Past, Starts,
       Scripts, Uninstalls, files, systemd, rest
  <2> QED BY <2>3, <2>4 DEF IInv
<1>8. ASSUME NEW u \in Units, Disables(u) PROVE IInv'
  <2>1. BeginWith("disable", None, None, FALSE, "done") /\ "disable" \in Commands
        /\ "done" \in Steps
    <3>1. BeginWith("disable", None, None, FALSE, "done")
      BY <1>8 DEF Disables, Begin
    <3> QED BY <3>1 DEF Commands, Steps
  <2>2. op' \in OpType /\ op'.at = "done" /\ op'.cmd = "disable" /\ op'.keys = None
    BY <2>1, BeginFacts DEF IInv
  <2>3. loaded' \in Keys \cup {None, Mixed}
    BY <1>8, LoadsFacts DEF Disables, IInv
  <2>4. TypeOK'
    <3>1. HostOK'
      BY <1>8, <2>2, <2>3, HostFacts DEF Disables, Stopped, IInv, files, systemd, rest, HostOK,
         Released
    <3> QED BY <3>1, <2>2, TypeFacts
  <2>5. (StepsInv /\ FoundInv /\ ScriptInv /\ StartInv /\ RestartInv /\ KeysInv /\ StopInv)'
    BY <1>8, <2>2, <2>3, DeploymentAssumption DEF Disables, Stopped, IInv, TypeOK, StepsInv,
       FoundInv, ScriptInv, StartInv, RestartInv, KeysInv, StopInv, Past,
       Starts, Scripts, Uninstalls, files, systemd, rest
  <2> QED BY <2>4, <2>5 DEF IInv
<1> QED BY <1>1, <1>2, <1>3, <1>4, <1>5, <1>6, <1>7, <1>8

\* A step that fails, or a reboot under a command, leaves nothing to show.
LEMMA FailsStep == ASSUME IInv, Fails PROVE IInv'
<1>1. op' \in OpType /\ op'.at = "failed" /\ op'.cmd = op.cmd /\ op'.ver = op.ver
      /\ op'.keys = op.keys
  BY GoFacts DEF Fails, Steps, IInv
<1>2. /\ src' \in {src, Mixed, None} /\ venv' \in {venv, Mixed, None}
      /\ (src' # None => dir') /\ (dir => dir')
      /\ (venv' # None => dir \/ venv # None)
  <2>1. CASE At("sync")
    BY <2>1 DEF Fails, IInv, FoundInv, At
  <2>2. CASE At("remove dir")
    BY <2>2 DEF Fails, Remains, At
  <2>3. CASE ~At("sync") /\ ~At("remove dir")
    BY <2>3 DEF Fails, At
  <2> QED BY <2>1, <2>2, <2>3
<1>3. unit' \in [Units -> BOOLEAN]
  BY DEF Fails, IInv, TypeOK
<1>4. TypeOK'
  <2>1. HostOK'
    <3>1. dir' \in BOOLEAN
      BY DEF Fails
    <3>2. HostOK
      BY HostFacts DEF IInv
    <3>3. /\ src' \in Released \cup {None} /\ venv' \in Released \cup {None}
          /\ (src' # None \/ venv' # None) => dir'
      BY <1>2, <3>2 DEF HostOK, Released
    <3>4. UNCHANGED <<enabled, running, loaded, account, pkg, env>>
      BY DEF Fails, rest
    <3> QED BY <3>1, <3>2, <3>3, <3>4, <1>3 DEF HostOK
  <2> QED BY <2>1, <1>1, TypeFacts
<1>5. (StepsInv /\ FoundInv /\ ScriptInv /\ StartInv /\ RestartInv /\ KeysInv /\ StopInv)'
  BY <1>1 DEF Fails, IInv, StepsInv, FoundInv, ScriptInv, StartInv, RestartInv, KeysInv, StopInv,
     Past, Starts, Scripts, Uninstalls, rest
<1> QED BY <1>4, <1>5 DEF IInv

\* A unit fails or is started again, whatever command runs or ran last.
LEMMA UnitsStep == ASSUME IInv, NEW u \in Units, UnitFails(u) \/ UnitRestarts(u) PROVE IInv'
<1>1. CASE UnitFails(u)
  <2>1. loaded' \in Keys \cup {None, Mixed}
    BY <1>1, LoadsFacts DEF UnitFails, IInv
  <2>2. TypeOK'
    BY <1>1, <2>1 DEF UnitFails, IInv, TypeOK, OpType, files, rest
  <2>3. \A w \in Units : running'[w] = running[w] \/ (running'[w] = Waiting /\ unit[w])
        \/ (running'[w] = None /\ ~unit[w])
    BY <1>1 DEF UnitFails, IInv, TypeOK
  <2>4. \A w \in Units : running[w] = None => running'[w] = None
    BY <1>1 DEF UnitFails, IInv, TypeOK, Active
  <2>5. running'["agent"] \notin {None, Waiting} => loaded' = loaded
    BY <1>1, <2>3 DEF UnitFails, Loads, Active, Units
  <2>6. (StepsInv /\ FoundInv /\ ScriptInv)'
    BY <1>1 DEF UnitFails, IInv, StepsInv, FoundInv, ScriptInv, Past, files, rest
  <2>7. (StartInv /\ StopInv)'
    BY <1>1, <2>3, <2>4, DeploymentAssumption DEF UnitFails, IInv, Units, StartInv, ScriptInv,
       StopInv, Past, Starts, Scripts, files, rest
  <2>8. (RestartInv /\ KeysInv)'
    BY <1>1, <2>3, <2>5 DEF UnitFails, IInv, Active, Units, RestartInv, KeysInv, Past, Starts,
       files, rest
  <2> QED BY <2>2, <2>6, <2>7, <2>8 DEF IInv
<1>2. CASE UnitRestarts(u)
  <2>1. loaded' \in Keys \cup {None, Mixed}
    BY <1>2, LoadsFacts DEF UnitRestarts, IInv
  <2>2. /\ running' \in [Units -> Released \cup {None, Waiting}]
        /\ \A w \in Units : running[w] # None => running'[w] # None
        /\ \A w \in Units : running'[w] = running[w] \/ (running'[w] = Up /\ ~Active(w))
    BY <1>2, StartedFacts DEF UnitRestarts, IInv
  <2>3. TypeOK'
    BY <1>2, <2>1, <2>2 DEF UnitRestarts, IInv, TypeOK, OpType, files, rest, Released
  <2>4. running["agent"] = None => running'["agent"] = None
    BY <1>2, DeploymentAssumption DEF UnitRestarts, Started, Units, IInv, TypeOK
  <2>5. running'["agent"] \notin {None, Waiting} => loaded' \in {env, loaded}
        /\ (~Active("agent") => loaded' = env)
    BY <1>2 DEF UnitRestarts, Loads
  <2>6. op.cmd = "upgrade" /\ Past({"restart agent", "verify"}) => Up \in {op.ver, Waiting}
    BY UpRuns DEF IInv, ScriptInv, Past, Starts, Scripts
  <2>7. (StepsInv /\ FoundInv /\ ScriptInv)'
    BY <1>2 DEF UnitRestarts, IInv, StepsInv, FoundInv, ScriptInv, Past, files, rest
  <2>8. StartInv'
    BY <1>2, <2>2 DEF UnitRestarts, IInv, Units, StartInv, Past
  <2>9. RestartInv'
    BY <1>2, <2>2, <2>6 DEF UnitRestarts, IInv, Units, Active, RestartInv, Past, Scripts, files,
       rest
  <2>10. KeysInv'
    BY <1>2, <2>5 DEF UnitRestarts, IInv, Active, KeysInv, Past, Starts, files, rest
  <2>11. StopInv'
    BY <1>2, <2>4, DeploymentAssumption DEF UnitRestarts, IInv, Units, StopInv, files, rest
  <2> QED BY <2>3, <2>7, <2>8, <2>9, <2>10, <2>11 DEF IInv
<1> QED BY <1>1, <1>2

\* The host reboots: what is enabled, and what the agent wants, is started again.
LEMMA RebootStep == ASSUME IInv, Reboot PROVE IInv'
<1>1. /\ op' \in OpType /\ op'.at \in {"done", "failed"} /\ (op'.at = "done" => op.at = "done")
      /\ op'.cmd = op.cmd /\ op'.ver = op.ver /\ op'.keys = op.keys
  <2>1. (IF Idle THEN op.at ELSE "failed") \in Steps
    BY DEF IInv, TypeOK, Steps
  <2> QED BY <2>1, GoFacts DEF Reboot, Idle, IInv
<1>2. loaded' \in Keys \cup {None, Mixed}
  BY LoadsFacts DEF Reboot, IInv
<1>3. /\ running' \in [Units -> Released \cup {None, Waiting}]
      /\ \A u \in Units : running'[u] \in {None, Up}
      /\ \A u \in Units : unit[u] /\ enabled[u] => running'[u] = Up
      /\ \A u \in Units : ~unit[u] => running'[u] = None
  BY UpFacts DEF Reboot, IInv
<1>4. TypeOK'
  <2>1. HostOK'
    BY <1>1, <1>2, <1>3, HostFacts DEF Reboot, IInv, files, rest, Released, HostOK
  <2> QED BY <2>1, <1>1, TypeFacts
<1>5. running'["agent"] \notin {None, Waiting} => loaded' = env
  BY DEF Reboot, Loads
<1>6. Up # None /\ (op.cmd = "upgrade" /\ op.at = "done" => Up \in {op.ver, Waiting})
  BY UpFacts, UpRuns, DeploymentAssumption DEF IInv, ScriptInv, Past, Scripts, Released
<1>7. (StepsInv /\ FoundInv /\ ScriptInv)'
  BY <1>1 DEF Reboot, IInv, StepsInv, FoundInv, ScriptInv, Past, Starts, files, rest
<1>8. (StartInv /\ StopInv)'
  BY <1>1, <1>3, <1>6 DEF Reboot, IInv, Units, ScriptInv, StartInv, StopInv, Past, Scripts,
     Uninstalls, files, rest
<1>9. (RestartInv /\ KeysInv)'
  BY <1>1, <1>3, <1>5, <1>6 DEF Reboot, IInv, Units, Active, RestartInv, KeysInv, Past, Starts,
     files, rest
<1> QED BY <1>4, <1>7, <1>8, <1>9 DEF IInv

-----------------------------------------------------------------------------
(* The specification.                                                      *)

LEMMA InitIInv == Init => IInv
<1> SUFFICES ASSUME Init PROVE IInv
  OBVIOUS
<1>1. TypeOK
  BY DEF Init, TypeOK, Units, Commands, Steps
<1> QED
  BY <1>1 DEF Init, IInv, StepsInv, FoundInv, ScriptInv, StartInv, RestartInv, KeysInv, StopInv,
     Past, Starts, Scripts, Uninstalls

LEMMA Preserved == IInv /\ [Next]_vars => IInv'
<1> SUFFICES ASSUME IInv, [Next]_vars PROVE IInv'
  OBVIOUS
<1>1. CASE UNCHANGED vars
  <2>1. TypeOK'
    BY <1>1 DEF vars, files, systemd, rest, IInv, TypeOK
  <2>2. (StepsInv /\ FoundInv)'
    BY <1>1 DEF vars, files, systemd, rest, IInv, StepsInv, FoundInv
  <2>3. (ScriptInv /\ StartInv /\ StopInv)'
    BY <1>1 DEF vars, files, systemd, rest, IInv, ScriptInv, StartInv, StopInv, Past
  <2>4. (RestartInv /\ KeysInv)'
    BY <1>1 DEF vars, files, systemd, rest, IInv, RestartInv, KeysInv, Past, Active
  <2> QED BY <2>1, <2>2, <2>3, <2>4 DEF IInv
<1>2. CASE Reboot \/ Fails
  BY <1>2, RebootStep, FailsStep
<1>3. ASSUME NEW u \in Units, UnitFails(u) \/ UnitRestarts(u) \/ Disables(u) PROVE IInv'
  BY <1>3, UnitsStep, BeginStep
<1>4. ASSUME NEW v \in Versions, AptInstall(v) PROVE IInv'
  BY <1>4, BeginStep
<1>5. ASSUME NEW v \in Versions, NEW cmd \in Scripts,
             Script(cmd, v) \/ \E keys \in Keys \cup {None} : RemoteScript(cmd, v, keys) PROVE IInv'
  BY <1>5, BeginStep
<1>6. ASSUME NEW cmd \in Uninstalls, Uninstall(cmd) PROVE IInv'
  BY <1>6, BeginStep
<1>7. CASE DpkgConfigure \/ AptRemove \/ AptPurge
  BY <1>7, BeginStep
<1>8. CASE Push \/ TruncateEnv \/ WriteEnv \/ Guard \/ Mkdir \/ EnsureServiceUser \/ Stage
      \/ UvSync \/ CopyUnits
  BY <1>8, FilesStep
<1>9. CASE EnableMcp \/ EnableAgent \/ RestartMcp \/ RestartAgent \/ Verify
  BY <1>9, StartStep
<1>10. CASE StopAgent \/ StopMcp \/ Disable \/ RemoveUnits \/ RemoveDir
  BY <1>10, UninstallStep
<1>11. CASE PrermAgent \/ PrermMcp \/ Unpack \/ Configure \/ PostinstMcp \/ PostinstAgent \/ Delete
  BY <1>11, PackageStep
<1> QED
  BY <1>1, <1>2, <1>3, <1>4, <1>5, <1>6, <1>7, <1>8, <1>9, <1>10, <1>11 DEF Next, Scripts,
     Uninstalls

LEMMA Invariance == Spec => []IInv
BY InitIInv, Preserved, PTL DEF Spec

\* Type correctness, with what ties the files to their directory and the status
\* of the package to its having been configured.
THEOREM TypeCorrect == Spec => []TypeOK
<1>1. IInv => TypeOK
  BY DEF IInv
<1> QED BY <1>1, Invariance, PTL

\* An install that reports success has made the host whole, whatever the commands
\* before it left half done, and it stays so until another command begins.
THEOREM InstallsConverge == Spec => []InstallConverges
<1>1. IInv => InstallConverges
  BY DEF IInv, ScriptInv, StartInv, Past, Scripts, Starts, InstallConverges, Done, Units
<1> QED BY <1>1, Invariance, PTL

\* After an upgrade that reports success no unit runs anything but the new
\* release, also one that crashed while files were replaced or crashes later.
THEOREM UpgradesComplete == Spec => []UpgradeComplete
<1>1. IInv => UpgradeComplete
  BY DEF IInv, ScriptInv, RestartInv, Past, Scripts, Starts, UpgradeComplete, Done, Units
<1> QED BY <1>1, Invariance, PTL

\* After an uninstall nothing runs, is enabled or can be started by a reboot.
THEOREM UninstallsStop == Spec => []UninstallStops
<1>1. IInv => UninstallStops
  BY DEF IInv, StopInv, Uninstalls, UninstallStops, Done, Units
<1> QED BY <1>1, Invariance, PTL

\* The agent that runs after an upgrade from the operator's machine has its keys.
THEOREM KeysReach == Spec => []KeysReachAgent
<1>1. IInv => KeysReachAgent
  BY DEF IInv, KeysInv, Past, Scripts, Starts, KeysReachAgent, Done
<1> QED BY <1>1, Invariance, PTL

\* Only postinst reaches its second unit, and nothing but a reboot, which ends it,
\* stops the first one then.
LEMMA FirstStep == ASSUME TypeOK, FirstInv, [Next]_vars PROVE FirstInv'
<1> SUFFICES ASSUME op'.at = "postinst agent", ~pkg'.configured
             PROVE  unit'["mcp"] /\ enabled'["mcp"] /\ running'["mcp"] # None
  BY DEF FirstInv
<1>1. CASE PostinstMcp
  <2>1. ~pkg.configured /\ unit["mcp"] /\ UNCHANGED unit
    BY <1>1, GoFacts DEF PostinstMcp, Postinst, Steps
  <2>2. enabled' = [enabled EXCEPT !["mcp"] = TRUE] /\ running' = Started("mcp")
    BY <1>1, <2>1 DEF PostinstMcp, Postinst
  <2> QED BY <2>1, <2>2, StartedFacts DEF TypeOK, Units
<1>2. ASSUME NEW u \in Units, UnitFails(u) \/ UnitRestarts(u)
      PROVE  unit'["mcp"] /\ enabled'["mcp"] /\ running'["mcp"] # None
  <2>1. UNCHANGED <<unit, enabled, pkg, op>>
    BY <1>2 DEF UnitFails, UnitRestarts, rest
  <2>2. CASE UnitFails(u)
    BY <2>1, <2>2, DeploymentAssumption DEF UnitFails, FirstInv, TypeOK, Units
  <2>3. CASE UnitRestarts(u)
    BY <2>1, <2>3, StartedFacts DEF UnitRestarts, FirstInv, Units
  <2> QED BY <1>2, <2>2, <2>3
<1>3. CASE UNCHANGED vars
  BY <1>3 DEF vars, systemd, rest, FirstInv
<1>4. ~(Fails \/ Reboot)
  BY GoFacts DEF Fails, Reboot, Idle, Steps
<1>5. \A cmd, v, keys, remote : \A first \in Steps \ {"postinst agent"} :
        ~BeginWith(cmd, v, keys, remote, first)
  <2>1. ASSUME NEW cmd, NEW v, NEW keys, NEW remote, NEW first \in Steps,
               BeginWith(cmd, v, keys, remote, first)
        PROVE  op'.at = first
    BY <2>1 DEF BeginWith
  <2> QED BY <2>1
<1>6. ~(DpkgConfigure \/ AptRemove \/ AptPurge) /\ \A u \in Units : ~Disables(u)
  BY <1>5 DEF DpkgConfigure, AptRemove, AptPurge, Disables, Begin, Steps
<1>7. \A v \in Versions : ~AptInstall(v)
  BY <1>5 DEF AptInstall, Begin, Steps
<1>8. \A cmd : ~Uninstall(cmd) /\ \A v : ~Script(cmd, v) /\ \A keys : ~RemoteScript(cmd, v, keys)
  BY <1>5 DEF Script, RemoteScript, Uninstall, Begin, Steps
<1>9. ~(Push \/ TruncateEnv \/ WriteEnv \/ Guard \/ Mkdir \/ EnsureServiceUser \/ Stage \/ UvSync
        \/ CopyUnits)
  BY GoFacts DEF Push, TruncateEnv, WriteEnv, Guard, Mkdir, EnsureServiceUser, Stage, UvSync,
     CopyUnits, Steps
<1>10. ~(EnableMcp \/ EnableAgent \/ RestartMcp \/ RestartAgent \/ Verify)
  BY GoFacts DEF EnableMcp, EnableAgent, EnableNow, RestartMcp, RestartAgent, Verify, Steps
<1>11. ~(StopAgent \/ StopMcp \/ Disable \/ RemoveUnits \/ RemoveDir)
  BY GoFacts DEF StopAgent, StopMcp, Disable, RemoveUnits, RemoveDir, Steps
<1>12. ~(PrermAgent \/ PrermMcp \/ Unpack \/ Configure \/ PostinstAgent \/ Delete)
  BY GoFacts DEF PrermAgent, PrermMcp, Prerm, Unpack, Configure, PostinstAgent, Postinst, Delete,
     Steps
<1> QED
  BY <1>1, <1>2, <1>3, <1>4, <1>6, <1>7, <1>8, <1>9, <1>10, <1>11, <1>12 DEF Next

\* The first configuration of the package that succeeds has enabled and started both
\* units, also after configurations that failed.
THEOREM FirstConfigurations == Spec => FirstConfigurationServes
<1>1. Init => FirstInv
  BY DEF Init, FirstInv
<1>2. Spec => [](TypeOK /\ FirstInv)
  BY <1>1, FirstStep, TypeCorrect, PTL DEF Spec
<1>3. ASSUME TypeOK, FirstInv, [Next]_vars, ~pkg.configured, pkg'.configured
      PROVE  \A u \in Units : enabled'[u] /\ running'[u] # None
  <2>1. UNCHANGED pkg \/ Unpack \/ Delete \/ AptPurge \/ PostinstMcp \/ PostinstAgent
    BY <1>3 DEF Next, vars, rest, UnitFails, UnitRestarts, Disables, Reboot, Fails, AptInstall,
       Script, RemoteScript, Uninstall, DpkgConfigure, AptRemove, Push, TruncateEnv, WriteEnv,
       Guard, Mkdir, EnsureServiceUser, Stage, UvSync, CopyUnits, EnableMcp, EnableAgent,
       EnableNow, RestartMcp, RestartAgent, Verify, StopAgent, StopMcp, Disable, RemoveUnits,
       RemoveDir, PrermAgent, PrermMcp, Prerm, Configure
  <2>2. PostinstAgent
    BY <1>3, <2>1 DEF Unpack, Delete, AptPurge, PostinstMcp, Postinst, TypeOK
  <2>3. enabled' = [enabled EXCEPT !["agent"] = TRUE] /\ running' = Started("agent")
    BY <1>3, <2>2 DEF PostinstAgent, Postinst
  <2>4. enabled["mcp"] /\ running["mcp"] # None
    BY <1>3, <2>2 DEF PostinstAgent, At, FirstInv
  <2> QED BY <1>3, <2>3, <2>4, StartedFacts DEF TypeOK, Units
<1> QED BY <1>2, <1>3, PTL DEF FirstConfigurationServes, Spec

=============================================================================
