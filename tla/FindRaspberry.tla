---------------------------- MODULE FindRaspberry ----------------------------
(***************************************************************************)
(* tools/find_raspberry.py on the operator's machine: it reads .env, takes  *)
(* names and networks from it, probes every address in parallel, orders    *)
(* what answers, selects a host and rewrites .env with it.  The operator   *)
(* edits the same file, and scripts/remote-install.sh reads it with a      *)
(* parser of its own.  An address is a number; a line of .env has a key, a *)
(* form and a value, and lines that assign nothing are left out.           *)
(***************************************************************************)
EXTENDS Integers, FiniteSets, SequencesExt

CONSTANTS Machines,    \* the addresses where something may listen on the SSH port
          Cidrs,       \* networks, as first address and size, of --subnet or .env
          Scannable,   \* the addresses that is_scan_candidate_ip lets pass
          MaxHosts,    \* --max-hosts
          Defaults,    \* DEFAULT_HOSTNAMES, a sequence
          Others,      \* other host names
          Options,     \* the sequences of names that --hostname may give
          Likely,      \* names that give a candidate the confidence "medium"
          Ip,          \* [Machines -> STRING], the value that names a machine
          Files,       \* the files the operator may save
          MaxSaves     \* bound on the saves while the tool runs

Names == ToSet(Defaults) \union Others
NoName == "no name"
Updated == {"RPI_SSH_HOST", "RPI_MCP_HOST"}  \* of the four, those a name is read from
Absent == "absent"
Cut == "cut"

\* Forms of a line: KEY=..., "export KEY=...", the same with a tab for the blank,
\* and a comment.
PythonForms == {"plain", "export"}
BashForms == PythonForms \union {"tab"}
Lines == [key : STRING, form : BashForms \union {"comment"}, val : STRING]

ASSUME FindAssumption ==
    /\ Machines \subseteq Nat
    /\ IsFiniteSet(Cidrs) /\ Cidrs \subseteq [first : Nat, size : Nat \ {0}]
    /\ MaxHosts \in Int
    /\ NoName \notin Names
    /\ Ip \in [Machines -> STRING \ {Absent}]
    /\ Options \subseteq Seq(Names)
    /\ Files \subseteq Seq(Lines)

VARIABLES
    at,       \* where main() is
    env,      \* the lines of .env
    nets,     \* the networks of this run
    scanned,  \* the addresses of theirs that it probes
    named,    \* hostname_sources: the name of each machine, or NoName
    todo,     \* probes that have not completed
    found,    \* candidates in the order their probes completed
    macs,     \* machines that the arp cache shows with a Raspberry Pi address
    merged,   \* the candidates in the order of the report
    chosen,   \* the value written into .env, or Absent
    buf,      \* the lines upsert_env is about to write
    saved,    \* what the operator saved last
    spoiled,  \* a write was cut short, or an edit was saved during the rewriting
    saves     \* edits so far

vars == <<at, env, nets, scanned, named, todo, found, macs, merged, chosen, buf,
          saved, spoiled, saves>>

scan == <<nets, scanned, named, todo, found, macs, merged>>
file == <<env, buf, saved, spoiled, saves>>

-----------------------------------------------------------------------------
(* The two parsers of .env.                                                *)

Matches(f, k, forms) == {n \in DOMAIN f : f[n].key = k /\ f[n].form \in forms}

\* parse_env fills a dictionary: the last assignment counts.
ParseEnv(f, k) ==
    LET hits == Matches(f, k, PythonForms)
    IN  IF hits = {} THEN Absent ELSE f[Max(hits)].val

\* read_env_value of remote-install.sh returns the first one.
ReadEnvValue(f, k) ==
    LET hits == Matches(f, k, BashForms)
    IN  IF hits = {} THEN Absent ELSE f[Min(hits)].val

Missing(f) == {k \in Updated : Matches(f, k, PythonForms) = {}}

Appended(f, v) ==
    LET keys == SetToSeq(Missing(f))
    IN  [n \in DOMAIN keys |-> [key |-> keys[n], form |-> "plain", val |-> v]]

\* Mutant: only the first line of a key is replaced.
UpsertFirst(f, v) ==
    [n \in DOMAIN f |->
        IF \E k \in Updated \ Missing(f) : n = Min(Matches(f, k, PythonForms))
        THEN [f[n] EXCEPT !.val = v] ELSE f[n]] \o Appended(f, v)

\* Mutant: the file is written again from what was recognised in it.
UpsertRecognised(f, v) ==
    LET g == SelectSeq(f, LAMBDA line : line.form \in PythonForms)
    IN  [n \in DOMAIN g |->
            IF g[n].key \in Updated THEN [g[n] EXCEPT !.val = v] ELSE g[n]] \o Appended(f, v)

\* upsert_env replaces every line it recognises and appends the keys it missed.
Upsert(f, v) ==
    [n \in DOMAIN f |->
        IF f[n].key \in Updated /\ f[n].form \in PythonForms
        THEN [f[n] EXCEPT !.val = v] ELSE f[n]] \o Appended(f, v)

-----------------------------------------------------------------------------
(* What is probed.                                                         *)

\* sorted() of distinct items, by the pairs of a strict order: at n stands the one
\* that n - 1 others come before.
Sorted(s, order) ==
    LET rank(i) == Cardinality({j \in DOMAIN s : <<s[j], s[i]>> \in order})
    IN  [n \in DOMAIN s |-> s[CHOOSE i \in DOMAIN s : rank(i) = n - 1]]

\* IPv4Network.hosts() leaves out the first and the last address of a network.
Hosts(net) ==
    IF net.size <= 2 THEN [n \in 1..net.size |-> net.first + n - 1]
                     ELSE [n \in 1..(net.size - 2) |-> net.first + n]

Before(m, n) == m.first < n.first \/ (m.first = n.first /\ m.size > n.size)
NetOrder(networks) == {p \in networks \X networks : Before(p[1], p[2])}

Full(ips) == ips # <<>> /\ Len(ips) >= MaxHosts

\* Mutant: an address in two networks is taken twice.
TakeAgain(ips, a) == IF Full(ips) \/ a \notin Scannable THEN ips ELSE Append(ips, a)

\* One round of the loop, which looks at the cap after it has appended.
Take(ips, a) ==
    IF Full(ips) \/ a \notin Scannable \/ Contains(ips, a) THEN ips ELSE Append(ips, a)

IterScanIps(networks) ==
    FoldLeft(LAMBDA ips, net : FoldLeft(Take, ips, Hosts(net)),
             <<>>, Sorted(SetToSeq(networks), NetOrder(networks)))

\* The names to resolve: those given, then those of the file, each once.
HostNames(f, given) ==
    FoldLeft(LAMBDA s, v : IF v \in Names /\ ~Contains(s, v) THEN Append(s, v) ELSE s,
             <<>>, given \o <<ParseEnv(f, "RPI_SSH_HOST"), ParseEnv(f, "RPI_MCP_HOST")>>)

\* Of several names of a machine the last one counts.
ResolveHostnames(s, answer) ==
    [m \in Machines |->
        LET hits == {n \in DOMAIN s : m \in answer[s[n]]}
        IN  IF hits = {} THEN NoName ELSE s[Max(hits)]]

Named(names) == {m \in Machines : names[m] # NoName}

-----------------------------------------------------------------------------
(* The order of the report and the selection.                              *)

Confident(m, pis) == m \in pis \/ named[m] \in Likely

\* Mutant: the report keeps the order in which the probes completed.
MergeUnsorted(s, pis) == s

\* A Raspberry Pi address first, then a name, then the IP address.
Ahead(m, n, pis) ==
    LET rank(k) == (IF k \in pis THEN 0 ELSE 2) + (IF named[k] # NoName THEN 0 ELSE 1)
    IN  rank(m) < rank(n) \/ (rank(m) = rank(n) /\ m < n)

ReportOrder(pis, hosts) == {p \in hosts \X hosts : Ahead(p[1], p[2], pis)}

MergeCandidates(s, pis) == Sorted(s, ReportOrder(pis, ToSet(s)))

\* The machine that --update-env writes: the only candidate, or the only likely one.
Single(m) ==
    LET confident == {n \in ToSet(merged) : Confident(n, macs)}
    IN  {m} = IF Len(merged) = 1 THEN ToSet(merged) ELSE confident

\* What print_table suggests: the first likely candidate of the report.
Suggested(s, pis) ==
    LET confident == {n \in DOMAIN s : Confident(s[n], pis)}
    IN  IF confident = {} THEN Absent ELSE Ip[s[Min(confident)]]

-----------------------------------------------------------------------------
(* A run.                                                                  *)

Init ==
    /\ at = "over"
    /\ nets = {} /\ scanned = {} /\ todo = {} /\ macs = {}
    /\ named = [m \in Machines |-> NoName]
    /\ found = <<>> /\ merged = <<>>
    /\ env \in Files /\ saved = env
    /\ buf = <<>>
    /\ chosen = Absent
    /\ spoiled = FALSE
    /\ saves = 0

\* What main() looked up is of no use any more.
Forget ==
    /\ nets' = {} /\ scanned' = {} /\ todo' = {} /\ macs' = {}
    /\ named' = [m \in Machines |-> NoName]
    /\ found' = <<>> /\ merged' = <<>>

\* The file is read once, the names are resolved and the networks enumerated.
Begin ==
    /\ at = "over"
    /\ chosen' = Absent
    /\ nets' \in SUBSET Cidrs
    /\ scanned' = ToSet(IterScanIps(nets'))
    \* with --no-default-hostnames or without, and with --hostname
    /\ \E first \in {<<>>, Defaults}, more \in Options, answer \in [Names -> SUBSET Machines] :
          named' = ResolveHostnames(HostNames(env, first \o more), answer)
    /\ todo' = Machines \intersect (scanned' \union Named(named'))
    /\ at' = IF scanned' \union Named(named') = {} THEN "over" ELSE "scan"
    /\ UNCHANGED <<found, macs, merged, file>>

\* as_completed: the probes end in any order; a machine may not listen.  From here
\* on the networks are of no use but to be printed.
Probe(m) ==
    /\ at = "scan"
    /\ m \in todo
    /\ todo' = todo \ {m}
    /\ found' \in {found, Append(found, m)}
    /\ nets' = {} /\ scanned' = {}
    /\ UNCHANGED <<at, named, macs, merged, chosen, file>>

\* The arp cache is read after the scan; only what answered is looked up in it.
Merge ==
    /\ at = "scan"
    /\ todo = {}
    /\ at' = "report"
    /\ nets' = {} /\ scanned' = {}
    /\ macs' \in SUBSET ToSet(found)
    /\ merged' = MergeCandidates(found, macs')
    /\ UNCHANGED <<named, todo, found, chosen, file>>

\* Without --update-env, or with no candidate that may be written.
ReportOnly ==
    /\ at = "report"
    /\ at' = "over"
    /\ Forget
    /\ UNCHANGED <<chosen, file>>

\* --select names a candidate, or there is a single one.
Select(m) ==
    /\ at = "report"
    /\ m \in ToSet(merged) \/ Single(m)
    /\ at' = "update"
    /\ chosen' = Ip[m]
    /\ Forget
    /\ UNCHANGED file

\* upsert_env reads the file again,
ReadLines ==
    /\ at = "update"
    /\ at' = "write"
    /\ buf' = Upsert(env, chosen)
    /\ UNCHANGED <<scan, chosen, env, saved, spoiled, saves>>

\* and write_text truncates it before it writes.
Truncate ==
    /\ at = "write"
    /\ at' = "open"
    /\ env' = <<>>
    /\ UNCHANGED <<scan, chosen, buf, saved, spoiled, saves>>

\* A file that the operator saved in between is overwritten from its start, or,
\* replaced by the editor, not touched at all.
Overwritten(f) == {f} \union {buf \o SubSeq(f, n, Len(f)) : n \in 1..Len(f) + 1}

WriteText ==
    /\ at = "open"
    /\ at' = "over"
    /\ env' \in IF chosen = Absent THEN Overwritten(env) ELSE {buf}
    /\ buf' = <<>>
    /\ UNCHANGED <<scan, chosen, saved, spoiled, saves>>

\* Ctrl+C, a full disk, a crash: an open file keeps what was written, the last
\* line of it maybe in part.
Interrupt ==
    /\ at # "over"
    /\ at' = "over"
    /\ IF at = "open"
       THEN /\ spoiled' = TRUE
            /\ \/ UNCHANGED env
               \/ \E n \in 0..Len(buf) - 1 :
                    env' \in {SubSeq(buf, 1, n),
                              Append(SubSeq(buf, 1, n), [buf[n + 1] EXCEPT !.val = Cut])}
       ELSE UNCHANGED <<env, spoiled>>
    /\ chosen' = Absent /\ buf' = <<>> /\ Forget
    /\ UNCHANGED <<saved, saves>>

\* The operator saves the file, at any time: between ReadLines and Truncate the edit
\* is lost, and while the file is open the two writers mix.
Save(f) ==
    /\ saves < MaxSaves
    /\ saves' = saves + 1
    /\ env' = f /\ saved' = f
    /\ spoiled' = (at = "write" \/ at = "open")
    /\ chosen' = IF at \in {"over", "open"} THEN Absent ELSE chosen
    /\ UNCHANGED <<at, scan, buf>>

Next ==
    \/ Begin \/ Merge \/ ReportOnly \/ ReadLines \/ Truncate \/ WriteText \/ Interrupt
    \/ \E m \in Machines : Probe(m) \/ Select(m)
    \/ \E f \in Files : Save(f)

Spec == Init /\ [][Next]_vars

-----------------------------------------------------------------------------
(* Properties.                                                             *)

\* The addresses probed are the lowest candidates up to the cap, whatever
\* networks overlap (a cap below 1 counts as 1).  A first address that only a
\* network of one or two addresses has comes after the hosts of a wider one.
ScansLowest ==
    LET all == Scannable \intersect UNION {ToSet(Hosts(n)) : n \in nets}
        cap == Max({1, MaxHosts})
        before(a) == {b \in all : b < a}
        odd == {n.first : n \in {n \in nets : n.size <= 2}} \intersect
               {n.first : n \in {n \in nets : n.size > 2}}
    IN  at = "scan" /\ odd = {} => scanned = {a \in all : Cardinality(before(a)) < cap}

\* The report depends on which machines answered, not on the order in which they
\* did, and what is written without --select is what it suggests, if anything.
OrderIrrelevant ==
    at = "report" =>
        /\ \A s \in SetToSeqs(ToSet(found)) : MergeCandidates(s, macs) = merged
        /\ \A m \in ToSet(merged) :
             Single(m) => Suggested(merged, macs) \in {Ip[m], Absent}

\* After an update both readers of .env find the machine that was written, however
\* often the file had the keys; a line with a tab is one that only bash knows.
ReadersAgree ==
    at = "over" /\ chosen # Absent =>
        \A k \in Updated :
            /\ ParseEnv(env, k) = chosen
            /\ ReadEnvValue(env, k) = chosen \/ Matches(env, k, {"tab"}) # {}

\* The other keys read as the operator saved them last, edits made during a
\* scan included, unless a write was cut short or an edit came during it.
OthersKept ==
    at # "open" /\ ~spoiled =>
        \A k \in {line.key : line \in ToSet(saved)} \ Updated :
            /\ ParseEnv(env, k) = ParseEnv(saved, k)
            /\ ReadEnvValue(env, k) = ReadEnvValue(saved, k)
=============================================================================
