-------------------------------- MODULE Hosts --------------------------------
(***************************************************************************)
(* The hosts on which Codex may run.  Which there are, and which of them   *)
(* are enabled, is said by canonical files that the operator edits.  A     *)
(* registry file merges them with the health that the doctor found, and    *)
(* every process that wants a host first merges it again, under a lock     *)
(* made of a directory.  A bootstrap copies the parts a host needs, one    *)
(* after the other; the doctor looks whether they are there.               *)
(*                                                                         *)
(* The host of the gateway itself, the runs, and the path of codex that a  *)
(* bootstrap enters in the registry, where the next merge drops it, are    *)
(* left out; so is a registry without canonical files, which knows no host *)
(* but the gateway's.                                                      *)
(***************************************************************************)
EXTENDS Naturals, FiniteSets

CONSTANTS
    Procs,         \* commands that run at the same time
    Hosts,         \* hosts other than the gateway's
    MaxCommands,   \* bound on commands
    MaxEdits,      \* bound on edits of the canonical files and of the plugin,
                   \* and on contexts that become too old
    MaxFaults      \* bound on crashes, lost hosts and damage to the registry

VARIABLES
    canonical,  \* what the canonical files say of a host
    readable,   \* whether they can be read
    registry,   \* the entries in registry-state.toml: none, or one for each host
    damaged,    \* the file cannot be parsed
    lock,       \* the processes that believe to have made the lock directory
    made,       \* the lock directory is there
    job,        \* what a process does
    parts,      \* the parts on a host, and the version of the plugin they are for
    fresh,      \* the teledex-context of a host is not too old
    plugin,     \* the version of the plugin in the source tree
    last,       \* history: what was last entered of the health of a host
    known,      \* history: nothing was installed since the inspection entered
    shared,     \* history: two processes were in the lock
    commands, edits, faults

vars == <<canonical, readable, registry, damaged, lock, made, job, parts, fresh, plugin,
          last, known, shared, commands, edits, faults>>

operator == <<canonical, readable, plugin, edits>>
hosts == <<parts, fresh>>
history == <<last, known, shared>>

Parts == {"roots", "checkout", "plugin", "config", "auth", "codex"}

None == "none"

Nobody == [do |-> None, on |-> CHOOSE h \in Hosts : TRUE, at |-> "idle", in |-> "out",
           mine |-> {}, was |-> {}, found |-> None, still |-> TRUE, trust |-> 0]

NoEntry == [entry |-> "gone", health |-> "unknown"]

Offered(f, h) == f[h].entry = "on" /\ f[h].health = "ready"

(***************************************************************************)
(* The lock                                                                *)
(***************************************************************************)
Goes(p, change) == job' = [job EXCEPT ![p] = change]

Waits(p) == job[p].at \in {"list", "patch"} /\ job[p].in = "out"

Enter(p) ==
    /\ Waits(p) /\ ~made
    /\ made' = TRUE /\ lock' = lock \cup {p}
    /\ shared' = (shared \/ lock # {})
    /\ Goes(p, [job[p] EXCEPT !.in = "read"])
    /\ UNCHANGED <<operator, hosts, registry, damaged, last, known, commands, faults>>

\* The directory is older than two minutes: its maker died, or its machine was
\* suspended.  What is removed a moment later may be another one.
FindStale(p) ==
    /\ Waits(p) /\ made
    /\ IF lock = {} THEN UNCHANGED faults ELSE faults < MaxFaults /\ faults' = faults + 1
    /\ Goes(p, [job[p] EXCEPT !.in = "remove"])
    /\ UNCHANGED <<operator, hosts, history, registry, damaged, lock, made, commands>>

RemoveStale(p) ==
    /\ job[p].in = "remove"
    /\ made' = FALSE
    /\ Goes(p, [job[p] EXCEPT !.in = "out"])
    /\ UNCHANGED <<operator, hosts, history, registry, damaged, lock, commands, faults>>

\* After fifteen seconds.
GiveUp(p) ==
    /\ Waits(p) /\ made
    /\ Goes(p, Nobody)
    /\ UNCHANGED <<operator, hosts, history, registry, damaged, lock, made, commands, faults>>

Leave(p, change) == made' = FALSE /\ lock' = lock \ {p} /\ Goes(p, change)

(***************************************************************************)
(* The registry                                                            *)
(***************************************************************************)
\* A file that cannot be parsed is put aside, with the health it holds.
Read(p) ==
    /\ job[p].in = "read"
    /\ Goes(p, [job[p] EXCEPT !.in = "write", !.mine = IF damaged THEN {} ELSE registry])
    /\ IF damaged
         THEN registry' = {} /\ damaged' = FALSE /\ last' = [h \in Hosts |-> "unknown"]
         ELSE UNCHANGED <<registry, damaged, last>>
    /\ UNCHANGED <<operator, hosts, known, shared, lock, made, commands, faults>>

\* The hosts of the canonical files with the health of the file.
Merged(mine) ==
    {[h \in Hosts |->
        [entry |-> canonical[h],
         health |-> IF canonical[h] = "gone" \/ mine = {} THEN "unknown"
                    ELSE (CHOOSE f \in mine : TRUE)[h].health]]}

\* patchHost and upsertHostUnlocked: the entry as it was found first, with the
\* patch, is put over what the second merge gives, or made again.
Patched(p, entry) ==
    [entry |-> IF job[p].was # {} THEN (CHOOSE e \in job[p].was : TRUE).entry
               ELSE IF entry.entry = "gone" THEN "on" ELSE entry.entry,
     health |-> IF job[p].do = "doctor" THEN job[p].found
                ELSE IF job[p].was # {} THEN (CHOOSE e \in job[p].was : TRUE).health
                ELSE entry.health]

Entered(p, files) ==
    IF job[p].at = "put" THEN {[f EXCEPT ![job[p].on] = Patched(p, @)] : f \in files} ELSE files

\* What the canonical files are merged to, or the file as it is.
Loaded(p) == IF readable THEN Merged(job[p].mine) ELSE job[p].mine

\* The doctor and the sync insist on the canonical files; else the registry is
\* taken as it is, if there is one.
Fails(p) ==
    ~readable /\ (job[p].mine = {} \/ (job[p].at = "list" /\ job[p].do \in {"doctor", "sync"}))

\* What a command does with the hosts.
Onward(p) ==
    CASE job[p].at = "patch" ->
             [job[p] EXCEPT !.at = "put", !.in = "read",
                !.was = {f[job[p].on] : f \in Loaded(p)} \ {NoEntry}]
      [] job[p].at = "put" -> Nobody
      [] job[p].at = "list" /\ Loaded(p) # {} /\ job[p].do # "run"
           /\ \A f \in Loaded(p) : f[job[p].on].entry # "gone" ->
             [job[p] EXCEPT !.at = job[p].do, !.in = "out", !.mine = Loaded(p)]
      [] OTHER -> Nobody

Saved(p) ==
    /\ registry' = Entered(p, Loaded(p))
    /\ last' = [h \in Hosts |->
                  IF job[p].at = "put" /\ h = job[p].on
                    THEN IF job[p].do = "doctor" THEN job[p].found
                         ELSE (CHOOSE f \in registry' : TRUE)[h].health
                  ELSE IF \A f \in registry' : f[h] = NoEntry THEN "unknown" ELSE last[h]]
    /\ known' = IF job[p].at = "put" /\ job[p].do = "doctor"
                  THEN [known EXCEPT ![job[p].on] = job[p].still] ELSE known

Write(p) ==
    /\ job[p].in = "write"
    /\ IF Fails(p) THEN UNCHANGED <<registry, last, known>> ELSE Saved(p)
    /\ damaged' = FALSE
    /\ IF job[p].at = "patch" /\ ~Fails(p)
         THEN Goes(p, Onward(p)) /\ UNCHANGED <<lock, made>>
         ELSE Leave(p, IF Fails(p) THEN Nobody ELSE Onward(p))
    /\ UNCHANGED <<operator, hosts, shared, commands, faults>>

(***************************************************************************)
(* The doctor                                                              *)
(***************************************************************************)
There(h) == \A x \in Parts : parts[h][x] # 0

\* The hooks that the configuration trusts are those of the plugin.
Trusted(h) == parts[h]["config"] = parts[h]["plugin"]

\* Mutant: trust is not looked at.
Stands(h) == There(h) /\ fresh[h]

Passes(h) == There(h) /\ Trusted(h) /\ fresh[h]

\* The checks take one after the other; what is installed during them counts as
\* installed after them.
Inspect(p) ==
    /\ job[p].at = "doctor"
    /\ LET h == job[p].on
           enabled == \A f \in job[p].mine : f[h].entry = "on" IN
         \E reached \in {TRUE, FALSE} :
            Goes(p, [job[p] EXCEPT !.at = "patch", !.mine = {}, !.still = TRUE,
                        !.found = IF enabled /\ reached /\ Passes(h) THEN "ready" ELSE "failed"])
    /\ UNCHANGED <<operator, hosts, history, registry, damaged, lock, made, commands, faults>>

\* teledex-context is rendered and copied, unless the host is not enabled.
Sync(p) ==
    /\ job[p].at = "sync"
    /\ \E f \in job[p].mine :
          \/ f[job[p].on].entry = "on" /\ fresh' = [fresh EXCEPT ![job[p].on] = TRUE]
          \/ UNCHANGED fresh
    /\ Goes(p, Nobody)
    /\ UNCHANGED <<operator, history, registry, damaged, lock, made, parts, commands, faults>>

(***************************************************************************)
(* The bootstrap of a host                                                 *)
(***************************************************************************)
\* What was found before does not say any more what there is.
Changed(h) ==
    /\ known' = [known EXCEPT ![h] = FALSE]
    /\ UNCHANGED <<last, shared>>

Install(p, from, x, version, next) ==
    /\ job[p].at = from
    /\ LET h == job[p].on IN
         /\ parts' = [parts EXCEPT ![h][x] = version]
         /\ job' = [q \in Procs |->
                      IF q = p THEN [job[q] EXCEPT !.at = next, !.mine = {}]
                      ELSE [job[q] EXCEPT !.still = @ /\ job[q].on # h]]
         /\ Changed(h)
    /\ UNCHANGED <<operator, fresh, registry, damaged, lock, made, commands, faults>>

MakeRoots(p) == Install(p, "bootstrap", "roots", 1, "checkout")
SyncCheckout(p) == Install(p, "checkout", "checkout", 1, "plugin")
CopyPlugin(p) == Install(p, "plugin", "plugin", plugin, "trust")

\* The hooks to be trusted are found in the source tree, as it is now.
ReadTrust(p) ==
    /\ job[p].at = "trust"
    /\ Goes(p, [job[p] EXCEPT !.at = "config", !.trust = plugin])
    /\ UNCHANGED <<operator, hosts, history, registry, damaged, lock, made, commands, faults>>

CopyConfig(p) == Install(p, "config", "config", job[p].trust, "auth")
CopyAuth(p) == Install(p, "auth", "auth", 1, "codex")
InstallCodex(p) == Install(p, "codex", "codex", 1, "patch")

\* A step fails; what was copied stays.
Abandon(p) ==
    /\ job[p].at \in {"bootstrap", "checkout", "plugin", "trust", "config", "auth", "codex"}
    /\ faults < MaxFaults /\ faults' = faults + 1
    /\ Goes(p, Nobody)
    /\ UNCHANGED <<operator, hosts, history, registry, damaged, lock, made, commands>>

(***************************************************************************)
(* The operator, time and faults                                           *)
(***************************************************************************)
Start(p) ==
    /\ job[p].do = None /\ commands < MaxCommands
    /\ commands' = commands + 1
    /\ \E what \in {"doctor", "bootstrap", "sync", "run"}, h \in Hosts :
          Goes(p, [Nobody EXCEPT !.do = what, !.on = h, !.at = "list"])
    /\ UNCHANGED <<operator, hosts, history, registry, damaged, lock, made, faults>>

Edit ==
    /\ edits < MaxEdits /\ edits' = edits + 1
    /\ \/ /\ \E h \in Hosts, e \in {"on", "off", "gone"} : canonical' = [canonical EXCEPT ![h] = e]
          /\ UNCHANGED <<readable, plugin>>
       \/ readable' = ~readable /\ UNCHANGED <<canonical, plugin>>
       \/ plugin' = plugin + 1 /\ UNCHANGED <<canonical, readable>>
    /\ UNCHANGED <<hosts, history, registry, damaged, lock, made, job, commands, faults>>

Age(h) ==
    /\ fresh[h] /\ fresh' = [fresh EXCEPT ![h] = FALSE]
    /\ edits < MaxEdits /\ edits' = edits + 1
    /\ UNCHANGED <<canonical, readable, plugin, history, registry, damaged, lock, made, job, parts, commands, faults>>

Damage ==
    /\ faults < MaxFaults /\ faults' = faults + 1
    /\ registry # {} /\ damaged' = TRUE
    /\ UNCHANGED <<operator, hosts, history, registry, lock, made, job, commands>>

Crash(p) ==
    /\ job[p].do # None
    /\ faults < MaxFaults /\ faults' = faults + 1
    /\ lock' = lock \ {p}
    /\ Goes(p, Nobody)
    /\ UNCHANGED <<operator, hosts, history, registry, damaged, made, commands>>

(***************************************************************************)
(* Specification                                                           *)
(***************************************************************************)
Init ==
    /\ canonical = [h \in Hosts |-> "on"] /\ readable = TRUE
    /\ plugin = 2
    /\ \E n \in {0, 2}, config \in 0 .. 2 :
          /\ n = 0 => config = 0
          /\ parts = [h \in Hosts |-> [x \in Parts |-> IF x = "config" THEN config ELSE n]]
    /\ \/ registry = {} /\ last = [h \in Hosts |-> "unknown"]
       \/ /\ registry = {[h \in Hosts |-> [entry |-> "on", health |-> "ready"]]}
          /\ \A h \in Hosts : There(h) /\ Trusted(h)
          /\ last = [h \in Hosts |-> "ready"]
    /\ damaged = FALSE
    /\ lock = {} /\ made = FALSE /\ job = [p \in Procs |-> Nobody]
    /\ fresh = [h \in Hosts |-> TRUE]
    /\ known = [h \in Hosts |-> TRUE] /\ shared = FALSE
    /\ commands = 0 /\ edits = 0 /\ faults = 0

\* The bound on commands is reached.
Over == commands = MaxCommands /\ UNCHANGED vars

Next ==
    \/ \E p \in Procs :
          \/ Enter(p) \/ FindStale(p) \/ RemoveStale(p) \/ GiveUp(p) \/ Read(p) \/ Write(p)
          \/ Inspect(p) \/ Sync(p) \/ Start(p) \/ Crash(p)
          \/ MakeRoots(p) \/ SyncCheckout(p) \/ CopyPlugin(p) \/ ReadTrust(p) \/ CopyConfig(p)
          \/ CopyAuth(p) \/ InstallCodex(p) \/ Abandon(p)
    \/ Edit \/ Damage
    \/ \E h \in Hosts : Age(h)
    \/ Over

Spec == Init /\ [][Next]_vars

(***************************************************************************)
(* Properties                                                              *)
(***************************************************************************)
\* Unless two processes were in the lock, the health of a host is what was last
\* entered of it, and a host that is offered has all its parts, of one bootstrap,
\* if nothing was installed since it was inspected.
HealthIsFound ==
    shared \/ damaged \/
        \A f \in registry, h \in Hosts :
            /\ f[h].health = last[h]
            /\ Offered(f, h) /\ known[h] => There(h) /\ Trusted(h)
==============================================================================
