------------------------------ MODULE RunProfile ------------------------------
(***************************************************************************)
(* With which model and which reasoning effort a run works.  A topic and   *)
(* the whole chat may each set both; what fits is decided with the catalog *)
(* of models when an attempt begins.  A topic of another provider, or with *)
(* a profile of its own, has its own rules.  The thread that a run leaves  *)
(* is kept with a label, the profile it is thought to be made with, and a  *)
(* later attempt continues it only if its own profile is that of the       *)
(* label.                                                                  *)
(*                                                                         *)
(* Two processes answer commands and run topics, each with a copy of the   *)
(* global settings.  A command reads and writes its setting in one step;   *)
(* only what it clears afterwards is a step of its own.  The compactor's   *)
(* settings, the profile of a DeepSeek HTTP run, which knows no effort,    *)
(* and the brief that replaces a thread of other instructions are left     *)
(* out.                                                                    *)
(***************************************************************************)
EXTENDS Naturals, FiniteSets

CONSTANTS
    Procs,         \* processes
    Kinds,         \* providers of the topic: "codex", "own", "deepseek", "openrouter"
    MaxChanges,    \* bound on commands and on changes of the catalog
    MaxThreads,    \* bound on threads
    MaxAttempts    \* bound on attempts

VARIABLES
    kind,       \* the provider of the topic
    catalog,    \* the catalog of models of the host: "full", "small" or "builtin"
    global,     \* the global settings in the file
    cache,      \* what a process has of them in memory
    topic,      \* the settings of the topic
    stored,     \* the thread of the topic and its label
    job,        \* what a command still has to do
    run,        \* the run in hand
    made,       \* history: the profile each thread was made with
    cut,        \* history: threads kept by a run that had turned away from them
    changes, attempts

vars == <<kind, catalog, global, cache, topic, stored, job, run, made, cut,
          changes, attempts>>

Models == {"m1", "m2"}

Efforts == {"low", "high", "xhigh"}

\* A setting that is not made is the empty set, one that is made a singleton.
Maybe(S) == {{}} \cup {{x} : x \in S}

The(s) == CHOOSE x \in s : TRUE

Or(s, t) == IF s # {} THEN s ELSE t

Unset == [model |-> {}, effort |-> {}]

\* What the configuration of the gateway says.
config == [model |-> {"m1"}, effort |-> {"xhigh"}]

NoLabel == [model |-> {}, effort |-> {}, id |-> {}]

(***************************************************************************)
(* The catalog, in its order                                               *)
(***************************************************************************)
Available(c) == IF c = "small" THEN {"m2"} ELSE Models

FirstModel(c) == IF c = "small" THEN "m2" ELSE "m1"

\* A model that the catalog does not know, or says no levels of, has the usual.
Supported(c, model) ==
    CASE c = "full" /\ model = {"m1"} -> {"low", "high"}
      [] c \in {"full", "small"} /\ model = {"m2"} -> {"high", "xhigh"}
      [] OTHER -> Efforts

ModelDefault(c, model) == IF c = "full" /\ model = {"m1"} THEN {"low"} ELSE {}

FirstLevel(c, model) == IF "low" \in Supported(c, model) THEN "low" ELSE "high"

(***************************************************************************)
(* The layers                                                              *)
(***************************************************************************)
\* The first of the layers that fits, and where it is from.
FirstFit(layers, fits, last) ==
    LET good == {i \in DOMAIN layers : layers[i] \subseteq fits /\ layers[i] # {}}
    IN IF good = {} THEN [value |-> last, from |-> 3]
       ELSE LET i == CHOOSE i \in good : \A j \in good : i <= j
            IN [value |-> layers[i], from |-> i]

ModelOf(c, t, g) == FirstFit(<<t.model, g.model, config.model>>, Available(c), {FirstModel(c)})

EffortOf(c, m, t, g) ==
    FirstFit(<<t.effort, g.effort, config.effort>>, Supported(c, m),
             Or(ModelDefault(c, m) \cap Supported(c, m), {FirstLevel(c, m)}))

Resolved(c, t, g) ==
    LET model == ModelOf(c, t, g) effort == EffortOf(c, model.value, t, g)
    IN [model |-> model.value, effort |-> effort.value, id |-> {},
        chosen |-> [model |-> model.from < 3, effort |-> effort.from < 3]]

\* The profile file gives a model, and may give an effort.
OwnProfile(base) == [base EXCEPT !.model = {"m2"}, !.id = {"own"}, !.chosen.model = FALSE]

DeepSeekEffort(e) == e \cap {"high", "xhigh"}

DeepSeekProfile(t) ==
    [model |-> Or(t.model, {"m1"}), id |-> {<<"deepseek", The(Or(t.model, {"m1"}))>>},
     effort |-> Or(DeepSeekEffort(Or(t.effort, config.effort)), {"xhigh"}),
     chosen |-> [model |-> FALSE, effort |-> FALSE]]

OpenRouterEffort(e) == IF e = {"xhigh"} THEN {"high"} ELSE e

OpenRouterProfile(t) ==
    [model |-> Or(t.model, {"m2"}), id |-> {<<"openrouter", The(Or(t.model, {"m2"}))>>},
     effort |-> Or(OpenRouterEffort(Or(t.effort, config.effort)), {"high"}),
     chosen |-> [model |-> FALSE, effort |-> FALSE]]

ProfileOf(c, t, g) ==
    CASE kind = "codex" -> Resolved(c, t, g)
      [] kind = "own" -> OwnProfile(Resolved(c, t, g))
      [] kind = "deepseek" -> DeepSeekProfile(t)
      [] kind = "openrouter" -> OpenRouterProfile(t)

(***************************************************************************)
(* The commands                                                            *)
(***************************************************************************)
ForCodex == kind \in {"codex", "own"}

\* A model must be one of the catalog, an effort one of the model that the
\* command's scope has now.
Accepted(scope, what, value) ==
    CASE value = {} -> TRUE
      [] what = "model" -> value \subseteq Available(catalog)
      [] OTHER ->
           value \subseteq Supported(catalog,
                             ModelOf(catalog, IF scope = "global" THEN Unset ELSE topic, global).value)

\* The store writes the file and the copy of its process; a command reads it again.
Save(p, s) == global' = s /\ cache' = [cache EXCEPT ![p] = s]

Load(p) == UNCHANGED global /\ cache' = [cache EXCEPT ![p] = global]

\* The setting of the whole chat.  The process that writes it knows it, the
\* other one when it reads the file again.
SetGlobal(p, what, value) ==
    /\ job[p] = "none" /\ changes < MaxChanges /\ changes' = changes + 1
    /\ Accepted("global", what, value)
    /\ Save(p, [global EXCEPT ![what] = value])
    /\ job' = [job EXCEPT ![p] = IF what = "model" THEN "global" ELSE "none"]
    /\ UNCHANGED <<kind, catalog, topic, stored, run, made, cut, attempts>>

SetTopic(p, what, value) ==
    /\ job[p] = "none" /\ changes < MaxChanges /\ changes' = changes + 1
    /\ ForCodex /\ Accepted("topic", what, value)
    /\ topic' = [topic EXCEPT ![what] = value]
    /\ Load(p)
    /\ job' = [job EXCEPT ![p] = IF what = "model" THEN "topic" ELSE "none"]
    /\ UNCHANGED <<kind, catalog, stored, run, made, cut, attempts>>

\* In a topic of another provider models are those of the provider, and efforts
\* are turned into its levels.
SetDeepSeek(what, value) ==
    /\ changes < MaxChanges /\ changes' = changes + 1
    /\ kind = "deepseek" /\ (what = "effort" => DeepSeekEffort(value) = value)
    /\ topic' = [topic EXCEPT ![what] = value]
    /\ UNCHANGED <<kind, catalog, global, cache, stored, job, run, made, cut, attempts>>

SetOpenRouter(what, value) ==
    /\ changes < MaxChanges /\ changes' = changes + 1
    /\ kind = "openrouter"
    /\ topic' = [topic EXCEPT ![what] = IF what = "effort" THEN OpenRouterEffort(value) ELSE value]
    /\ UNCHANGED <<kind, catalog, global, cache, stored, job, run, made, cut, attempts>>

\* After a new model the effort that it does not support is cleared.
ClearGlobal(p) ==
    /\ job[p] = "global"
    /\ LET m == ModelOf(catalog, Unset, cache[p]).value
       IN IF cache[p].effort \subseteq Supported(catalog, m) THEN UNCHANGED <<global, cache>>
          ELSE Save(p, [global EXCEPT !.effort = {}])
    /\ job' = [job EXCEPT ![p] = "none"]
    /\ UNCHANGED <<kind, catalog, topic, stored, run, made, cut, changes, attempts>>

ClearTopic(p) ==
    /\ job[p] = "topic"
    /\ LET m == ModelOf(catalog, topic, global).value
       IN topic' = IF topic.effort \subseteq Supported(catalog, m) THEN topic
                   ELSE [topic EXCEPT !.effort = {}]
    /\ Load(p)
    /\ job' = [job EXCEPT ![p] = "none"]
    /\ UNCHANGED <<kind, catalog, stored, run, made, cut, changes, attempts>>

\* The catalog of the host is fetched again, or cannot be read.
CatalogChanges(c) ==
    /\ c # catalog /\ changes < MaxChanges /\ changes' = changes + 1
    /\ catalog' = c
    /\ UNCHANGED <<kind, global, cache, topic, stored, job, run, made, cut, attempts>>

(***************************************************************************)
(* A run                                                                   *)
(***************************************************************************)
Idle == [at |-> "none", by |-> CHOOSE p \in Procs : TRUE, inputs |-> {}, profile |-> {},
         thread |-> {}, resumes |-> {}, turned |-> FALSE]

Start(p) ==
    /\ run.at = "none" /\ attempts < MaxAttempts
    /\ run' = [Idle EXCEPT !.at = "attempt", !.by = p, !.thread = stored.thread]
    /\ UNCHANGED <<kind, catalog, global, cache, topic, stored, job, made, cut,
                   changes, attempts>>

Label(profile) == [model |-> profile.model, effort |-> profile.effort, id |-> profile.id]

Differ(s, t) == s # {} /\ t # {} /\ s # t

RotatesForModel(label, profile) ==
    \/ label.id # profile.id
    \/ Differ(label.model, profile.model)
    \/ label.model = {} /\ profile.chosen.model
    \/ label.effort = {} /\ profile.chosen.effort

\* Why an attempt does not continue the thread.
Rotates(label, profile) ==
    \/ label.id # profile.id
    \/ Differ(label.model, profile.model)
    \/ Differ(label.effort, profile.effort)
    \/ label.model = {} /\ profile.chosen.model
    \/ label.effort = {} /\ profile.chosen.effort

\* Catalog and global settings are read once for a run, the topic's settings for
\* each attempt.
Attempt ==
    /\ run.at = "attempt" /\ attempts < MaxAttempts /\ attempts' = attempts + 1
    /\ LET inputs == IF run.inputs = {} THEN {[catalog |-> catalog, global |-> cache[run.by]]}
                     ELSE run.inputs
           profile == ProfileOf(The(inputs).catalog, topic, The(inputs).global)
           turns == run.thread # {} /\ Rotates(stored.label, profile)
       IN run' = [run EXCEPT !.at = "works", !.inputs = inputs, !.profile = {profile},
                    !.resumes = IF turns THEN {} ELSE run.thread,
                    !.thread = IF turns THEN {} ELSE @, !.turned = turns]
    /\ UNCHANGED <<kind, catalog, global, cache, topic, stored, job, made, cut, changes>>

\* Codex names the thread, a new one or the one that is continued.
ThreadStarts ==
    /\ run.at = "works"
    /\ LET new == Cardinality(DOMAIN made) + 1 IN
       /\ run.resumes = {} => new <= MaxThreads
       /\ LET thread == IF run.resumes = {} THEN {new} ELSE run.resumes
              label == Label(The(run.profile))
          IN /\ stored' = [thread |-> thread, label |-> label]
             /\ run' = [run EXCEPT !.at = "threaded", !.thread = thread, !.turned = FALSE]
             /\ made' = IF run.resumes = {}
                          THEN [t \in DOMAIN made \cup thread |-> IF t \in thread THEN label ELSE made[t]]
                          ELSE made
    /\ UNCHANGED <<kind, catalog, global, cache, topic, job, cut, changes, attempts>>

\* Another attempt with the thread, or without one.
Retry(keeps) ==
    /\ run.at \in {"works", "threaded"} /\ attempts < MaxAttempts
    /\ run' = [run EXCEPT !.at = "attempt", !.thread = IF keeps THEN @ ELSE {}, !.turned = FALSE,
                 !.resumes = {}]
    /\ stored' = IF keeps THEN stored ELSE [thread |-> {}, label |-> [NoLabel EXCEPT !.id = stored.label.id]]
    /\ UNCHANGED <<kind, catalog, global, cache, topic, job, made, cut, changes, attempts>>

\* The thread of the run, or else that of the topic, is kept with the profile of
\* the last attempt.  A run that fails may keep nothing.
Keep ==
    /\ run.at \in {"works", "threaded"}
    /\ LET thread == Or(run.thread, stored.thread) IN
       /\ stored' = IF thread = {} THEN [stored EXCEPT !.thread = {}, !.label.model = {}, !.label.effort = {}]
                    ELSE [thread |-> thread,
                          label |-> [Label(The(run.profile)) EXCEPT !.id = stored.label.id]]
       /\ cut' = IF run.turned THEN cut \cup thread ELSE cut
    /\ run' = Idle
    /\ UNCHANGED <<kind, catalog, global, cache, topic, job, made, changes, attempts>>

Forget ==
    /\ run.at \in {"works", "threaded"}
    /\ stored' = [stored EXCEPT !.thread = {}, !.label.model = {}, !.label.effort = {}]
    /\ run' = Idle
    /\ UNCHANGED <<kind, catalog, global, cache, topic, job, made, cut, changes, attempts>>

Over ==
    /\ attempts = MaxAttempts /\ changes = MaxChanges
    /\ run.at \in {"none", "attempt"} /\ \A p \in Procs : job[p] = "none"
    /\ UNCHANGED vars

Init ==
    /\ kind \in Kinds
    /\ catalog = "full"
    /\ global = Unset /\ cache = [p \in Procs |-> Unset]
    /\ topic = Unset
    /\ stored = [thread |-> {}, label |-> NoLabel]
    /\ job = [p \in Procs |-> "none"]
    /\ run = Idle
    /\ made = [t \in {} |-> NoLabel]
    /\ cut = {}
    /\ changes = 0 /\ attempts = 0

Command(p) ==
    \/ \E value \in Maybe(Models) : SetGlobal(p, "model", value) \/ SetTopic(p, "model", value)
    \/ \E value \in Maybe(Efforts) : SetGlobal(p, "effort", value) \/ SetTopic(p, "effort", value)

CommandElsewhere ==
    \/ \E value \in Maybe(Models) : SetDeepSeek("model", value) \/ SetOpenRouter("model", value)
    \/ \E value \in Maybe(Efforts) : SetDeepSeek("effort", value) \/ SetOpenRouter("effort", value)

Next ==
    \/ \E p \in Procs : Command(p)
    \/ CommandElsewhere
    \/ \E p \in Procs : ClearGlobal(p)
    \/ \E p \in Procs : ClearTopic(p)
    \/ \E c \in {"full", "small", "builtin"} : CatalogChanges(c)
    \/ \E p \in Procs : Start(p)
    \/ Attempt
    \/ ThreadStarts
    \/ \E keeps \in BOOLEAN : Retry(keeps)
    \/ Keep
    \/ Forget
    \/ Over

Spec == Init /\ [][Next]_vars

(***************************************************************************)
(* Properties                                                              *)
(***************************************************************************)
\* A thread is continued only with the model, the effort and the profile it was
\* made with (resolveRuntimeProfileRotationReason).  Not so after a run that had
\* turned away from the thread and was interrupted before it had another one:
\* it keeps the old thread with the label of the new profile.
ThreadKeepsProfile ==
    run.resumes # {} /\ run.at \in {"works", "threaded"} /\ The(run.resumes) \notin cut =>
        made[The(run.resumes)] = Label(The(run.profile))

\* The effort of an attempt is one that its model has in the catalog that the
\* run has read, or, in a topic of another provider, one of the provider's.
EffortFits ==
    run.profile # {} =>
        LET profile == The(run.profile) IN
        CASE kind = "codex" ->
               /\ profile.model \subseteq Available(The(run.inputs).catalog)
               /\ profile.effort \subseteq Supported(The(run.inputs).catalog, profile.model)
          [] kind = "deepseek" -> profile.effort \subseteq {"high", "xhigh"}
          [] kind = "openrouter" -> profile.effort \subseteq {"low", "high"}
          [] OTHER -> profile.effort # {}

ProfileHolds == ThreadKeepsProfile /\ EffortFits
===============================================================================
