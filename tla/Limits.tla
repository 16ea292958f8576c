-------------------------------- MODULE Limits --------------------------------
(***************************************************************************)
(* How much of the account is used: read from the logs of the threads, or  *)
(* asked of a command, kept for a while and shared by those who ask at the *)
(* same time.  Every thread writes what it was told last, so the lines of  *)
(* two logs may come in an order in which the use goes down.               *)
(*                                                                         *)
(* A line is a window, known by when it is reset, and the use in it.  The  *)
(* command answers with the last line there is.  There are never more logs *)
(* than MAX_CANDIDATE_FILES.                                               *)
(***************************************************************************)
EXTENDS Naturals, Sequences, FiniteSets, FiniteSetsExt

CONSTANTS
    MaxLogs,       \* bound on the logs of threads
    Windows, Uses, \* what a line may say
    Callers,       \* who asks, one question at a time each
    MaxLines,      \* bound on the lines
    MaxRefreshes   \* bound on the readings

VARIABLES
    source,    \* "none", "command", "logs"
    lines,     \* [log, window, used] in the order of their time
    refresh,   \* of a reading: whether it runs, the lines at its start, what it got
    inFlight,  \* inFlightPromise, 0 if none
    cached,    \* cachedRecord and whether it is fresh, and its reading
    caller,    \* the reading a caller waits for, whether it forced it, and
               \* history: the line its answer should know
    best,      \* history: the newest line an answer was from
    crossed,   \* history: two readings were under way at once
    answer     \* history: the newest line the last answer was from, and the caller

vars == <<source, lines, refresh, inFlight, cached, caller, best, crossed, answer>>

Unavailable == [window |-> 0, used |-> 0, at |-> 0]
Readings == 1..MaxRefreshes
Logs == 1..MaxLogs      \* in the order of their first lines
NotAsking == [on |-> 0, due |-> 0, force |-> FALSE]
NotBegun == [runs |-> FALSE, from |-> 0, got |-> {}, left |-> {}]
NothingCached == [there |-> FALSE, fresh |-> FALSE, value |-> Unavailable, from |-> 0]

(***************************************************************************)
(* What is read                                                            *)
(***************************************************************************)
SameWindow(got) == {i \in got : lines[i].window = lines[Max(got)].window}

NewestUsed(got) == lines[Max(got)].used

\* mergeSnapshots, over the snapshots of the window of the newest.
Used(got) == Max({lines[i].used : i \in SameWindow(got)})

Select(got) ==
    IF got = {} THEN Unavailable
    ELSE [window |-> lines[Max(got)].window, used |-> Used(got), at |-> Max(got)]

SelectNewest(got) ==
    IF got = {} THEN Unavailable
    ELSE [window |-> lines[Max(got)].window, used |-> NewestUsed(got), at |-> Max(got)]

Write(log, window, used) ==
    /\ Len(lines) < MaxLines
    /\ log = 1 \/ \E i \in DOMAIN lines : lines[i].log = log - 1
    /\ lines' = Append(lines, [log |-> log, window |-> window, used |-> used])
    /\ UNCHANGED <<source, refresh, inFlight, cached, caller, best, crossed, answer>>

(***************************************************************************)
(* Asking                                                                  *)
(***************************************************************************)
Running == {r \in Readings : refresh[r].runs}

Begin(r) ==
    /\ refresh[r] = NotBegun /\ \A q \in Readings : q < r => refresh[q] # NotBegun
    /\ refresh' = [refresh EXCEPT ![r] =
          [runs |-> TRUE, from |-> Len(lines), got |-> {}, left |-> Logs]]
    /\ inFlight' = r
    /\ crossed' = (crossed \/ Running # {})

Tell(value, q) ==
    /\ answer' = [at |-> value.at, to |-> q]
    /\ best' = IF value.at > best THEN value.at ELSE best

Question(force) ==
    [NotAsking EXCEPT !.due = IF force THEN Len(lines) ELSE best, !.force = force]

Waits(c, r, force) == caller' = [caller EXCEPT ![c] = [Question(force) EXCEPT !.on = r]]

HasValue == cached.there /\ source # "none"

\* getSnapshotRecord
FromCache(force, allowStale) ==
    /\ ~force /\ cached.there
    /\ cached.fresh \/ (allowStale /\ HasValue /\ inFlight # 0)
    /\ Tell(cached.value, Question(force))
    /\ UNCHANGED <<refresh, inFlight, caller, crossed>>

Joins(c, force, allowStale) ==
    /\ ~force /\ ~cached.fresh /\ inFlight # 0 /\ ~(allowStale /\ HasValue)
    /\ Waits(c, inFlight, force)
    /\ UNCHANGED <<refresh, inFlight, best, crossed, answer>>

InBackground(force, allowStale) ==
    /\ ~force /\ ~cached.fresh /\ inFlight = 0 /\ allowStale /\ HasValue
    /\ \E r \in Readings : Begin(r)
    /\ Tell(cached.value, Question(force))
    /\ UNCHANGED caller

Refreshes(c, force, allowStale) ==
    /\ force \/ (~cached.fresh /\ inFlight = 0 /\ ~(allowStale /\ HasValue))
    /\ \E r \in Readings : Begin(r) /\ Waits(c, r, force)
    /\ UNCHANGED <<best, answer>>

Ask(c, force, allowStale) ==
    /\ caller[c] = NotAsking
    /\ \/ FromCache(force, allowStale) \/ Joins(c, force, allowStale)
       \/ InBackground(force, allowStale) \/ Refreshes(c, force, allowStale)
    /\ UNCHANGED <<source, lines, cached>>

(***************************************************************************)
(* Reading                                                                 *)
(***************************************************************************)
ReadLog(r, log) ==
    /\ refresh[r].runs /\ source = "logs" /\ log \in refresh[r].left
    /\ refresh' = [refresh EXCEPT ![r].left = @ \ {log},
                      ![r].got = @ \cup {i \in DOMAIN lines : lines[i].log = log}]
    /\ UNCHANGED <<source, lines, inFlight, cached, caller, best, crossed, answer>>

\* The value is kept, those who wait for this reading are told one after the other,
\* and whatever is in flight is forgotten.
Finish(r, value) ==
    /\ refresh[r].runs
    /\ refresh' = [refresh EXCEPT ![r] = [NotBegun EXCEPT !.from = MaxLines + 1]]
    /\ inFlight' = 0
    /\ cached' = [there |-> TRUE, fresh |-> TRUE, value |-> value, from |-> refresh[r].from]
    /\ LET waiting == {c \in Callers : caller[c].on = r} IN
       /\ caller' = [c \in Callers |-> IF c \in waiting THEN NotAsking ELSE caller[c]]
       /\ IF waiting = {} THEN UNCHANGED <<best, answer>>
          ELSE \E c \in waiting : Tell(value, [caller[c] EXCEPT !.on = 0])
    /\ UNCHANGED <<source, lines, crossed>>

Read(r) ==
    \/ source = "logs" /\ refresh[r].left = {} /\ Finish(r, Select(refresh[r].got))
    \/ source = "command" /\ lines # <<>>
          /\ Finish(r, SelectNewest(DOMAIN lines))

\* A log that was removed after it was listed, a command that fails, says nothing or
\* is stopped at its time limit; no source at all.
ReadFails(r) == Finish(r, Unavailable)

Stale ==
    /\ cached.fresh /\ cached' = [cached EXCEPT !.fresh = FALSE]
    /\ UNCHANGED <<source, lines, refresh, inFlight, caller, best, crossed, answer>>

Over == UNCHANGED vars

Init ==
    /\ source \in {"none", "command", "logs"}
    /\ lines = <<>> /\ inFlight = 0 /\ cached = NothingCached
    /\ refresh = [r \in Readings |-> NotBegun]
    /\ caller = [c \in Callers |-> NotAsking]
    /\ best = 0 /\ crossed = FALSE
    /\ answer = [at |-> 0, to |-> NotAsking]

Next ==
    \/ \E log \in Logs, window \in Windows, used \in Uses : Write(log, window, used)
    \/ \E c \in Callers, force, allowStale \in BOOLEAN : Ask(c, force, allowStale)
    \/ \E r \in Readings :
          \/ \E log \in Logs : ReadLog(r, log)
          \/ Read(r) \/ ReadFails(r)
    \/ Stale \/ Over

Spec == Init /\ [][Next]_vars

(***************************************************************************)
(* Properties                                                              *)
(***************************************************************************)
\* What is kept is the highest use of the newest window among all lines there were
\* when it began to read, and a line said it.
MostIsKept ==
    source = "logs" /\ cached.value # Unavailable =>
        LET v == cached.value
            said == {i \in DOMAIN lines : lines[i].window = v.window} IN
        /\ v.at >= cached.from
        /\ \A i \in said : i <= cached.from => lines[i].used <= v.used
        /\ \E i \in said : lines[i].used = v.used

\* Who asks for a new reading gets one that knows all that was there when it asked.
\* No other answer knows less than one that was given before it was asked for; not so
\* after two readings at once, of which the older may be kept.
AnswerIsNew == answer.at # 0 /\ (answer.to.force \/ ~crossed) => answer.at >= answer.to.due

\* The limits shown are those that were last known (CodexLimitsService).
LimitsAreKnown == MostIsKept /\ AnswerIsNew
===============================================================================
