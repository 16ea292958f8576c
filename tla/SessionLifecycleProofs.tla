----------------------- MODULE SessionLifecycleProofs -----------------------
(***************************************************************************)
(* Proofs about SessionLifecycle: what a purge removed stays removed, and  *)
(* the session of a run says so, for any number of lives and prompts.      *)
(* One lemma per conjunct of IInv, with one step per action.               *)
(***************************************************************************)
EXTENDS SessionLifecycle, TLAPS

\* There is a first life, and after one that is not the last there is another.
LEMMA LifeAfterLife ==
    1 \in Lives /\ \A l \in Lives : l < MaxLives => l + 1 \in Lives
BY SessionAssumption DEF SessionAssumption, Lives

\* A purge does nothing, or it empties a session that is not running, not
\* claimed by a recent compaction and not claimed from its queue.
LEMMA PurgeCases ==
    ASSUME Purge
    PROVE  \/ UNCHANGED <<meta, files, queue, ghosts>>
           \/ meta.state # "purged" /\ ~meta.running /\ ~Claimed /\ Emptied
BY DEF Purge

\* The end of a compaction moves the run that waits for it, and nothing else of
\* that run.
LEMMA JobEndsCases ==
    ASSUME run \in Run, JobInv, NEW stage \in {"rebuilt", "failing"}, JobEnds(stage)
    PROVE  /\ job' = NoJob
           /\ run'.life = run.life /\ run'.thread = run.thread /\ run'.knows = run.knows
           /\ run'.stage = IF job.own THEN stage ELSE run.stage
           /\ run'.stage # "none" <=> run.stage # "none"
BY DEF JobEnds, JobInv, Run

\* meta.json keeps its type.
LEMMA MetaTypeStep ==
    ASSUME TypeOK, [Next]_vars
    PROVE  MetaType'
<1> USE DEF TypeOK, MetaType, Meta, files, workers, handlers, ghosts
<1>1. ASSUME NEW name \in {"prompt", "compact", "purge"}, Arrive(name)
      PROVE MetaType'
  BY <1>1 DEF Arrive
<1>2. CASE Ensure
  BY <1>2 DEF Ensure, Reactivated, Loaded, NewMeta
<1>3. CASE PromptWaits
  BY <1>3 DEF PromptWaits
<1>4. CASE PromptStarts
  BY <1>4 DEF PromptStarts
<1>5. CASE List
  BY <1>5 DEF List
<1>6. CASE ClaimHead
  BY <1>6 DEF ClaimHead
<1>7. CASE DrainStarts
  BY <1>7 DEF DrainStarts
<1>8. CASE ClaimLapses
  BY <1>8 DEF ClaimLapses
<1>9. CASE StartFails
  BY <1>9 DEF StartFails
<1>10. CASE Activate
  BY <1>10 DEF Activate
<1>11. CASE Mark
  BY <1>11 DEF Mark
<1>12. CASE Begin
  BY <1>12 DEF Begin
<1>13. CASE Tell
  BY <1>13 DEF Tell, Run
<1>14. CASE Rebuild
  BY <1>14 DEF Rebuild
<1>15. CASE RebuildCompact
  BY <1>15 DEF RebuildCompact
<1>16. CASE Remark
  BY <1>16 DEF Remark
<1>17. CASE Settle
  BY <1>17 DEF Settle, Run
<1>18. CASE Append
  BY <1>18 DEF Append
<1>19. CASE Compact
  BY <1>19 DEF Compact
<1>20. CASE ClaimBrief
  BY <1>20 DEF ClaimBrief
<1>21. CASE SkipBrief
  BY <1>21 DEF SkipBrief
<1>22. CASE Source
  BY <1>22 DEF Source
<1>23. CASE WriteBrief
  BY <1>23 DEF WriteBrief, JobEnds, WrittenMeta
<1>24. CASE FailBrief
  BY <1>24 DEF FailBrief, JobEnds
<1>25. CASE BriefLapses
  BY <1>25 DEF BriefLapses
<1>26. ASSUME NEW what \in {"sweep", "park", "reopen"}, Notice(what)
      PROVE MetaType'
  BY <1>26 DEF Notice
<1>27. CASE Park
  BY <1>27 DEF Park
<1>28. CASE Reopen
  BY <1>28 DEF Reopen
<1>29. CASE Sweep
  BY <1>29 DEF Sweep, Purge, Emptied, NewMeta, UnderWay
<1>30. CASE CheckPurge
  BY <1>30 DEF CheckPurge
<1>31. CASE PurgeCommand
  BY <1>31 DEF PurgeCommand, Purge, Emptied, NewMeta, UnderWay
<1>32. CASE Crash
  BY <1>32 DEF Crash
<1>33. CASE UNCHANGED vars
  BY <1>33 DEF vars
<1>34. QED
  BY <1>1, <1>2, <1>3, <1>4, <1>5, <1>6, <1>7, <1>8, <1>9, <1>10, <1>11,
     <1>12, <1>13, <1>14, <1>15, <1>16, <1>17, <1>18, <1>19, <1>20, <1>21,
     <1>22, <1>23, <1>24, <1>25, <1>26, <1>27, <1>28, <1>29, <1>30, <1>31,
     <1>32, <1>33
  DEF Next

\* The run keeps its type.
LEMMA RunTypeStep ==
    ASSUME TypeOK, [Next]_vars
    PROVE  (run \in Run)'
<1> USE LifeAfterLife DEF TypeOK, Run, RunStage, files, workers, handlers, ghosts
<1>1. ASSUME NEW name \in {"prompt", "compact", "purge"}, Arrive(name)
      PROVE (run \in Run)'
  BY <1>1 DEF Arrive
<1>2. CASE Ensure
  BY <1>2 DEF Ensure
<1>3. CASE PromptWaits
  BY <1>3 DEF PromptWaits
<1>4. CASE PromptStarts
  BY <1>4 DEF PromptStarts, Reserved, CanStart, HandlerType, Snapshot
<1>5. CASE List
  BY <1>5 DEF List
<1>6. CASE ClaimHead
  BY <1>6 DEF ClaimHead
<1>7. CASE DrainStarts
  BY <1>7 DEF DrainStarts, Reserved, Loaded, CanStart, HandlerType, MetaType, Meta
<1>8. CASE ClaimLapses
  BY <1>8 DEF ClaimLapses
<1>9. CASE StartFails
  BY <1>9 DEF StartFails, NoRun
<1>10. CASE Activate
  BY <1>10 DEF Activate
<1>11. CASE Mark
  BY <1>11 DEF Mark
<1>12. CASE Begin
  <2>1. PICK knows \in {{}, run.thread, brief} :
               run' = [run EXCEPT !.stage = "begun", !.knows = knows]
    BY <1>12 DEF Begin
  <2>2. knows \in SUBSET Lives
    BY DEF FileType
  <2> QED
    BY <2>1, <2>2
<1>13. CASE Tell
  BY <1>13 DEF Tell
<1>14. CASE Rebuild
  BY <1>14 DEF Rebuild
<1>15. CASE RebuildCompact
  BY <1>15 DEF RebuildCompact
<1>16. CASE Remark
  BY <1>16 DEF Remark
<1>17. CASE Settle
  BY <1>17 DEF Settle, NoRun
<1>18. CASE Append
  BY <1>18 DEF Append, NoRun
<1>19. CASE Compact
  BY <1>19 DEF Compact
<1>20. CASE ClaimBrief
  BY <1>20 DEF ClaimBrief
<1>21. CASE SkipBrief
  BY <1>21 DEF SkipBrief, JobEnds
<1>22. CASE Source
  BY <1>22 DEF Source
<1>23. CASE WriteBrief
  BY <1>23 DEF WriteBrief, JobEnds
<1>24. CASE FailBrief
  BY <1>24 DEF FailBrief, JobEnds
<1>25. CASE BriefLapses
  BY <1>25 DEF BriefLapses
<1>26. ASSUME NEW what \in {"sweep", "park", "reopen"}, Notice(what)
      PROVE (run \in Run)'
  BY <1>26 DEF Notice
<1>27. CASE Park
  BY <1>27 DEF Park
<1>28. CASE Reopen
  BY <1>28 DEF Reopen
<1>29. CASE Sweep
  BY <1>29 DEF Sweep
<1>30. CASE CheckPurge
  BY <1>30 DEF CheckPurge
<1>31. CASE PurgeCommand
  BY <1>31 DEF PurgeCommand
<1>32. CASE Crash
  BY <1>32 DEF Crash, NoRun
<1>33. CASE UNCHANGED vars
  BY <1>33 DEF vars
<1>34. QED
  BY <1>1, <1>2, <1>3, <1>4, <1>5, <1>6, <1>7, <1>8, <1>9, <1>10, <1>11,
     <1>12, <1>13, <1>14, <1>15, <1>16, <1>17, <1>18, <1>19, <1>20, <1>21,
     <1>22, <1>23, <1>24, <1>25, <1>26, <1>27, <1>28, <1>29, <1>30, <1>31,
     <1>32, <1>33
  DEF Next

\* The exchange log, the brief and the queue keep their types.
LEMMA FileTypeStep ==
    ASSUME TypeOK, [Next]_vars
    PROVE  FileType'
<1> USE DEF TypeOK, FileType, files, workers, handlers, ghosts
<1>1. ASSUME NEW name \in {"prompt", "compact", "purge"}, Arrive(name)
      PROVE FileType'
  BY <1>1 DEF Arrive
<1>2. CASE Ensure
  BY <1>2 DEF Ensure
<1>3. CASE PromptWaits
  BY <1>3, SessionAssumption DEF PromptWaits, Enqueued, SessionAssumption
<1>4. CASE PromptStarts
  BY <1>4 DEF PromptStarts
<1>5. CASE List
  BY <1>5 DEF List
<1>6. CASE ClaimHead
  <2>1. CASE drain = "active" /\ queue.items > 0 /\ ~queue.claimed
    BY <1>6, <2>1 DEF ClaimHead
  <2>2. CASE ~(drain = "active" /\ queue.items > 0 /\ ~queue.claimed)
    <3>1. queue' = IF drain = "purged" THEN [items |-> 0, claimed |-> FALSE]
                   ELSE [queue EXCEPT !.claimed = queue.claimed]
      BY <1>6, <2>2 DEF ClaimHead
    <3>2. UNCHANGED <<log, brief>>
      BY <1>6 DEF ClaimHead
    <3> QED
      BY <3>1, <3>2, SessionAssumption DEF SessionAssumption
  <2> QED
    BY <2>1, <2>2
<1>7. CASE DrainStarts
  BY <1>7 DEF DrainStarts
<1>8. CASE ClaimLapses
  BY <1>8 DEF ClaimLapses
<1>9. CASE StartFails
  BY <1>9 DEF StartFails
<1>10. CASE Activate
  BY <1>10 DEF Activate
<1>11. CASE Mark
  BY <1>11, SessionAssumption DEF Mark, SessionAssumption
<1>12. CASE Begin
  BY <1>12 DEF Begin
<1>13. CASE Tell
  BY <1>13 DEF Tell
<1>14. CASE Rebuild
  BY <1>14 DEF Rebuild
<1>15. CASE RebuildCompact
  BY <1>15 DEF RebuildCompact
<1>16. CASE Remark
  BY <1>16 DEF Remark
<1>17. CASE Settle
  BY <1>17 DEF Settle
<1>18. CASE Append
  BY <1>18 DEF Append, Run
<1>19. CASE Compact
  BY <1>19 DEF Compact
<1>20. CASE ClaimBrief
  BY <1>20 DEF ClaimBrief
<1>21. CASE SkipBrief
  BY <1>21 DEF SkipBrief
<1>22. CASE Source
  BY <1>22 DEF Source
<1>23. CASE WriteBrief
  BY <1>23 DEF WriteBrief, JobEnds, JobType
<1>24. CASE FailBrief
  BY <1>24 DEF FailBrief
<1>25. CASE BriefLapses
  BY <1>25 DEF BriefLapses
<1>26. ASSUME NEW what \in {"sweep", "park", "reopen"}, Notice(what)
      PROVE FileType'
  BY <1>26 DEF Notice
<1>27. CASE Park
  BY <1>27 DEF Park
<1>28. CASE Reopen
  BY <1>28 DEF Reopen
<1>29. CASE Sweep
  <2>1. Purge
    BY <1>29 DEF Sweep
  <2>2. CASE UNCHANGED <<meta, files, queue, ghosts>>
    BY <2>2
  <2>3. CASE Emptied
    BY <2>3, SessionAssumption DEF Emptied, SessionAssumption
  <2> QED
    BY <2>1, <2>2, <2>3, PurgeCases
<1>30. CASE CheckPurge
  BY <1>30 DEF CheckPurge
<1>31. CASE PurgeCommand
  <2>1. Purge
    BY <1>31 DEF PurgeCommand
  <2>2. CASE UNCHANGED <<meta, files, queue, ghosts>>
    BY <2>2
  <2>3. CASE Emptied
    BY <2>3, SessionAssumption DEF Emptied, SessionAssumption
  <2> QED
    BY <2>1, <2>2, <2>3, PurgeCases
<1>32. CASE Crash
  BY <1>32 DEF Crash
<1>33. CASE UNCHANGED vars
  BY <1>33 DEF vars
<1>34. QED
  BY <1>1, <1>2, <1>3, <1>4, <1>5, <1>6, <1>7, <1>8, <1>9, <1>10, <1>11,
     <1>12, <1>13, <1>14, <1>15, <1>16, <1>17, <1>18, <1>19, <1>20, <1>21,
     <1>22, <1>23, <1>24, <1>25, <1>26, <1>27, <1>28, <1>29, <1>30, <1>31,
     <1>32, <1>33
  DEF Next

\* The compaction keeps its type, and the claim of a compaction at work is its own.
LEMMA JobTypeStep ==
    ASSUME TypeOK, PurgedIsIdle, [Next]_vars
    PROVE  JobType'
<1> USE DEF TypeOK, JobType, PurgedIsIdle, files, workers, handlers, ghosts
<1>1. ASSUME NEW name \in {"prompt", "compact", "purge"}, Arrive(name)
      PROVE JobType'
  BY <1>1 DEF Arrive
<1>2. CASE Ensure
  BY <1>2 DEF Ensure, Reactivated, Loaded, NewMeta
<1>3. CASE PromptWaits
  BY <1>3 DEF PromptWaits
<1>4. CASE PromptStarts
  BY <1>4 DEF PromptStarts
<1>5. CASE List
  BY <1>5 DEF List
<1>6. CASE ClaimHead
  BY <1>6 DEF ClaimHead
<1>7. CASE DrainStarts
  BY <1>7 DEF DrainStarts
<1>8. CASE ClaimLapses
  BY <1>8 DEF ClaimLapses
<1>9. CASE StartFails
  BY <1>9 DEF StartFails
<1>10. CASE Activate
  BY <1>10 DEF Activate
<1>11. CASE Mark
  BY <1>11 DEF Mark
<1>12. CASE Begin
  BY <1>12 DEF Begin
<1>13. CASE Tell
  BY <1>13 DEF Tell
<1>14. CASE Rebuild
  BY <1>14 DEF Rebuild
<1>15. CASE RebuildCompact
  BY <1>15 DEF RebuildCompact, NoJob
<1>16. CASE Remark
  BY <1>16 DEF Remark
<1>17. CASE Settle
  BY <1>17 DEF Settle
<1>18. CASE Append
  BY <1>18 DEF Append
<1>19. CASE Compact
  <2>1. CASE job' = job
    BY <1>19, <2>1 DEF Compact
  <2>2. CASE job' # job
    <3>1. job' = [NoJob EXCEPT !.stage = "claim"] /\ job.stage = "none" /\ meta' = meta
      BY <1>19, <2>2 DEF Compact, Compacting
    <3> QED
      BY <3>1 DEF NoJob
  <2> QED
    BY <2>1, <2>2
<1>20. CASE ClaimBrief
  BY <1>20 DEF ClaimBrief, Claimed
<1>21. CASE SkipBrief
  BY <1>21 DEF SkipBrief, JobEnds, NoJob
<1>22. CASE Source
  <2>1. PICK saw \in {log, log \cup brief} :
               job' = [job EXCEPT !.stage = "write",
                                  !.saw = saw \cup IF job.own THEN {run.life} ELSE {}]
    BY <1>22 DEF Source
  <2>2. (saw \cup IF job.own THEN {run.life} ELSE {}) \in SUBSET Lives
    BY DEF FileType, Run
  <2> QED
    BY <1>22, <2>1, <2>2 DEF Source
<1>23. CASE WriteBrief
  <2>1. job' = NoJob
    BY <1>23 DEF WriteBrief, JobEnds
  <2>2. meta'.claim # "job"
    BY <1>23 DEF WriteBrief, WrittenMeta, MetaType, Meta
  <2> QED
    BY <2>1, <2>2 DEF NoJob
<1>24. CASE FailBrief
  BY <1>24 DEF FailBrief, JobEnds, NoJob
<1>25. CASE BriefLapses
  BY <1>25 DEF BriefLapses
<1>26. ASSUME NEW what \in {"sweep", "park", "reopen"}, Notice(what)
      PROVE JobType'
  BY <1>26 DEF Notice
<1>27. CASE Park
  BY <1>27 DEF Park
<1>28. CASE Reopen
  BY <1>28 DEF Reopen
<1>29. CASE Sweep
  BY <1>29 DEF Sweep, Purge, Emptied, NewMeta, UnderWay
<1>30. CASE CheckPurge
  BY <1>30 DEF CheckPurge
<1>31. CASE PurgeCommand
  BY <1>31 DEF PurgeCommand, Purge, Emptied, NewMeta, UnderWay
<1>32. CASE Crash
  BY <1>32 DEF Crash, NoJob
<1>33. CASE UNCHANGED vars
  BY <1>33 DEF vars
<1>34. QED
  BY <1>1, <1>2, <1>3, <1>4, <1>5, <1>6, <1>7, <1>8, <1>9, <1>10, <1>11,
     <1>12, <1>13, <1>14, <1>15, <1>16, <1>17, <1>18, <1>19, <1>20, <1>21,
     <1>22, <1>23, <1>24, <1>25, <1>26, <1>27, <1>28, <1>29, <1>30, <1>31,
     <1>32, <1>33
  DEF Next

\* What the handlers keep has its type.
LEMMA HandlerTypeStep ==
    ASSUME TypeOK, [Next]_vars
    PROVE  HandlerType'
<1> USE LifeAfterLife DEF TypeOK, HandlerType, Snapshot, files, workers, handlers, ghosts
<1>1. ASSUME NEW name \in {"prompt", "compact", "purge"}, Arrive(name)
      PROVE HandlerType'
  <2>1. CASE name = "prompt"
    BY <1>1, <2>1 DEF Arrive, Loaded, MetaType, Meta
  <2>2. CASE name = "compact"
    BY <1>1, <2>2 DEF Arrive, Nothing, MetaType, Meta
  <2>3. CASE name = "purge"
    BY <1>1, <2>3 DEF Arrive, Nothing, MetaType, Meta
  <2> QED
    BY <2>1, <2>2, <2>3
<1>2. CASE Ensure
  <2>1. Loaded(Reactivated) \in Snapshot
    BY DEF Reactivated, Loaded, NewMeta, MetaType, Meta
  <2> QED
    BY <1>2, <2>1 DEF Ensure
<1>3. CASE PromptWaits
  BY <1>3 DEF PromptWaits, NoCommand, Nothing
<1>4. CASE PromptStarts
  BY <1>4 DEF PromptStarts
<1>5. CASE List
  BY <1>5 DEF List, MetaType, Meta
<1>6. CASE ClaimHead
  BY <1>6 DEF ClaimHead
<1>7. CASE DrainStarts
  BY <1>7 DEF DrainStarts
<1>8. CASE ClaimLapses
  BY <1>8 DEF ClaimLapses
<1>9. CASE StartFails
  BY <1>9 DEF StartFails, NoCommand, Nothing
<1>10. CASE Activate
  BY <1>10 DEF Activate
<1>11. CASE Mark
  BY <1>11 DEF Mark, NoCommand, Nothing
<1>12. CASE Begin
  BY <1>12 DEF Begin
<1>13. CASE Tell
  BY <1>13 DEF Tell
<1>14. CASE Rebuild
  BY <1>14 DEF Rebuild
<1>15. CASE RebuildCompact
  BY <1>15 DEF RebuildCompact
<1>16. CASE Remark
  BY <1>16 DEF Remark
<1>17. CASE Settle
  BY <1>17 DEF Settle
<1>18. CASE Append
  BY <1>18 DEF Append
<1>19. CASE Compact
  BY <1>19 DEF Compact, NoCommand, Nothing
<1>20. CASE ClaimBrief
  BY <1>20 DEF ClaimBrief
<1>21. CASE SkipBrief
  BY <1>21 DEF SkipBrief
<1>22. CASE Source
  BY <1>22 DEF Source
<1>23. CASE WriteBrief
  BY <1>23 DEF WriteBrief
<1>24. CASE FailBrief
  BY <1>24 DEF FailBrief
<1>25. CASE BriefLapses
  BY <1>25 DEF BriefLapses
<1>26. ASSUME NEW what \in {"sweep", "park", "reopen"}, Notice(what)
      PROVE HandlerType'
  BY <1>26 DEF Notice
<1>27. CASE Park
  BY <1>27 DEF Park
<1>28. CASE Reopen
  BY <1>28 DEF Reopen
<1>29. CASE Sweep
  BY <1>29 DEF Sweep, Purge, Emptied, UnderWay
<1>30. CASE CheckPurge
  BY <1>30 DEF CheckPurge, NoCommand, Nothing
<1>31. CASE PurgeCommand
  BY <1>31 DEF PurgeCommand, Purge, Emptied, UnderWay, NoCommand, Nothing
<1>32. CASE Crash
  BY <1>32 DEF Crash, NoCommand, Nothing
<1>33. CASE UNCHANGED vars
  BY <1>33 DEF vars
<1>34. QED
  BY <1>1, <1>2, <1>3, <1>4, <1>5, <1>6, <1>7, <1>8, <1>9, <1>10, <1>11,
     <1>12, <1>13, <1>14, <1>15, <1>16, <1>17, <1>18, <1>19, <1>20, <1>21,
     <1>22, <1>23, <1>24, <1>25, <1>26, <1>27, <1>28, <1>29, <1>30, <1>31,
     <1>32, <1>33
  DEF Next

\* A purged session stays idle until it is taken into use again.
LEMMA PurgedStep ==
    ASSUME TypeOK, PurgedIsIdle, JobInv, [Next]_vars
    PROVE  PurgedIsIdle'
<1> USE DEF TypeOK, PurgedIsIdle, UnderWay, files, workers, handlers, ghosts
<1>1. ASSUME NEW name \in {"prompt", "compact", "purge"}, Arrive(name)
      PROVE PurgedIsIdle'
  BY <1>1 DEF Arrive, Loaded, Nothing
<1>2. CASE Ensure
  BY <1>2 DEF Ensure, Reactivated, Loaded, NewMeta
<1>3. CASE PromptWaits
  BY <1>3 DEF PromptWaits, NoCommand, Nothing
<1>4. CASE PromptStarts
  BY <1>4 DEF PromptStarts, Reserved, CanStart
<1>5. CASE List
  BY <1>5 DEF List
<1>6. CASE ClaimHead
  BY <1>6 DEF ClaimHead
<1>7. CASE DrainStarts
  BY <1>7 DEF DrainStarts, Reserved, Loaded, CanStart
<1>8. CASE ClaimLapses
  BY <1>8 DEF ClaimLapses
<1>9. CASE StartFails
  BY <1>9 DEF StartFails, NoRun, NoCommand, Nothing
<1>10. CASE Activate
  BY <1>10 DEF Activate
<1>11. CASE Mark
  BY <1>11 DEF Mark, NoCommand, Nothing
<1>12. CASE Begin
  BY <1>12 DEF Begin
<1>13. CASE Tell
  BY <1>13 DEF Tell
<1>14. CASE Rebuild
  BY <1>14 DEF Rebuild
<1>15. CASE RebuildCompact
  BY <1>15 DEF RebuildCompact
<1>16. CASE Remark
  BY <1>16 DEF Remark
<1>17. CASE Settle
  BY <1>17 DEF Settle, NoRun
<1>18. CASE Append
  BY <1>18 DEF Append, NoRun
<1>19. CASE Compact
  BY <1>19 DEF Compact, NoCommand, Nothing
<1>20. CASE ClaimBrief
  BY <1>20 DEF ClaimBrief
<1>21. CASE SkipBrief
  BY <1>21 DEF SkipBrief, JobEnds, JobInv
<1>22. CASE Source
  BY <1>22 DEF Source
<1>23. CASE WriteBrief
  <2>1. JobEnds("rebuilt") /\ UNCHANGED <<command, raced>>
    BY <1>23 DEF WriteBrief
  <2>2. CASE meta.state = "purged"
    BY <1>23, <2>1, <2>2, JobEndsCases DEF WriteBrief
  <2>3. CASE meta.state # "purged"
    BY <1>23, <2>3 DEF WriteBrief, WrittenMeta, MetaType, Meta
  <2> QED
    BY <2>2, <2>3
<1>24. CASE FailBrief
  BY <1>24 DEF FailBrief, JobEnds, JobInv
<1>25. CASE BriefLapses
  BY <1>25 DEF BriefLapses
<1>26. ASSUME NEW what \in {"sweep", "park", "reopen"}, Notice(what)
      PROVE PurgedIsIdle'
  BY <1>26 DEF Notice
<1>27. CASE Park
  BY <1>27 DEF Park
<1>28. CASE Reopen
  BY <1>28 DEF Reopen
<1>29. CASE Sweep
  <2>1. Purge
    BY <1>29 DEF Sweep
  <2>2. CASE UNCHANGED <<meta, files, queue, ghosts>>
    BY <1>29, <2>2 DEF Sweep
  <2>3. CASE Emptied
    BY <1>29, <2>3 DEF Sweep, Emptied, NewMeta, UnderWay
  <2> QED
    BY <2>1, <2>2, <2>3, PurgeCases
<1>30. CASE CheckPurge
  BY <1>30 DEF CheckPurge, NoCommand, Nothing
<1>31. CASE PurgeCommand
  <2>1. Purge
    BY <1>31 DEF PurgeCommand
  <2>2. CASE UNCHANGED <<meta, files, queue, ghosts>>
    BY <1>31, <2>2 DEF PurgeCommand, NoCommand
  <2>3. CASE Emptied
    BY <1>31, <2>3 DEF PurgeCommand, Emptied, NewMeta, NoCommand, UnderWay
  <2> QED
    BY <2>1, <2>2, <2>3, PurgeCases
<1>32. CASE Crash
  BY <1>32 DEF Crash, NoRun, NoCommand, Nothing
<1>33. CASE UNCHANGED vars
  BY <1>33 DEF vars
<1>34. QED
  BY <1>1, <1>2, <1>3, <1>4, <1>5, <1>6, <1>7, <1>8, <1>9, <1>10, <1>11,
     <1>12, <1>13, <1>14, <1>15, <1>16, <1>17, <1>18, <1>19, <1>20, <1>21,
     <1>22, <1>23, <1>24, <1>25, <1>26, <1>27, <1>28, <1>29, <1>30, <1>31,
     <1>32, <1>33
  DEF Next

\* A compaction that recovers a run and the run stay together; another one is
\* noticed by the run that is starting.
LEMMA JobStep ==
    ASSUME TypeOK, JobInv, [Next]_vars
    PROVE  JobInv'
<1> USE DEF TypeOK, JobInv, files, workers, handlers, ghosts
<1>1. ASSUME NEW name \in {"prompt", "compact", "purge"}, Arrive(name)
      PROVE JobInv'
  BY <1>1 DEF Arrive
<1>2. CASE Ensure
  BY <1>2 DEF Ensure
<1>3. CASE PromptWaits
  BY <1>3 DEF PromptWaits
<1>4. CASE PromptStarts
  BY <1>4 DEF PromptStarts, Reserved, CanStart
<1>5. CASE List
  BY <1>5 DEF List
<1>6. CASE ClaimHead
  BY <1>6 DEF ClaimHead
<1>7. CASE DrainStarts
  BY <1>7 DEF DrainStarts, Reserved, Loaded, CanStart
<1>8. CASE ClaimLapses
  BY <1>8 DEF ClaimLapses
<1>9. CASE StartFails
  BY <1>9 DEF StartFails, NoRun
<1>10. CASE Activate
  BY <1>10 DEF Activate
<1>11. CASE Mark
  BY <1>11 DEF Mark
<1>12. CASE Begin
  BY <1>12 DEF Begin
<1>13. CASE Tell
  BY <1>13 DEF Tell
<1>14. CASE Rebuild
  BY <1>14 DEF Rebuild
<1>15. CASE RebuildCompact
  BY <1>15 DEF RebuildCompact, NoJob
<1>16. CASE Remark
  BY <1>16 DEF Remark
<1>17. CASE Settle
  BY <1>17 DEF Settle, NoRun
<1>18. CASE Append
  BY <1>18 DEF Append, NoRun
<1>19. CASE Compact
  BY <1>19 DEF Compact, NoJob, ActiveRun, Compacting
<1>20. CASE ClaimBrief
  BY <1>20 DEF ClaimBrief
<1>21. CASE SkipBrief
  BY <1>21 DEF SkipBrief, JobEnds, NoJob
<1>22. CASE Source
  BY <1>22 DEF Source
<1>23. CASE WriteBrief
  BY <1>23 DEF WriteBrief, JobEnds, NoJob
<1>24. CASE FailBrief
  BY <1>24 DEF FailBrief, JobEnds, NoJob
<1>25. CASE BriefLapses
  BY <1>25 DEF BriefLapses
<1>26. ASSUME NEW what \in {"sweep", "park", "reopen"}, Notice(what)
      PROVE JobInv'
  BY <1>26 DEF Notice
<1>27. CASE Park
  BY <1>27 DEF Park
<1>28. CASE Reopen
  BY <1>28 DEF Reopen
<1>29. CASE Sweep
  BY <1>29 DEF Sweep
<1>30. CASE CheckPurge
  BY <1>30 DEF CheckPurge
<1>31. CASE PurgeCommand
  BY <1>31 DEF PurgeCommand
<1>32. CASE Crash
  BY <1>32 DEF Crash, NoRun, NoJob
<1>33. CASE UNCHANGED vars
  BY <1>33 DEF vars
<1>34. QED
  BY <1>1, <1>2, <1>3, <1>4, <1>5, <1>6, <1>7, <1>8, <1>9, <1>10, <1>11,
     <1>12, <1>13, <1>14, <1>15, <1>16, <1>17, <1>18, <1>19, <1>20, <1>21,
     <1>22, <1>23, <1>24, <1>25, <1>26, <1>27, <1>28, <1>29, <1>30, <1>31,
     <1>32, <1>33
  DEF Next

\* What is of this life stays of this life.
LEMMA LivesStep ==
    ASSUME TypeOK, PurgedIsIdle, JobInv, LivesInv, [Next]_vars
    PROVE  LivesInv'
<1> USE DEF TypeOK, LivesInv, files, workers, handlers, ghosts
<1>1. ASSUME NEW name \in {"prompt", "compact", "purge"}, Arrive(name)
      PROVE LivesInv'
  BY <1>1 DEF Arrive, Loaded, Nothing
<1>2. CASE Ensure
  BY <1>2 DEF Ensure, Reactivated, Loaded, NewMeta
<1>3. CASE PromptWaits
  BY <1>3 DEF PromptWaits, NoCommand, Nothing
<1>4. CASE PromptStarts
  BY <1>4 DEF PromptStarts, Reserved, CanStart
<1>5. CASE List
  BY <1>5 DEF List
<1>6. CASE ClaimHead
  BY <1>6 DEF ClaimHead
<1>7. CASE DrainStarts
  BY <1>7 DEF DrainStarts, Reserved, Loaded, CanStart
<1>8. CASE ClaimLapses
  BY <1>8 DEF ClaimLapses
<1>9. CASE StartFails
  BY <1>9 DEF StartFails, NoRun, NoCommand, Nothing
<1>10. CASE Activate
  BY <1>10 DEF Activate
<1>11. CASE Mark
  BY <1>11 DEF Mark, NoCommand, Nothing
<1>12. CASE Begin
  BY <1>12 DEF Begin
<1>13. CASE Tell
  BY <1>13 DEF Tell
<1>14. CASE Rebuild
  BY <1>14 DEF Rebuild
<1>15. CASE RebuildCompact
  BY <1>15 DEF RebuildCompact, NoJob
<1>16. CASE Remark
  BY <1>16 DEF Remark
<1>17. CASE Settle
  BY <1>17 DEF Settle, NoRun
<1>18. CASE Append
  BY <1>18 DEF Append, NoRun
<1>19. CASE Compact
  BY <1>19 DEF Compact, NoJob, NoCommand, ActiveRun, Nothing
<1>20. CASE ClaimBrief
  BY <1>20 DEF ClaimBrief, JobInv
<1>21. CASE SkipBrief
  <2>1. JobEnds("rebuilt")
    BY <1>21 DEF SkipBrief
  <2>2. meta'.claim # "job" /\ meta'.thread \in {meta.thread, {}}
    BY <1>21 DEF SkipBrief, JobType, MetaType, Meta
  <2>3. raced' = raced /\ command' = command /\ life' = life /\ log' = log /\ brief' = brief
    BY <1>21 DEF SkipBrief
  <2> QED
    BY <2>1, <2>2, <2>3, JobEndsCases
<1>22. CASE Source
  BY <1>22 DEF Source, JobInv
<1>23. CASE WriteBrief
  <2>1. JobEnds("rebuilt")
    BY <1>23 DEF WriteBrief
  <2>2. meta'.claim # "job" /\ meta'.thread \in {meta.thread, {}}
    BY <1>23 DEF WriteBrief, JobType, MetaType, Meta, WrittenMeta, PurgedIsIdle
  <2>3. raced' = raced /\ command' = command /\ life' = life /\ log' = log /\ brief' \in {brief} \cup (IF meta.claim = "job" THEN {job.saw} ELSE {})
    BY <1>23 DEF WriteBrief
  <2> QED
    BY <2>1, <2>2, <2>3, JobEndsCases
<1>24. CASE FailBrief
  <2>1. JobEnds("failing")
    BY <1>24 DEF FailBrief
  <2>2. meta'.claim # "job" /\ meta'.thread \in {meta.thread, {}}
    BY <1>24 DEF FailBrief, JobType, MetaType, Meta
  <2>3. raced' = raced /\ command' = command /\ life' = life /\ log' = log /\ brief' = brief
    BY <1>24 DEF FailBrief
  <2> QED
    BY <2>1, <2>2, <2>3, JobEndsCases
<1>25. CASE BriefLapses
  BY <1>25 DEF BriefLapses
<1>26. ASSUME NEW what \in {"sweep", "park", "reopen"}, Notice(what)
      PROVE LivesInv'
  BY <1>26 DEF Notice
<1>27. CASE Park
  BY <1>27 DEF Park
<1>28. CASE Reopen
  BY <1>28 DEF Reopen
<1>29. CASE Sweep
  <2>1. Purge
    BY <1>29 DEF Sweep
  <2>2. CASE UNCHANGED <<meta, files, queue, ghosts>>
    BY <1>29, <2>2 DEF Sweep
  <2>3. CASE Emptied
    BY <1>29, <2>3 DEF Sweep, Emptied, NewMeta, UnderWay
  <2> QED
    BY <2>1, <2>2, <2>3, PurgeCases
<1>30. CASE CheckPurge
  BY <1>30 DEF CheckPurge, NoCommand, Nothing
<1>31. CASE PurgeCommand
  <2>1. Purge
    BY <1>31 DEF PurgeCommand
  <2>2. CASE UNCHANGED <<meta, files, queue, ghosts>>
    BY <1>31, <2>2 DEF PurgeCommand, NoCommand
  <2>3. CASE Emptied
    BY <1>31, <2>3 DEF PurgeCommand, Emptied, NewMeta, NoCommand, UnderWay
  <2> QED
    BY <2>1, <2>2, <2>3, PurgeCases
<1>32. CASE Crash
  BY <1>32 DEF Crash, NoRun, NoJob, NoCommand, Nothing
<1>33. CASE UNCHANGED vars
  BY <1>33 DEF vars
<1>34. QED
  BY <1>1, <1>2, <1>3, <1>4, <1>5, <1>6, <1>7, <1>8, <1>9, <1>10, <1>11,
     <1>12, <1>13, <1>14, <1>15, <1>16, <1>17, <1>18, <1>19, <1>20, <1>21,
     <1>22, <1>23, <1>24, <1>25, <1>26, <1>27, <1>28, <1>29, <1>30, <1>31,
     <1>32, <1>33
  DEF Next

\* The session of a run stays marked, or its brief holds what was asked.
LEMMA MarkedStep ==
    ASSUME TypeOK, PurgedIsIdle, JobInv, RunIsMarked, [Next]_vars
    PROVE  RunIsMarked'
<1> USE DEF TypeOK, RunIsMarked, MarkedStage, files, workers, handlers, ghosts
<1>1. ASSUME NEW name \in {"prompt", "compact", "purge"}, Arrive(name)
      PROVE RunIsMarked'
  BY <1>1 DEF Arrive
<1>2. CASE Ensure
  BY <1>2 DEF Ensure, Reactivated, Loaded, NewMeta, PurgedIsIdle, UnderWay
<1>3. CASE PromptWaits
  BY <1>3 DEF PromptWaits
<1>4. CASE PromptStarts
  BY <1>4 DEF PromptStarts, Reserved, CanStart
<1>5. CASE List
  BY <1>5 DEF List
<1>6. CASE ClaimHead
  BY <1>6 DEF ClaimHead
<1>7. CASE DrainStarts
  BY <1>7 DEF DrainStarts, Reserved, Loaded, CanStart
<1>8. CASE ClaimLapses
  BY <1>8 DEF ClaimLapses
<1>9. CASE StartFails
  BY <1>9 DEF StartFails, NoRun
<1>10. CASE Activate
  BY <1>10 DEF Activate
<1>11. CASE Mark
  BY <1>11 DEF Mark
<1>12. CASE Begin
  BY <1>12 DEF Begin
<1>13. CASE Tell
  BY <1>13 DEF Tell
<1>14. CASE Rebuild
  BY <1>14 DEF Rebuild
<1>15. CASE RebuildCompact
  BY <1>15 DEF RebuildCompact
<1>16. CASE Remark
  BY <1>16 DEF Remark
<1>17. CASE Settle
  BY <1>17 DEF Settle, NoRun
<1>18. CASE Append
  BY <1>18 DEF Append, NoRun
<1>19. CASE Compact
  BY <1>19 DEF Compact
<1>20. CASE ClaimBrief
  BY <1>20 DEF ClaimBrief
<1>21. CASE SkipBrief
  <2>1. JobEnds("rebuilt") /\ UNCHANGED <<meta, brief, raced>>
    BY <1>21 DEF SkipBrief
  <2>2. /\ run'.life = run.life /\ run'.stage = IF job.own THEN "rebuilt" ELSE run.stage
        /\ run'.overlap = run.overlap
    BY <2>1, JobEndsCases DEF JobEnds, Run
  <2> QED
    BY <2>1, <2>2 DEF JobInv
<1>22. CASE Source
  BY <1>22 DEF Source
<1>23. CASE WriteBrief
  <2>1. JobEnds("rebuilt") /\ job.stage = "write" /\ UNCHANGED raced
    BY <1>23 DEF WriteBrief
  <2>2. /\ run'.life = run.life /\ run'.stage = IF job.own THEN "rebuilt" ELSE run.stage
        /\ run'.overlap = run.overlap
    BY <2>1, JobEndsCases DEF JobEnds, Run
  <2>3. CASE UNCHANGED <<brief, meta>>
    BY <2>1, <2>2, <2>3 DEF JobInv
  <2>4. CASE brief' = job.saw /\ meta' = WrittenMeta
    <3>1. CASE job.own
      BY <2>1, <2>2, <2>4, <3>1 DEF JobInv
    <3>2. CASE ~job.own
      BY <2>1, <2>2, <2>4, <3>2 DEF JobInv
    <3> QED BY <3>1, <3>2
  <2> QED
    BY <1>23, <2>3, <2>4 DEF WriteBrief
<1>24. CASE FailBrief
  BY <1>24 DEF FailBrief, JobEnds
<1>25. CASE BriefLapses
  BY <1>25 DEF BriefLapses
<1>26. ASSUME NEW what \in {"sweep", "park", "reopen"}, Notice(what)
      PROVE RunIsMarked'
  BY <1>26 DEF Notice
<1>27. CASE Park
  BY <1>27 DEF Park
<1>28. CASE Reopen
  BY <1>28 DEF Reopen
<1>29. CASE Sweep
  <2>1. Purge
    BY <1>29 DEF Sweep
  <2>2. CASE UNCHANGED <<meta, files, queue, ghosts>>
    BY <1>29, <2>2 DEF Sweep
  <2>3. CASE Emptied
    BY <1>29, <2>3 DEF Sweep, Emptied, NewMeta, UnderWay
  <2> QED
    BY <2>1, <2>2, <2>3, PurgeCases
<1>30. CASE CheckPurge
  BY <1>30 DEF CheckPurge
<1>31. CASE PurgeCommand
  <2>1. Purge
    BY <1>31 DEF PurgeCommand
  <2>2. CASE UNCHANGED <<meta, files, queue, ghosts>>
    BY <1>31, <2>2 DEF PurgeCommand, NoCommand
  <2>3. CASE Emptied
    BY <1>31, <2>3 DEF PurgeCommand, Emptied, NewMeta, NoCommand, UnderWay
  <2> QED
    BY <2>1, <2>2, <2>3, PurgeCases
<1>32. CASE Crash
  BY <1>32 DEF Crash, NoRun
<1>33. CASE UNCHANGED vars
  BY <1>33 DEF vars
<1>34. QED
  BY <1>1, <1>2, <1>3, <1>4, <1>5, <1>6, <1>7, <1>8, <1>9, <1>10, <1>11,
     <1>12, <1>13, <1>14, <1>15, <1>16, <1>17, <1>18, <1>19, <1>20, <1>21,
     <1>22, <1>23, <1>24, <1>25, <1>26, <1>27, <1>28, <1>29, <1>30, <1>31,
     <1>32, <1>33
  DEF Next
\* The new session satisfies the invariant.
LEMMA InitInv ==
    ASSUME Init PROVE IInv
<1> USE DEF Init, NewMeta, NoRun, NoJob, NoCommand, Nothing
<1>1. TypeOK
  <2>1. MetaType
    BY DEF MetaType, Meta
  <2>2. FileType
    BY SessionAssumption DEF FileType, SessionAssumption
  <2>3. run \in Run
    BY LifeAfterLife DEF Run, RunStage
  <2>4. JobType
    BY DEF JobType
  <2>5. HandlerType
    BY LifeAfterLife DEF HandlerType, Snapshot
  <2> QED
    BY <2>1, <2>2, <2>3, <2>4, <2>5 DEF TypeOK
<1>2. PurgedIsIdle /\ JobInv /\ LivesInv /\ RunIsMarked
  BY DEF PurgedIsIdle, JobInv, LivesInv, RunIsMarked, MarkedStage
<1>3. QED
  BY <1>1, <1>2 DEF IInv

\* The strengthening under which a step keeps the properties.
THEOREM InductiveInvariant == Spec => []IInv
<1>1. Init => IInv
  BY InitInv
<1>2. IInv /\ [Next]_vars => IInv'
  BY MetaTypeStep, RunTypeStep, FileTypeStep, JobTypeStep, HandlerTypeStep,
     PurgedStep, JobStep, LivesStep, MarkedStep
  DEF IInv, TypeOK
<1>3. QED
  BY <1>1, <1>2, PTL DEF Spec

\* meta.json, the files of the session, its run, its compaction and what the
\* handlers keep have their types in every reachable state.
THEOREM TypeCorrect == Spec => []TypeOK
<1>1. IInv => TypeOK
  BY DEF IInv
<1>2. QED
  BY <1>1, InductiveInvariant, PTL

\* purgeSession and finalizeCompaction: nothing that was said before a purge
\* comes back, however many lives the session has, unless the purge fell on a
\* run.
THEOREM PurgeIsFinal == Spec => []NothingSurvivesPurge
<1>1. IInv => NothingSurvivesPurge
  BY DEF IInv, LivesInv, NothingSurvivesPurge
<1>2. QED
  BY <1>1, InductiveInvariant, PTL

\* startPromptRun, attachRunLifecycle and the recovery of a run: the session
\* of a run says running, or the compaction of the run has cleared that and
\* left a brief with what the run was asked.
THEOREM RunningIsMarked == Spec => []RunIsMarked
<1>1. IInv => RunIsMarked
  BY DEF IInv
<1>2. QED
  BY <1>1, InductiveInvariant, PTL

\* Only Sweep and PurgeCommand end a life, and they spare a marked session.
LEMMA OnlyPurges ==
    ASSUME Next, life' # life PROVE ~meta.running
<1> USE DEF files, workers, handlers, ghosts
<1>1. CASE Sweep
  BY <1>1, PurgeCases DEF Sweep
<1>2. CASE PurgeCommand
  BY <1>2, PurgeCases DEF PurgeCommand
<1>3. QED
  BY <1>1, <1>2 DEF Next, Arrive, Ensure, PromptWaits, PromptStarts, List, ClaimHead, DrainStarts, ClaimLapses, StartFails, Activate, Mark, Begin, Tell, Rebuild, RebuildCompact, Remark, Settle, Append, Compact, ClaimBrief, SkipBrief, Source, WriteBrief, FailBrief, BriefLapses, Notice, Park, Reopen, CheckPurge, Crash

\* purgeSession, asked for by the sweep or by the user, does not remove the
\* files of a session under its run, except between the end of the compaction
\* that recovers the run and the patch that marks it again.
THEOREM RunsAreSpared == Spec => PurgeSparesRuns
<1> DEFINE Spares ==
      (life' # life /\ run.stage \in MarkedStage \cup {"rebuilt"})
        => Cleared \/ run.overlap \/ raced
<1>1. IInv /\ [Next]_vars => [Spares]_vars
  BY OnlyPurges DEF IInv, RunIsMarked, Cleared, vars
<1>2. QED
  BY <1>1, InductiveInvariant, PTL DEF Spec, PurgeSparesRuns
=============================================================================
