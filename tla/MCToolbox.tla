------------------------------ MODULE MCToolbox ------------------------------
(***************************************************************************)
(* One agent and one tool of an organization, one tool of another.         *)
(***************************************************************************)
EXTENDS Toolbox, SequencesExt

CONSTANTS a1, t1, t2, o1, o2

MCOrgOf == a1 :> o1 @@ t1 :> o1 @@ t2 :> o2

\* The tools of both organizations, one of them older than parameters.
Row(type, parameters) == [type |-> type, config |-> type, parameters |-> parameters]
MCInitialTables ==
    {t1 :> Row("http", TRUE) @@ t2 :> Row("custom_js", TRUE), t1 :> Row("database", FALSE)}

\* A schema of parameters comes alone: it meets the other fields nowhere.
MCUpdateBodies ==
    {dto \in UpdateToolDto :
        dto # NoDto /\ (dto.parameters # None => dto = [NoDto EXCEPT !.parameters = dto.parameters])}

\* A call neither reads nor writes what other requests hold.  It is enough to
\* start it when none is in flight, and to start none after it.
CallAlone ==
    /\ At("idle") /\ call'.phase # "idle" =>
         /\ \A u \in Updaters : updates[u] = NoUpdate
         /\ attaching = NotAttaching /\ chat.agent # None => chat.listed
    /\ ~At("idle") => UNCHANGED toolboxVars

MCSpec == Init /\ [][Next /\ CallAlone]_allVars /\ ExecutorFairness

\* Up to one row over MaxRows, rows of up to the whole of MaxBytes.
MCRowSets == BoundedSeq({1, 2, MaxBytes}, MaxRows + 1)
=============================================================================
