----------------------------- MODULE MCCatalog -----------------------------
(***************************************************************************)
(* FileCatalog and ContentSearch side by side: a behaviour is one of the   *)
(* one or of the other, and the other's variables stay as they are.        *)
(***************************************************************************)
EXTENDS FileCatalog, ContentSearch

VARIABLE subject

MCSessions ==
    {[names |-> {"prefix"}, rows |-> 4, loads |-> 4, exports |-> 0, resets |-> 0],
     [names |-> {"infix", "prefix"}, rows |-> 3, loads |-> 1, exports |-> 1, resets |-> 1]}

----------------------------------------------------------------------------
Run(n) == [length |-> n, there |-> n, bad |-> {}]
Damaged(n, b) == [length |-> n, there |-> n, bad |-> b]
Sparse(n) == [length |-> n, there |-> Hole, bad |-> {}]
Beyond(n, t) == [length |-> n, there |-> t, bad |-> {}]

File(runs, size, at, letters, word) ==
    [runs |-> runs, size |-> size, at |-> at, letters |-> letters, word |-> word,
     source |-> "disk"]
Of(source, file) == [file EXCEPT !.source = source]

Texts(runs, size, places, letters) ==
    {File(runs, size, at, letters, word) : at \in places, word \in BOOLEAN}

\* Texts in the middle of a window and across the edge of one, of a run, of a
\* sparse run and of the disk, before and behind sectors that do not read
MCFiles ==
    Texts(<<Run(8)>>, 7, {0, 1, 3, 5, 6}, 4)
      \cup Texts(<<Run(3), Sparse(2), Run(3)>>, 7, {1}, 2)
      \cup Texts(<<Run(3), Sparse(2), Run(3)>>, 8, {5}, 3)
      \cup Texts(<<Damaged(2, {1}), Run(5)>>, 7, {0, 1, 2, 4}, 3)
      \cup Texts(<<Run(4), Damaged(2, {0}), Run(2)>>, 7, {1, 3, 5}, 3)
      \cup Texts(<<Run(2), Beyond(3, 1), Run(3)>>, 8, {1, 5}, 3)

\* The other file is short, empty or damaged; or it comes first and is a
\* snapshot's or a journal's.
MCVolumes ==
    {<<file, other>> : file \in MCFiles,
        other \in {File(<<Run(4)>>, 4, 2, 2, TRUE), File(<<>>, 0, 0, 0, FALSE),
                   File(<<Damaged(4, {1})>>, 3, 0, 3, TRUE)}}
      \cup {<<Of(source, other), File(<<Run(4)>>, 4, 2, 2, TRUE)>> :
              source \in {"snapshot", "discovery"},
              other \in {File(<<Run(4)>>, 4, 2, 2, TRUE), File(<<Damaged(4, {1})>>, 3, 0, 3, TRUE)}}

Literal(n) == [length |-> n, text |-> n, regex |-> FALSE]
Regex(n, t) == [length |-> n, text |-> t, regex |-> TRUE]

\* Within the overlap, longer than it, too long; expressions, one refused
MCQueries == {Literal(1), Literal(2), Literal(4), Literal(5), Regex(1, 2), Regex(3, 1)}

----------------------------------------------------------------------------
CatalogAlone ==
    /\ subject = "catalog" /\ CatalogInit
    /\ disk = (CHOOSE v \in Volumes : TRUE)

SearchAlone ==
    /\ subject = "search" /\ disk \in Volumes
    /\ session = (CHOOSE s \in Sessions : TRUE)

MCInit == CatalogInit /\ SearchInit /\ (CatalogAlone \/ SearchAlone)

MCNext ==
    \/ subject = "catalog" /\ CatalogNext /\ UNCHANGED <<searchVars, subject>>
    \/ subject = "search" /\ SearchNext /\ UNCHANGED <<catalogVars, subject>>

MCSpec ==
    /\ MCInit /\ [][MCNext]_<<catalogVars, searchVars, subject>>
    /\ WF_searchVars(subject = "search" /\ Worker /\ UNCHANGED <<catalogVars, subject>>)
=============================================================================
