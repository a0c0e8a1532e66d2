------------------------------ MODULE DedupIndex ------------------------------
(***************************************************************************)
(* The index that tells a carved file that repeats a known one             *)
(* (scan/dedup_index.cpp): metadata hits and kept carves by their sectors, *)
(* each in a base sorted by start with the running maximum of the ends,    *)
(* and a short tail not yet merged.                                        *)
(***************************************************************************)
EXTENDS Integers, Sequences, FiniteSets, SequencesExt

CONSTANTS
    Records,         \* the records a scan emits, see Record
    Saved,          \* the lists of records a resume finds in the database
    MergeThreshold,  \* kMergeThreshold
    MaxWindowScan,   \* kMaxWindowScan
    EdgeProbe,       \* kEdgeProbe
    MaxEmitted       \* bound: records of one scan

NoHash == "none"

\* end is 0 when it is not known, and lies before start in a hit on a file whose
\* last run lies before its first; hash covers a prefix of the content.
Record(r) ==
    /\ r.kind \in {"metadata", "carve"} /\ r.start \in Nat /\ r.end \in Nat
    /\ r.size \in Nat

ASSUME DedupAssumption ==
    /\ \A r \in Records : Record(r)
    /\ \A s \in Saved : s \in Seq(Records)
    /\ MergeThreshold \in Nat \ {0} /\ MaxWindowScan \in Nat /\ EdgeProbe \in Nat
    /\ MaxEmitted \in Nat

VARIABLES
    meta, carve,     \* the two indexes: [base, maxEnd, pending]
    contentHashes,   \* hash -> size of the first kept carve that has it
    known,           \* ghost: the records that count: hits seen, carves kept
    restored,        \* ghost: the carves among them that a resume loaded
    verdict,         \* the last answer of markDuplicate
    emitted          \* ghost: number of records

dedupVars == <<meta, carve, contentHashes, known, restored, verdict, emitted>>

Empty == [base |-> <<>>, maxEnd |-> <<>>, pending |-> <<>>]
NoVerdict == [kind |-> "none"]

----------------------------------------------------------------------------
(* Spans                                                                   *)

Lesser(a, b) == IF a < b THEN a ELSE b
Greater(a, b) == IF a < b THEN b ELSE a

Entry(r) == [start |-> r.start, end |-> IF r.end > 0 THEN r.end ELSE r.start]
Span(e) == IF e.end >= e.start THEN e.end - e.start + 1 ELSE 1
overlapSectorCount(a, b) ==
    LET n == Lesser(a.end, b.end) - Greater(a.start, b.start) + 1
    IN  IF n > 0 THEN n ELSE 0

\* They share at least half of the shorter one: one that ends before it starts
\* shares nothing.
Same(a, b) == overlapSectorCount(a, b) * 2 >= Lesser(Span(a), Span(b))

----------------------------------------------------------------------------
(* The sorted base                                                         *)

\* One step of std::inplace_merge: the next of a or the j-th of b
MergeStep(a, b, acc, j) ==
    LET i == acc.taken + 1
    IN  IF j <= Len(b) /\ (i <= Len(a) => b[j].start < a[i].start)
        THEN [taken |-> acc.taken, out |-> Append(acc.out, b[j])]
        ELSE [taken |-> i, out |-> Append(acc.out, a[i])]
MergeSteps(a, b) ==
    LET after[k \in 0..(Len(a) + Len(b))] ==
            IF k = 0 THEN [taken |-> 0, out |-> <<>>]
            ELSE CHOOSE next \in {MergeStep(a, b, acc, k - acc.taken) : acc \in {after[k - 1]}} : TRUE
    IN  after

\* std::inplace_merge: what it does on a base that is not sorted too
Merge(a, b) == MergeSteps(a, b)[Len(a) + Len(b)].out

\* std::sort by the start, written as insertions
SortSteps(s) ==
    LET after[k \in 0..Len(s)] ==
            IF k = 0 THEN <<>>
            ELSE CHOOSE next \in {Merge(t, <<s[k]>>) : t \in {after[k - 1]}} : TRUE
    IN  after

\* Mutant: the ends themselves, which a search by halves cannot use.
ends(base) == [i \in DOMAIN base |-> base[i].end]

prefixMaxEnd(base) ==
    [i \in DOMAIN base |-> CHOOSE e \in {base[j].end : j \in 1..i} :
                             \A j \in 1..i : base[j].end <= e]

mergeSorted(ix) ==
    IF ix.pending = <<>> THEN ix
    ELSE LET base == Merge(ix.base, SortSteps(ix.pending)[Len(ix.pending)])
         IN  [base |-> base, maxEnd |-> prefixMaxEnd(base), pending |-> <<>>]

Added(ix, e) ==
    LET tail == [ix EXCEPT !.pending = Append(@, e)]
    IN  IF Len(tail.pending) >= MergeThreshold THEN mergeSorted(tail) ELSE tail

\* std::lower_bound and upper_bound: how many of the first n pass the test, by
\* halves; n steps are enough.
HalfStep(passes, acc) ==
    LET half == acc.len \div 2
    IN  IF acc.len = 0 THEN acc
        ELSE IF passes[acc.first + half + 1]
             THEN [first |-> acc.first + half + 1, len |-> acc.len - half - 1]
             ELSE [acc EXCEPT !.len = half]
HalfSteps(n, passes) ==
    LET after[k \in 0..n] ==
            IF k = 0 THEN [first |-> 0, len |-> n]
            ELSE CHOOSE next \in {HalfStep(passes, acc) : acc \in {after[k - 1]}} : TRUE
    IN  after
PartitionPoint(n, passes) == HalfSteps(n, passes)[n].first

\* The entries findOverlap looks at: the tail, and of the base a window that
\* ends at the last start not after the query's end, its first EdgeProbe and
\* its last MaxWindowScan + 1 entries.
Examined(ix, q) ==
    LET hi == PartitionPoint(Len(ix.base), [i \in DOMAIN ix.base |-> ix.base[i].start <= q.end])
        j0 == PartitionPoint(hi, [i \in 1..hi |-> ix.maxEnd[i] < q.start]) + 1
        window == (j0..Lesser(hi, j0 + EdgeProbe - 1))
                  \cup (Greater(j0, hi - MaxWindowScan)..hi)
    IN  {ix.pending[i] : i \in DOMAIN ix.pending}
        \cup (IF ix.base = <<>> \/ Len(ix.maxEnd) # Len(ix.base) THEN {}
              ELSE {ix.base[i] : i \in window})
findOverlap(ix, q) == \E e \in Examined(ix, q) : Same(e, q)

----------------------------------------------------------------------------
(* Operations                                                              *)

DedupInit ==
    /\ meta = Empty /\ carve = Empty /\ contentHashes = <<>>
    /\ known = {} /\ restored = {} /\ verdict = NoVerdict /\ emitted = 0

\* A record that says nothing of where it is, is not observed.
Placed(r) == ~(r.start = 0 /\ r.end = 0 /\ r.size = 0)

\* std::unordered_map::emplace: the first one stays.
Hashed(table, r) ==
    IF r.hash = NoHash \/ r.hash \in DOMAIN table THEN table
    ELSE [h \in DOMAIN table \cup {r.hash} |-> IF h = r.hash THEN r.size ELSE table[h]]

\* One record of loadFromRecords: a stored carve goes straight to the base.
LoadOne(acc, r) ==
    IF r.kind = "carve"
    THEN [hits |-> acc.hits, carves |-> Append(acc.carves, Entry(r)), hashes |-> Hashed(acc.hashes, r)]
    ELSE IF Placed(r) THEN [acc EXCEPT !.hits = Added(@, Entry(r))] ELSE acc
LoadSteps(s) ==
    LET after[k \in 0..Len(s)] ==
            IF k = 0 THEN [hits |-> Empty, carves |-> <<>>, hashes |-> contentHashes]
            ELSE CHOOSE next \in {LoadOne(acc, s[k]) : acc \in {after[k - 1]}} : TRUE
    IN  after

\* clear and, for a resume, loadFromRecords, which merges both tails; that of
\* the carves is empty.
Load(s) ==
    LET loaded == LoadSteps(s)[Len(s)]
        carves == {r \in ToSet(s) : r.kind = "carve"}
    IN  /\ emitted = 0
        /\ meta' = mergeSorted(loaded.hits)
        /\ carve' = mergeSorted([Empty EXCEPT !.base = loaded.carves])
        /\ contentHashes' = loaded.hashes
        /\ known' = {r \in ToSet(s) : r.kind = "metadata" /\ Placed(r)} \cup carves
        /\ restored' = carves
        /\ verdict' = NoVerdict /\ emitted' = Len(s)

\* A metadata record: observe, and markDuplicate leaves it alone.
Observe(r) ==
    /\ r.kind = "metadata" /\ emitted < MaxEmitted
    /\ IF Placed(r) THEN meta' = Added(meta, Entry(r)) /\ known' = known \cup {r}
                    ELSE UNCHANGED <<meta, known>>
    /\ verdict' = NoVerdict /\ emitted' = emitted + 1
    /\ UNCHANGED <<carve, contentHashes, restored>>

contentKnown(r) ==
    r.hash # NoHash /\ r.hash \in DOMAIN contentHashes /\ contentHashes[r.hash] = r.size

Answer(r) == CASE contentKnown(r) -> "content"
               [] ~contentKnown(r) /\ findOverlap(carve, Entry(r)) -> "carve"
               [] ~contentKnown(r) /\ ~findOverlap(carve, Entry(r))
                    /\ findOverlap(meta, Entry(r)) -> "metadata"
               [] OTHER -> "kept"

\* A carved record: observe leaves it alone, markDuplicate demotes or keeps it.
markDuplicate(r) ==
    /\ r.kind = "carve" /\ emitted < MaxEmitted
    /\ verdict' = [kind |-> Answer(r), record |-> r, before |-> known,
                   hits |-> Len(meta.base), carves |-> Len(carve.base)]
    /\ IF Answer(r) = "kept"
       THEN /\ carve' = Added(carve, Entry(r)) /\ known' = known \cup {r}
            /\ contentHashes' = Hashed(contentHashes, r)
       ELSE UNCHANGED <<carve, known, contentHashes>>
    /\ emitted' = emitted + 1 /\ UNCHANGED <<meta, restored>>

DedupNext ==
    \/ \E s \in Saved : Load(s)
    \/ \E r \in Records : Observe(r) \/ markDuplicate(r)

DedupSpec == DedupInit /\ [][DedupNext]_dedupVars

----------------------------------------------------------------------------
(* Properties                                                              *)

Judged == verdict # NoVerdict
Repeats(r, k) ==
    \/ Same(Entry(r), Entry(k))
    \/ k.kind = "carve" /\ k.hash = r.hash /\ k.hash # NoHash /\ k.size = r.size

\* A carve is demoted only for a record that is kept: there is one it shares
\* half of its sectors with, or a kept carve of the same hash and size.  Two
\* copies never demote each other, and a shared prefix does not do.
NeverLost ==
    Judged /\ verdict.kind # "kept" => \E k \in verdict.before : Repeats(verdict.record, k)

\* As long as the base is no longer than the window, a carve is kept only if it
\* repeats none of the hits seen and, in a scan that was not resumed, of the
\* carves kept, however long they are and wherever they start or end.  (A hit that
\* ends before it starts is repeated by no carve: findOverlap knows only the ends
\* of a file in many pieces.)
Known(kind) == {k \in verdict.before : k.kind = kind}
Misses(kind) == \E k \in Known(kind) : Same(Entry(verdict.record), Entry(k))
NoneMissed ==
    Judged /\ verdict.kind = "kept" =>
      /\ verdict.hits <= MaxWindowScan + 1 => ~Misses("metadata")
      /\ verdict.carves <= MaxWindowScan + 1 /\ restored = {} => ~Misses("carve")

\* The index is exact: nothing is demoted without a twin that is kept, and no
\* twin within its reach is kept twice.
DedupIsExact == NeverLost /\ NoneMissed
=============================================================================
