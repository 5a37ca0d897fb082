---------------------------- MODULE CacheCreator ----------------------------
(***************************************************************************)
(* CacheCreator.InsertAllKeysAndValues (src/cmd/cache_creator.go) driven   *)
(* by KeyValueFileScanner.ForEach (src/cmd/kv_scanner.go), inserting into  *)
(* a CacheWriter (src/axoncache.go InsertKey).                             *)
(*                                                                         *)
(* The data file is a sequence of records key=value. A key is a pair       *)
(* <<q, n>>: q > 0 is the query id written before the first '.', q = 0 a   *)
(* key without '.', such as LAST_POPULATE_<x>. A line without '=' is a     *)
(* record whose ok field is FALSE. The builder's table (C++, not under     *)
(* src/) is a function from keys to values in which a write to a present   *)
(* key overwrites it and a new key needs a free slot (spec sections 3, 4). *)
(***************************************************************************)
EXTENDS Naturals, Sequences, FiniteSets

CONSTANTS
    Keys,             \* keys the data file may hold, pairs <<q, n>>
    LastPopulateKeys, \* the keys starting with LAST_POPULATE
    Values,           \* non-empty values
    KeyTypes,         \* c.KeyTypes: query id -> "string" or another type
    Slots,            \* keys the builder's table can hold
    MaxLen            \* longest data file enumerated

ASSUME LastPopulateKeys \subseteq Keys
ASSUME \A k \in Keys : k[1] \in Nat

Empty == ""
NoValue == "absent"
NoKey == <<0, "nil">>   \* previousKey before the first record (nil)

Records == [key : Keys, value : Values \cup {Empty}, ok : {TRUE}]
             \cup [key : {NoKey}, value : {Empty}, ok : {FALSE}]

VARIABLES
    input,            \* the data file
    dedup,            \* scanner.DeduplicateKeys
    pos,              \* index of the next record ForEach reads
    previousKey,      \* InsertAllKeysAndValues' previousKey
    uniqueKeys,       \* scanner.UniqueKeys
    uniqueNoQid,      \* scanner.UniqueKeysWithoutQueryId
    currentQid,       \* scanner.CurrentPopulateQueryId, 0 for ""
    hasLastPopulate,  \* c.HasLastPopulateKey
    table,            \* the builder's table
    status,           \* "scanning", then "ok" or "error"
    cstatus,          \* comparo: "idle", "scanning", "scan_failed", then
                      \* "ok", "mismatch" or "error" (log.Fatal)
    cpos,             \* comparo: index of the next record its scanner reads
    cKeys, cNoQid, cQid, \* comparo's scanner: its three dedup fields
    mismatches        \* comparo's mismatchingKeys

buildVars == <<input, dedup, pos, previousKey, uniqueKeys, uniqueNoQid,
               currentQid, hasLastPopulate, table, status>>
comparoVars == <<cstatus, cpos, cKeys, cNoQid, cQid, mismatches>>
vars == <<buildVars, comparoVars>>

\* ExtractQueryId: the number before the first '.', 0 without one.
ExtractQueryId(k) == k[1]

\* The type c.KeyTypes gives a key; a missing entry is StringValueType.
KeyType(k) ==
    IF ExtractQueryId(k) \in DOMAIN KeyTypes THEN KeyTypes[ExtractQueryId(k)]
    ELSE "string"

\* A mutant: the set is emptied on a new query id, but the query id the
\* scanner remembers stays the first one it saw.
IsKeyDuplicatedStaleQid(k, keys, noQid, qid) ==
    IF ExtractQueryId(k) = 0
    THEN [dup |-> k \in noQid, noQid |-> noQid \cup {k},
          keys |-> keys, qid |-> qid]
    ELSE LET q == ExtractQueryId(k)
             fresh == qid # 0 /\ q # qid
             seen == IF fresh THEN {} ELSE keys
         IN [dup |-> k \in seen, noQid |-> noQid,
             keys |-> seen \cup {k}, qid |-> IF qid = 0 THEN q ELSE qid]

\* isKeyDuplicated of a scanner whose dedup fields are keys, noQid and qid:
\* the verdict and the fields' new values. Keys without '.' share one set
\* for the whole file; the other set is emptied whenever the query id
\* changes.
IsKeyDuplicated(k, keys, noQid, qid) ==
    IF ExtractQueryId(k) = 0
    THEN [dup |-> k \in noQid, noQid |-> noQid \cup {k},
          keys |-> keys, qid |-> qid]
    ELSE LET q == ExtractQueryId(k)
             fresh == qid # 0 /\ q # qid
             seen == IF fresh THEN {} ELSE keys
         IN [dup |-> k \in seen, noQid |-> noQid,
             keys |-> seen \cup {k}, qid |-> q]

\* InsertKey: the builder returns 3 (KeySpaceIsFullError) for a new key
\* when every slot is taken, and otherwise stores the value.
InsertKey(k, v) ==
    IF table[k] = NoValue /\ Cardinality({j \in Keys : table[j] # NoValue}) = Slots
    THEN /\ status' = "error" /\ UNCHANGED table
    ELSE /\ table' = [table EXCEPT ![k] = v] /\ UNCHANGED status

\* A mutant: previousKey moves only when the record is inserted.
InsertCallbackLateKey(k, v) ==
    /\ hasLastPopulate' = (hasLastPopulate \/ k \in LastPopulateKeys)
    /\ IF k = previousKey \/ (KeyType(k) # "string" /\ v = Empty)
       THEN UNCHANGED <<previousKey, table, status>>
       ELSE previousKey' = k /\ InsertKey(k, v)

\* The callback of InsertAllKeysAndValues for one record.
InsertCallback(k, v) ==
    /\ hasLastPopulate' = (hasLastPopulate \/ k \in LastPopulateKeys)
    /\ IF k = previousKey
       THEN UNCHANGED <<previousKey, table, status>>
       ELSE /\ previousKey' = k
            /\ IF KeyType(k) # "string" /\ v = Empty
               THEN UNCHANGED <<table, status>>
               ELSE InsertKey(k, v)

\* One iteration of ForEach: a line without '=' ends the scan with an
\* error; a duplicated key is skipped when deduplication is on; any other
\* record goes to the callback, whose error ends the scan.
ScanRecord ==
    /\ status = "scanning" /\ pos <= Len(input)
    /\ pos' = pos + 1
    /\ LET r == input[pos] IN
       \/ /\ ~r.ok
          /\ status' = "error"
          /\ UNCHANGED <<previousKey, uniqueKeys, uniqueNoQid, currentQid,
                         hasLastPopulate, table>>
       \/ /\ r.ok /\ ~dedup
          /\ InsertCallback(r.key, r.value)
          /\ UNCHANGED <<uniqueKeys, uniqueNoQid, currentQid>>
       \/ /\ r.ok /\ dedup
          /\ LET d == IsKeyDuplicated(r.key, uniqueKeys, uniqueNoQid, currentQid) IN
             /\ uniqueKeys' = d.keys /\ uniqueNoQid' = d.noQid
             /\ currentQid' = d.qid
             /\ IF d.dup
                THEN UNCHANGED <<previousKey, hasLastPopulate, table, status>>
                ELSE InsertCallback(r.key, r.value)
    /\ UNCHANGED <<input, dedup>>

\* A mutant: a file without LAST_POPULATE is accepted.
FinishIgnoresLastPopulate ==
    /\ status = "scanning" /\ pos > Len(input)
    /\ status' = "ok"
    /\ UNCHANGED <<input, dedup, pos, previousKey, uniqueKeys, uniqueNoQid,
                   currentQid, hasLastPopulate, table>>

\* ForEach returned without error: the file must have had a LAST_POPULATE
\* key.
Finish ==
    /\ status = "scanning" /\ pos > Len(input)
    /\ status' = IF hasLastPopulate THEN "ok" ELSE "error"
    /\ UNCHANGED <<input, dedup, pos, previousKey, uniqueKeys, uniqueNoQid,
                   currentQid, hasLastPopulate, table>>

\* A fresh scanner (NewKeyValueFileScanner, empty dedup sets), with or
\* without EnableKeysDeduplication, mapping any data file of at most MaxLen
\* records, and an empty table.
Init ==
    /\ input \in UNION {[1..n -> Records] : n \in 0..MaxLen}
    /\ dedup \in BOOLEAN
    /\ pos = 1
    /\ previousKey = NoKey
    /\ uniqueKeys = {} /\ uniqueNoQid = {} /\ currentQid = 0
    /\ hasLastPopulate = FALSE
    /\ table = [k \in Keys |-> NoValue]
    /\ status = "scanning"
    /\ cstatus = "idle" /\ cpos = 1
    /\ cKeys = {} /\ cNoQid = {} /\ cQid = 0 /\ mismatches = 0

---------------------------------------------------------------------------
(* comparo (src/cmd/main.go Comparo) run on the data file and the cache   *)
(* the build produced: a reader of that cache, a scanner with             *)
(* EnableKeysDeduplication, and, for each record the scanner passes on,    *)
(* the value the reader's typed getter returns compared with the record's. *)
(* Values are canonical numerals for numeric types, so strconv's parse of  *)
(* a non-empty value and the getter's value are equal exactly when the     *)
(* strings are. The build succeeded, so every line has its '='.            *)

\* GetKeyType: the C reader finds the key, or ErrNotFound.
GetKeyTypeFound(k) == table[k] # NoValue

\* NewCacheReader and Update of the built artifact, then a fresh scanner.
ComparoStart ==
    /\ status = "ok" /\ cstatus = "idle"
    /\ cstatus' = "scanning"
    /\ UNCHANGED <<cpos, cKeys, cNoQid, cQid, mismatches>>

\* The callback for a record of a key the cache holds: GetKeyType names the
\* getter; String and Int64/Double compare values, a numeric parse of an
\* empty value is an error that ends ForEach, and any other type (Bool)
\* falls to the default case, which counts a mismatch.
ComparoCheck(k, v) ==
    CASE KeyType(k) = "string" ->
             /\ mismatches' = mismatches + (IF table[k] # v THEN 1 ELSE 0)
             /\ UNCHANGED cstatus
      [] KeyType(k) \in {"int64", "double"} /\ v = Empty ->
             /\ cstatus' = "scan_failed" /\ UNCHANGED mismatches
      [] KeyType(k) \in {"int64", "double"} ->
             /\ mismatches' = mismatches + (IF table[k] # v THEN 1 ELSE 0)
             /\ UNCHANGED cstatus
      [] OTHER -> mismatches' = mismatches + 1 /\ UNCHANGED cstatus

\* One iteration of comparo's ForEach: a duplicate is skipped, a key the
\* cache does not hold is logged ("key not found") and skipped.
ComparoRecord ==
    /\ cstatus = "scanning" /\ cpos <= Len(input)
    /\ cpos' = cpos + 1
    /\ LET r == input[cpos]
           d == IsKeyDuplicated(r.key, cKeys, cNoQid, cQid)
       IN /\ cKeys' = d.keys /\ cNoQid' = d.noQid /\ cQid' = d.qid
          /\ \/ d.dup /\ UNCHANGED <<cstatus, mismatches>>
             \/ ~d.dup /\ ~GetKeyTypeFound(r.key)
                       /\ UNCHANGED <<cstatus, mismatches>>
             \/ ~d.dup /\ GetKeyTypeFound(r.key) /\ ComparoCheck(r.key, r.value)

\* After ForEach: mismatches are fatal first, then ForEach's error.
ComparoEnd ==
    /\ \/ cstatus = "scanning" /\ cpos > Len(input)
       \/ cstatus = "scan_failed"
    /\ cstatus' = CASE mismatches > 0 -> "mismatch"
                    [] cstatus = "scan_failed" -> "error"
                    [] OTHER -> "ok"
    /\ UNCHANGED <<cpos, cKeys, cNoQid, cQid, mismatches>>

\* The build, then comparo on what it built. Both are sequential: once
\* they have returned, no step is enabled.
Next ==
    \/ (ScanRecord \/ Finish) /\ UNCHANGED comparoVars
    \/ (ComparoStart \/ ComparoRecord \/ ComparoEnd) /\ UNCHANGED buildVars

Spec == Init /\ [][Next]_vars

---------------------------------------------------------------------------
(* The duplicate policy of the spec (sections 3.4 and 8.3-8.4), as a      *)
(* function of the whole file: a record repeating the key of the record   *)
(* just before it is dropped (the first of a run wins), an empty value of *)
(* a non-string type writes nothing, and any other record overwrites.     *)

RECURSIVE PolicyTable(_, _, _)
PolicyTable(s, i, t) ==
    IF i > Len(s) THEN t
    ELSE LET r == s[i]
             collapsed == i > 1 /\ s[i - 1].key = r.key
             noop == KeyType(r.key) # "string" /\ r.value = Empty
         IN PolicyTable(s, i + 1,
                        IF collapsed \/ noop THEN t
                        ELSE [t EXCEPT ![r.key] = r.value])

SpecTable(s) == PolicyTable(s, 1, [k \in Keys |-> NoValue])

AllLinesValid(s) == \A i \in 1..Len(s) : s[i].ok
MentionsLastPopulate(s) == \E i \in 1..Len(s) : s[i].key \in LastPopulateKeys
KeysOf(t) == {k \in Keys : t[k] # NoValue}

\* The table a deduplicating build is meant to produce: each key holds the
\* value of its first record, unless that value is empty for a non-string
\* type, which writes nothing.
FirstRecord(s, k) ==
    s[CHOOSE i \in 1..Len(s) : s[i].key = k /\ \A j \in 1..(i - 1) : s[j].key # k]

FirstValueTable(s) ==
    [k \in Keys |->
        IF \A i \in 1..Len(s) : s[i].key # k THEN NoValue
        ELSE LET v == FirstRecord(s, k).value
             IN IF KeyType(k) # "string" /\ v = Empty THEN NoValue ELSE v]

\* The records of each query id are contiguous; keys without '.' may sit
\* anywhere, as they do not touch CurrentPopulateQueryId.
QueriesAreGrouped(s) ==
    \A i, j, m \in 1..Len(s) :
        /\ i < j /\ j < m
        /\ ExtractQueryId(s[i].key) # 0
        /\ ExtractQueryId(s[i].key) = ExtractQueryId(s[m].key)
        => ExtractQueryId(s[j].key) \in {0, ExtractQueryId(s[i].key)}

---------------------------------------------------------------------------
(* Properties                                                              *)

TypeOK ==
    /\ input \in Seq(Records) /\ dedup \in BOOLEAN
    /\ pos \in 1..(Len(input) + 1)
    /\ previousKey \in Keys \cup {NoKey}
    /\ uniqueKeys \subseteq Keys /\ uniqueNoQid \subseteq Keys
    /\ currentQid \in Nat /\ hasLastPopulate \in BOOLEAN
    /\ table \in [Keys -> Values \cup {Empty, NoValue}]
    /\ status \in {"scanning", "ok", "error"}
    /\ cstatus \in {"idle", "scanning", "scan_failed", "ok", "mismatch", "error"}
    /\ cpos \in 1..(Len(input) + 1) /\ mismatches \in 0..Len(input)
    /\ cKeys \subseteq Keys /\ cNoQid \subseteq Keys /\ cQid \in Nat

\* A build without scanner deduplication that succeeds holds exactly the
\* table of the spec's duplicate policy: the interplay of previousKey, the
\* empty-value skip and overwrites in InsertAllKeysAndValues loses no value
\* and keeps no stale one.
BuildFollowsDuplicatePolicy ==
    (status = "ok" /\ ~dedup) => table = SpecTable(input)

\* Without deduplication, the build succeeds exactly when every line has a
\* '=', a LAST_POPULATE key is present and the policy's keys fit the slots.
BuildSucceedsExactlyWhenValid ==
    (status # "scanning" /\ ~dedup) =>
        ((status = "ok") <=> /\ AllLinesValid(input)
                             /\ MentionsLastPopulate(input)
                             /\ Cardinality(KeysOf(SpecTable(input))) <= Slots)

\* A build with scanner deduplication on a file grouped by query id keeps
\* each key's first value, wherever its repeats are: isKeyDuplicated's
\* reset of UniqueKeys on a change of CurrentPopulateQueryId forgets only
\* keys of query ids that do not come back. (On a file that is not grouped,
\* a key repeated after another query id is inserted again.)
DedupBuildKeepsFirstValue ==
    (status = "ok" /\ dedup /\ QueriesAreGrouped(input))
        => table = FirstValueTable(input)

=============================================================================
