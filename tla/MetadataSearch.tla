--------------------------- MODULE MetadataSearch ---------------------------
(***************************************************************************)
(* What is kept for searching, and the searches: the metadata table of     *)
(* sqlite_store_base.go, the FTS5 index that triggers keep beside it in    *)
(* builds with fts5, and the documents of search/bleve_index.go.  Text is  *)
(* a set of words, a query asks for one word or none.  The order of the    *)
(* answers and their number (LIMIT) are left out.                          *)
(***************************************************************************)
EXTENDS Integers

CONSTANTS Files,
          Ids, NoId,          \* row ids
          Words, Null, NoText,
          Tags,
          TagWords,           \* TagWords[t]: the words of a tag
          JSONWords,          \* JSONWords[t]: those of its JSON, R\u0026D for R&D
          Records,            \* metadata: desc (words), tags, size, type
          Contents,           \* sets of words: what may be read in a file
          NoRow,
          NoFilter,           \* a filter that is not given
          Adaptor, PathWords, \* Adaptor[f]; PathWords[f], the words of its path
          Prefixes, StartsWith, \* StartsWith[p]: files whose path starts with p
          Like,               \* Like[p]: files whose path is LIKE 'p%'
          TagLike,            \* TagLike[t]: tags whose JSON is LIKE '%"t"%'
          Occurs              \* Occurs[w]: the words w occurs in

ASSUME SearchAssumption ==
    /\ Null \in Words /\ NoText \notin Words
    /\ \A m \in Records : m.desc \subseteq Words /\ m.tags \subseteq Tags /\ m.size \in Nat
    /\ \A x \in Contents : x \subseteq Words
    /\ NoRow \notin Records /\ NoId \notin Ids
    /\ \A f \in Files : PathWords[f] \subseteq Words
    /\ \A p \in Prefixes : StartsWith[p] \subseteq Like[p] /\ Like[p] \subseteq Files
    /\ \A t \in Tags : JSONWords[t] \subseteq Words /\ TagLike[t] \subseteq Tags
    /\ \A w \in Words : w \in Occurs[w]

VARIABLES row,  \* row[f]: f's row in the metadata table
          id,   \* id[f]: the id of that row
          used, \* ids given out so far (AUTOINCREMENT gives none twice)
          fts,  \* metadata_fts: <<id, word>>
          doc,  \* doc[f]: f's document in bleve, [meta, content]
          had   \* history: words of f's row since it was inserted

searchVars == <<row, id, used, fts, doc, had>>

Rows == {f \in Files : row[f] # NoRow}
Indexed == {f \in Files : doc[f] # NoRow}

\* The columns of the FTS table.  Tags are there as JSON, and as "null" when there
\* are none.
TextOf(f, m) ==
    PathWords[f] \cup m.desc
        \cup (IF m.tags = {} THEN {Null} ELSE UNION {JSONWords[t] : t \in m.tags})

SearchInit ==
    /\ row = [f \in Files |-> NoRow]
    /\ id = [f \in Files |-> NoId]
    /\ used = {}
    /\ fts = {}
    /\ doc = [f \in Files |-> NoRow]
    /\ had = [f \in Files |-> {}]

-----------------------------------------------------------------------------
\* Fault of FreshIds: without AUTOINCREMENT, the ids of deleted rows come again.
FreshIdsReused == Ids \ {id[f] : f \in Rows}

FreshIds == Ids \ used

\* Fault of Triggered: the trigger for updates is missing.
TriggeredByInsert(m, i) ==
    fts \cup UNION {{i[f]} \X TextOf(f, m[f]) : f \in DOMAIN m \ Rows}

\* The triggers after m[f] was stored under the id i[f].  FTS5 takes the words to
\* drop from the metadata table as it is by then: after an UPDATE these are the new
\* words, which it adds again, and after a DELETE there are none.
Triggered(m, i) ==
    fts \cup UNION {{i[f]} \X TextOf(f, m[f]) : f \in DOMAIN m}

\* INSERT ... ON CONFLICT DO UPDATE of m[f] for the files f of m.
Stored(m) ==
    /\ row' = [f \in Files |-> IF f \in DOMAIN m THEN m[f] ELSE row[f]]
    /\ \E i \in [DOMAIN m -> Ids] :
          /\ \A f \in DOMAIN m : IF f \in Rows THEN i[f] = id[f] ELSE i[f] \in FreshIds
          /\ \A f, g \in DOMAIN m : i[f] = i[g] => f = g
          /\ id' = [f \in Files |-> IF f \in DOMAIN m THEN i[f] ELSE id[f]]
          /\ used' = used \cup {i[f] : f \in DOMAIN m}
          /\ fts' = Triggered(m, i)
    /\ had' = [f \in Files |-> IF f \in DOMAIN m THEN had[f] \cup TextOf(f, m[f]) ELSE had[f]]
    /\ UNCHANGED doc

Put(f, m) == Stored([g \in {f} |-> m])

\* One transaction; its only caller lists each file once.
BatchPutRows(m) == Stored(m)

Removed(files) ==
    /\ row' = [f \in Files |-> IF f \in files THEN NoRow ELSE row[f]]
    /\ id' = [f \in Files |-> IF f \in files THEN NoId ELSE id[f]]
    /\ had' = [f \in Files |-> IF f \in files THEN {} ELSE had[f]]
    /\ UNCHANGED <<used, fts, doc>>

Delete(f) == Removed({f})
BatchDelete(files) == Removed(files)

-----------------------------------------------------------------------------
\* bleve replaces a document as a whole.
Documented(m, content) ==
    /\ doc' = [f \in Files |-> IF f \in DOMAIN m THEN [meta |-> m[f], content |-> content]
                               ELSE doc[f]]
    /\ UNCHANGED <<row, id, used, fts, had>>

Index(f, m) == Documented([g \in {f} |-> m], {})
IndexWithContent(f, m, content) == Documented([g \in {f} |-> m], content)
BatchIndex(m) == Documented(m, {})

\* Fault of DeleteDocument: a document of nothing is indexed over it.
DeleteDocumentEmptied(f) ==
    /\ doc' = [doc EXCEPT ![f] = [meta |-> NoRow, content |-> {}]]
    /\ UNCHANGED <<row, id, used, fts, had>>

DeleteDocument(f) ==
    /\ doc' = [doc EXCEPT ![f] = NoRow]
    /\ UNCHANGED <<row, id, used, fts, had>>

-----------------------------------------------------------------------------
Queries == [text : Words \cup {NoText}, adaptor : {Adaptor[f] : f \in Files} \cup {NoFilter},
            prefix : Prefixes \cup {NoFilter}, type : {m.type : m \in Records} \cup {NoFilter},
            tags : SUBSET Tags, min : {m.size : m \in Records} \cup {0},
            max : {m.size : m \in Records} \cup {0}]

\* buildSearchQuery: any of the tags will do; sizes of 0 are not filters.
Selected(q) ==
    {f \in Rows :
        /\ q.adaptor \in {NoFilter, Adaptor[f]}
        /\ q.prefix = NoFilter \/ f \in Like[q.prefix]
        /\ q.type \in {NoFilter, row[f].type}
        /\ q.tags = {} \/ \E t \in q.tags : row[f].tags \cap TagLike[t] # {}
        /\ q.min = 0 \/ row[f].size >= q.min
        /\ q.max = 0 \/ row[f].size <= q.max}

\* Search of builds without fts5, and with it.
LikeSearch(q) ==
    {f \in Selected(q) : q.text = NoText \/ TextOf(f, row[f]) \cap Occurs[q.text] # {}}
FTSSearch(q) ==
    {f \in Selected(q) : q.text = NoText \/ <<id[f], q.text>> \in fts}

\* Fault of Filtered: any of the tags will do.
FilteredByAny(q) ==
    {f \in Indexed :
        /\ q.adaptor \in {NoFilter, Adaptor[f]}
        /\ q.prefix = NoFilter \/ f \in StartsWith[q.prefix]
        /\ q.type \in {NoFilter, doc[f].meta.type}
        /\ q.tags = {} \/ q.tags \cap doc[f].meta.tags # {}}

\* addFilterQueries: all of the tags; sizes and times are not looked at.
Filtered(q) ==
    {f \in Indexed :
        /\ q.adaptor \in {NoFilter, Adaptor[f]}
        /\ q.prefix = NoFilter \/ f \in StartsWith[q.prefix]
        /\ q.type \in {NoFilter, doc[f].meta.type}
        /\ q.tags \subseteq doc[f].meta.tags}

\* The mapping of fields: the words of description and content are terms; a path
\* is one term, of which a word is only a part, and tags are not searched.
TermsOf(f) == doc[f].meta.desc \cup doc[f].content

BleveSearch(q) == {f \in Filtered(q) : q.text = NoText \/ q.text \in TermsOf(f)}

-----------------------------------------------------------------------------
SearchNext ==
    \/ \E f \in Files, m \in Records :
          \/ Put(f, m)
          \/ Index(f, m)
          \/ \E x \in Contents : IndexWithContent(f, m, x)
    \/ \E f \in Files : Delete(f) \/ DeleteDocument(f)
    \/ \E files \in SUBSET Files :
          \/ BatchDelete(files)
          \/ \E m \in [files -> Records] : BatchPutRows(m) \/ BatchIndex(m)

SearchSpec == SearchInit /\ [][SearchNext]_searchVars
=============================================================================
