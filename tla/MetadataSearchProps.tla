------------------------- MODULE MetadataSearchProps -------------------------
(***************************************************************************)
(* What searches find: properties of module MetadataSearch.                *)
(***************************************************************************)
EXTENDS MetadataSearch

\* Type correctness of the tables and of the documents: what is indexed is under
\* an id that was given out, and a file that has a document has metadata in it.
SearchTypeOK ==
    /\ row \in [Files -> Records \cup {NoRow}]
    /\ used \subseteq Ids
    /\ id \in [Files -> used \cup {NoId}]
    /\ fts \subseteq used \X Words
    /\ had \in [Files -> SUBSET Words]
    /\ doc \in [Files -> [meta : Records, content : Contents \cup {{}}] \cup {NoRow}]

(***************************************************************************)
(* However rows were put, replaced and deleted, a text search of a build   *)
(* with fts5 finds every row by every word of its path and description and *)
(* of its tags, but for the words of a tag that its JSON does not have: a  *)
(* row with the tag R&D, stored as R\u0026D, is not found by its D.        *)
(***************************************************************************)
TextFound ==
    \A f \in Rows :
        \A w \in PathWords[f] \cup row[f].desc
                    \cup UNION {TagWords[t] \cap JSONWords[t] : t \in row[f].tags} :
            f \in FTSSearch([text |-> w, adaptor |-> NoFilter, prefix |-> NoFilter,
                             type |-> NoFilter, tags |-> {}, min |-> 0, max |-> 0])

(***************************************************************************)
(* The triggers leave words behind that a row no longer has, and those of  *)
(* rows that are gone.  A text search may be misled by them only to a row  *)
(* that once had the word, never to another file.                          *)
(***************************************************************************)
HitsWereTrue ==
    \A f \in Rows, w \in Words : <<id[f], w>> \in fts => w \in had[f]

(***************************************************************************)
(* "metadata search" with and without --full-text: when both places hold   *)
(* the same metadata, a query without sizes, for tags that JSON leaves as  *)
(* they are, finds in the table all that bleve finds by metadata, whatever *)
(* the build; only what is in the content of files is found by bleve       *)
(* alone.  Without a text, and with a prefix that LIKE takes literally,    *)
(* bleve finds what the table finds for each of the tags.                  *)
(***************************************************************************)
InStep == Rows = Indexed /\ \A f \in Rows : doc[f].meta = row[f]

SearchesAgree ==
    InStep =>
        \A q \in Queries :
            LET byMetadata == {f \in BleveSearch(q) : q.text \notin doc[f].content}
                forEachTag == {f \in LikeSearch([q EXCEPT !.tags = {}]) :
                                  \A t \in q.tags : f \in LikeSearch([q EXCEPT !.tags = {t}])}
            IN
            q.min = 0 /\ q.max = 0 /\ (\A t \in q.tags : TagLike[t] = {t}) =>
                /\ byMetadata \subseteq LikeSearch(q) \cap FTSSearch(q)
                /\ q.text = NoText /\ (q.prefix = NoFilter \/ Like[q.prefix] = StartsWith[q.prefix])
                      => BleveSearch(q) = forEachTag

(***************************************************************************)
(* sqlite_store_fts.go: "Triggers to keep FTS in sync": a text search      *)
(* finds the rows that have the word, and no others.                       *)
(***************************************************************************)
InSync ==
    \A f \in Rows, w \in Words : <<id[f], w>> \in fts => w \in TextOf(f, row[f])
=============================================================================
